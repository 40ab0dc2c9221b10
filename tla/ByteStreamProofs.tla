-------------------------- MODULE ByteStreamProofs --------------------------
(***************************************************************************)
(* The decoder takes out of the file the units that were put into it,      *)
(* whatever they hold and however far it looks ahead.  Three things give   *)
(* it: escaped bytes never look like a start code and give back what they  *)
(* were made of (Good, Coded); so a unit read from its place, or a byte    *)
(* behind it, ends where the next begins (Laid, NextUnitHere); and the     *)
(* order in which an encoder writes units tells how far the look-ahead     *)
(* goes and what the flags of the main loop are (Ordered, Flags).  The     *)
(* sizes of substreams rest on where each byte of a unit is put (Spread).  *)
(* Which pictures are finished follows from where between two access units *)
(* the main loop is (Bordered).                                            *)
(***************************************************************************)
EXTENDS ByteStream, FiniteSetTheorems, SequenceTheorems, WellFoundedInduction, TLAPS

----------------------------------------------------------------------------
(* Numbers.                                                                *)

(* A set of numbers that is not empty has a least one.                     *)
LEMMA Least ==
  ASSUME NEW T \in SUBSET Nat, T # {}
  PROVE  \E n \in T : \A m \in T : n <= m
<1> DEFINE R == OpToRel(<, Nat)
<1>1. IsWellFoundedOn(R, Nat)
  BY NatLessThanWellFounded, Zenon
<1>2. \A x, y \in Nat : y < x => <<y, x>> \in R
  BY DEF OpToRel
<1> HIDE DEF R
<1>3. PICK x \in T : \A y \in T : <<y, x>> \notin R
  BY <1>1, WFMin, Zenon
<1>4. ASSUME NEW y \in T
      PROVE  x <= y
  <2>1. x \in Nat /\ y \in Nat /\ ~(y < x)
    BY <1>2, <1>3
  <2> QED
    BY <2>1
<1> QED
  BY <1>4

(* A set that holds 0 and every successor holds all numbers.               *)
LEMMA Induction ==
  ASSUME NEW S \in SUBSET Nat, 0 \in S, \A n \in S : n + 1 \in S
  PROVE  S = Nat
<1>1. ASSUME Nat \ S # {}
      PROVE  FALSE
  <2>1. PICK n \in Nat \ S : \A m \in Nat \ S : n <= m
    BY <1>1, Least
  <2>2. n # 0 /\ n - 1 \in Nat /\ n - 1 \in S
    BY <2>1
  <2> QED
    BY <2>1, <2>2
<1> QED
  BY <1>1

\* FlattenSeq's recursion
IsFlat(f, ss, m) == f = [i \in 1 .. m |-> IF i = 1 THEN ss[i] ELSE f[i - 1] \o ss[i]]
FlatOf(ss) == CHOOSE f : IsFlat(f, ss, Len(ss))

(* It is a choice,                                                         *)
LEMMA FlattenIs ==
  ASSUME NEW ss, Len(ss) # 0
  PROVE  FlattenSeq(ss) = FlatOf(ss)[Len(ss)]
  BY DEF FlattenSeq, FlatOf, IsFlat

(* and there is what it chooses.                                           *)
LEMMA FlatExists ==
  ASSUME NEW ss, Len(ss) \in Nat
  PROVE  IsFlat(FlatOf(ss), ss, Len(ss))
<1> DEFINE S == {m \in Nat : \E f : IsFlat(f, ss, m)}
<1>1. 0 \in S
  <2> DEFINE f == [i \in 1 .. 0 |-> ss[i]]
  <2>1. IsFlat(f, ss, 0)
    BY DEF IsFlat
  <2> QED
    BY <2>1
<1>2. ASSUME NEW m \in S
      PROVE  m + 1 \in S
  <2>1. PICK f : IsFlat(f, ss, m)
    BY <1>2
  <2> DEFINE g == [i \in 1 .. m + 1 |-> IF i <= m THEN f[i] ELSE IF i = 1 THEN ss[i] ELSE f[m] \o ss[i]]
  <2>2. m \in Nat
    BY <1>2
  <2>3. \A i \in 1 .. m : f[i] = IF i = 1 THEN ss[i] ELSE f[i - 1] \o ss[i]
    BY <2>1 DEF IsFlat
  <2>4. ASSUME NEW i \in 1 .. m + 1
        PROVE  g[i] = IF i = 1 THEN ss[i] ELSE g[i - 1] \o ss[i]
    <3>1. CASE i <= m
      <4>1. i \in 1 .. m /\ (i # 1 => i - 1 \in 1 .. m + 1 /\ i - 1 <= m)
        BY <2>2, <3>1
      <4>2. g[i] = f[i] /\ (i # 1 => g[i - 1] = f[i - 1])
        BY <3>1, <4>1
      <4> HIDE DEF g
      <4> QED
        BY <2>3, <4>1, <4>2
    <3>2. CASE ~(i <= m)
      <4>1. i - 1 = m /\ (i # 1 => i - 1 \in 1 .. m + 1 /\ i - 1 <= m)
        BY <2>2, <3>2
      <4>2. g[i] = (IF i = 1 THEN ss[i] ELSE f[m] \o ss[i]) /\ (i # 1 => g[i - 1] = f[m])
        BY <3>2, <4>1, <2>2
      <4> HIDE DEF g
      <4> QED
        BY <4>2
    <3> QED
      BY <3>1, <3>2
  <2>5. g = [i \in 1 .. m + 1 |-> g[i]]
    OBVIOUS
  <2> HIDE DEF g
  <2>6. g = [i \in 1 .. m + 1 |-> IF i = 1 THEN ss[i] ELSE g[i - 1] \o ss[i]]
    BY <2>4, <2>5
  <2>7. IsFlat(g, ss, m + 1)
    BY <2>6 DEF IsFlat
  <2> QED
    BY <2>2, <2>7
<1>3. S = Nat
  <2> HIDE DEF S
  <2>1. S \in SUBSET Nat
    BY DEF S
  <2> QED
    BY <1>1, <1>2, <2>1, Induction
<1>4. \E f : IsFlat(f, ss, Len(ss))
  BY <1>3
<1> QED
  BY <1>4, Zenon DEF FlatOf

(* Bytes, wherever the brackets are.                                       *)
LEMMA ByteAssociative ==
  \A s, t, u \in Seq(Byte) : (s \o t) \o u = s \o (t \o u)
  BY ConcatAssociative

(* One more.                                                               *)
LEMMA ByteAppend ==
  \A s \in Seq(Byte), b \in Byte :
    /\ Append(s, b) \in Seq(Byte) /\ Len(Append(s, b)) = Len(s) + 1
    /\ \A i \in 1 .. Len(s) : Append(s, b)[i] = s[i]
    /\ Append(s, b)[Len(s) + 1] = b
  BY AppendProperties

(* Bytes behind bytes.                                                     *)
LEMMA ByteConcat ==
  \A s, t \in Seq(Byte) :
    /\ s \o t \in Seq(Byte) /\ Len(s \o t) = Len(s) + Len(t)
    /\ Len(s) \in Nat /\ Len(t) \in Nat
    /\ \A i \in 1 .. Len(s) : (s \o t)[i] = s[i]
    /\ \A i \in 1 .. Len(t) : (s \o t)[Len(s) + i] = t[i]
<1> TAKE s, t \in Seq(Byte)
<1>1. Len(s) \in Nat /\ Len(t) \in Nat
  OBVIOUS
<1>2. /\ s \o t \in Seq(Byte) /\ Len(s \o t) = Len(s) + Len(t)
      /\ \A i \in 1 .. Len(s) + Len(t) : (s \o t)[i] = IF i <= Len(s) THEN s[i] ELSE t[i - Len(s)]
  BY ConcatProperties
<1>3. \A i \in 1 .. Len(s) : (s \o t)[i] = s[i]
  BY <1>1, <1>2
<1>4. ASSUME NEW i \in 1 .. Len(t)
      PROVE  (s \o t)[Len(s) + i] = t[i]
  <2>1. Len(s) + i \in 1 .. Len(s) + Len(t) /\ ~(Len(s) + i <= Len(s)) /\ (Len(s) + i) - Len(s) = i
    BY <1>1
  <2> QED
    BY <1>2, <2>1
<1> QED
  BY <1>1, <1>2, <1>3, <1>4

(* Two bytes one after the other.                                          *)
LEMMA PairAppend ==
  ASSUME NEW T, NEW a \in T, NEW b \in T
  PROVE  Append(<<a>>, b) = <<a, b>>
<1> DEFINE p == <<a>>
           q == <<a, b>>
<1>1. p \in Seq(T) /\ Len(p) = 1 /\ p[1] = a
  OBVIOUS
<1>2. q \in Seq(T) /\ Len(q) = 2 /\ q[1] = a /\ q[2] = b
  OBVIOUS
<1> HIDE DEF p, q
<1> DEFINE v == Append(p, b)
<1>3. v \in Seq(T) /\ Len(v) = Len(p) + 1 /\ (\A i \in 1 .. Len(p) : v[i] = p[i]) /\ v[Len(p) + 1] = b
  <2> HIDE DEF v
  <2>1. b \in T /\ p \in Seq(T)
    BY <1>1
  <2>2. Append(p, b) \in Seq(T) /\ Len(Append(p, b)) = Len(p) + 1
    BY <2>1, AppendProperties
  <2>3. \A i \in 1 .. Len(p) : Append(p, b)[i] = p[i]
    BY <2>1, AppendProperties
  <2>4. Append(p, b)[Len(p) + 1] = b
    BY <2>1, AppendProperties
  <2> QED
    BY <2>2, <2>3, <2>4 DEF v
<1>4. v[1] = a /\ v[2] = b /\ Len(v) = 2
  <2> HIDE DEF v
  <2>1. 1 \in 1 .. Len(p) /\ Len(p) + 1 = 2
    BY <1>1
  <2> QED
    BY <1>1, <1>3, <2>1
<1>5. \A i \in 1 .. Len(q) : i = 1 \/ i = 2
  BY <1>2
<1>6. \A i \in 1 .. Len(q) : q[i] = v[i]
  <2> HIDE DEF v
  <2> QED
    BY <1>2, <1>4, <1>5
<1>7. Append(p, b) = q
  BY <1>2, <1>3, <1>4, <1>6, SeqEqual
<1> QED
  BY <1>7 DEF p, q

(* A function on 1 .. n is a sequence.                                     *)
LEMMA MadeOf ==
  ASSUME NEW T, NEW n \in Nat, NEW f, f = [i \in 1 .. n |-> f[i]], \A i \in 1 .. n : f[i] \in T
  PROVE  f \in Seq(T) /\ Len(f) = n
<1>1. f \in [1 .. n -> T]
  BY Zenon
<1>2. f \in Seq(T)
  BY <1>1, SeqDef
<1>3. DOMAIN f = 1 .. n /\ DOMAIN f = 1 .. Len(f) /\ Len(f) \in Nat
  BY <1>1, <1>2, LenProperties
<1>4. Len(f) = n
  <2>1. \A i : i \in 1 .. n <=> i \in 1 .. Len(f)
    BY <1>3
  <2>2. CASE n = 0
    BY <1>3, <2>1, <2>2
  <2>3. CASE n # 0
    <3>1. n \in 1 .. Len(f)
      BY <2>1, <2>3
    <3>2. Len(f) \in 1 .. n
      BY <1>3, <2>1, <3>1
    <3> QED
      BY <1>3, <3>1, <3>2
  <2> QED
    BY <2>2, <2>3
<1> QED
  BY <1>2, <1>4

\* the first k sequences in one
FrontOf(ss, k) == IF k = 0 THEN << >> ELSE FlatOf(ss)[k]

(* One after the other.                                                    *)
LEMMA Fronts ==
  ASSUME NEW T, NEW ss \in Seq(Seq(T))
  PROVE  /\ FrontOf(ss, 0) = << >>
         /\ \A k \in 1 .. Len(ss) : FrontOf(ss, k) = FrontOf(ss, k - 1) \o ss[k]
         /\ \A k \in 0 .. Len(ss) : FrontOf(ss, k) \in Seq(T)
         /\ FlattenSeq(ss) = FrontOf(ss, Len(ss))
<1> DEFINE f == FlatOf(ss)
<1>1. Len(ss) \in Nat /\ \A k \in 1 .. Len(ss) : ss[k] \in Seq(T)
  OBVIOUS
<1>2. \A i \in 1 .. Len(ss) : f[i] = IF i = 1 THEN ss[i] ELSE f[i - 1] \o ss[i]
  <2>1. IsFlat(f, ss, Len(ss))
    BY <1>1, FlatExists
  <2> HIDE DEF f
  <2> QED
    BY <2>1 DEF IsFlat
<1>3. FrontOf(ss, 0) = << >> /\ \A k \in 1 .. Len(ss) : FrontOf(ss, k) = f[k]
  BY <1>1 DEF FrontOf
<1> HIDE DEF f
<1>4. ASSUME NEW k \in 1 .. Len(ss)
      PROVE  FrontOf(ss, k) = FrontOf(ss, k - 1) \o ss[k]
  <2>1. CASE k = 1
    <3>1. FrontOf(ss, k) = ss[k] /\ k - 1 = 0 /\ ss[k] \in Seq(T)
      BY <1>1, <1>2, <1>3, <2>1
    <3>2. << >> \o ss[k] = ss[k]
      BY <3>1, ConcatEmptySeq
    <3> QED
      BY <1>3, <3>1, <3>2
  <2>2. CASE k # 1
    <3>1. k - 1 \in 1 .. Len(ss)
      BY <1>1, <2>2
    <3> QED
      BY <1>2, <1>3, <2>2, <3>1
  <2> QED
    BY <2>1, <2>2
<1> DEFINE S == {k \in Nat : k <= Len(ss) => FrontOf(ss, k) \in Seq(T)}
<1>5. S = Nat
  <2>1. 0 \in S
    BY <1>3, EmptySeq
  <2>2. ASSUME NEW k \in S
        PROVE  k + 1 \in S
    <3>1. CASE k + 1 <= Len(ss)
      <4>1. k \in Nat /\ k + 1 \in 1 .. Len(ss) /\ (k + 1) - 1 = k /\ FrontOf(ss, k) \in Seq(T)
        BY <1>1, <3>1
      <4>2. FrontOf(ss, k + 1) = FrontOf(ss, k) \o ss[k + 1] /\ ss[k + 1] \in Seq(T)
        BY <1>1, <1>4, <4>1
      <4>3. FrontOf(ss, k + 1) \in Seq(T)
        BY <4>1, <4>2, ConcatProperties
      <4> QED
        BY <4>1, <4>3
    <3> QED
      BY <3>1
  <2> HIDE DEF S
  <2>3. S \in SUBSET Nat
    BY DEF S
  <2> QED
    BY <2>1, <2>2, <2>3, Induction
<1>6. \A k \in 0 .. Len(ss) : FrontOf(ss, k) \in Seq(T)
  <2> TAKE k \in 0 .. Len(ss)
  <2>1. k \in Nat /\ k <= Len(ss)
    BY <1>1
  <2>2. k \in S
    BY <1>5, <2>1
  <2> QED
    BY <2>1, <2>2
<1>7. FlattenSeq(ss) = FrontOf(ss, Len(ss))
  <2>1. CASE Len(ss) = 0
    <3>1. ss = << >> /\ FlattenSeq(ss) = ss
      BY <2>1, EmptySeq DEF FlattenSeq
    <3> QED
      BY <1>3, <2>1, <3>1
  <2>2. CASE Len(ss) # 0
    BY <2>2, FlattenIs DEF FrontOf
  <2> QED
    BY <2>1, <2>2
<1> QED
  BY <1>3, <1>4, <1>6, <1>7

(* Two sequences of sequences that begin alike,                            *)
LEMMA SameFronts ==
  ASSUME NEW T, NEW ss \in Seq(Seq(T)), NEW tt \in Seq(Seq(T)),
         NEW n \in Nat, n <= Len(ss), n <= Len(tt), \A k \in 1 .. n : ss[k] = tt[k]
  PROVE  \A k \in 0 .. n : FrontOf(ss, k) = FrontOf(tt, k)
<1> DEFINE S == {k \in Nat : k <= n => FrontOf(ss, k) = FrontOf(tt, k)}
<1>1. 0 \in S
  BY Fronts
<1>2. ASSUME NEW k \in S
      PROVE  k + 1 \in S
  <2>1. CASE k + 1 <= n
    <3>1. /\ k \in Nat /\ k + 1 \in 1 .. n /\ k + 1 \in 1 .. Len(ss) /\ k + 1 \in 1 .. Len(tt)
          /\ (k + 1) - 1 = k /\ FrontOf(ss, k) = FrontOf(tt, k)
      BY <2>1
    <3>2. FrontOf(ss, k + 1) = FrontOf(ss, k) \o ss[k + 1] /\ FrontOf(tt, k + 1) = FrontOf(tt, k) \o tt[k + 1]
      BY <3>1, Fronts
    <3>3. ss[k + 1] = tt[k + 1]
      BY <3>1
    <3>4. FrontOf(ss, k + 1) = FrontOf(tt, k + 1)
      BY <3>1, <3>2, <3>3, Zenon
    <3> QED
      BY <3>1, <3>4
  <2> QED
    BY <2>1
<1>3. S = Nat
  <2> HIDE DEF S
  <2>1. S \in SUBSET Nat
    BY DEF S
  <2> QED
    BY <1>1, <1>2, <2>1, Induction
<1> QED
  BY <1>3

(* and one more at the end.                                                *)
LEMMA FlattenAppend ==
  ASSUME NEW T, NEW ss \in Seq(Seq(T)), NEW s \in Seq(T)
  PROVE  /\ FlattenSeq(ss) \in Seq(T)
         /\ FlattenSeq(Append(ss, s)) = FlattenSeq(ss) \o s
<1> DEFINE tt == Append(ss, s)
<1>1. /\ Len(ss) \in Nat /\ tt \in Seq(Seq(T)) /\ Len(tt) = Len(ss) + 1
      /\ tt[Len(ss) + 1] = s /\ \A k \in 1 .. Len(ss) : ss[k] = tt[k]
  OBVIOUS
<1> HIDE DEF tt
<1>2. /\ Len(ss) + 1 \in 1 .. Len(tt) /\ (Len(ss) + 1) - 1 = Len(ss)
      /\ Len(ss) <= Len(ss) /\ Len(ss) <= Len(tt) /\ Len(ss) \in 0 .. Len(ss)
  BY <1>1
<1>3. FlattenSeq(tt) = FrontOf(tt, Len(ss)) \o s
  BY <1>1, <1>2, Fronts
<1>4. FrontOf(ss, Len(ss)) = FrontOf(tt, Len(ss))
  <2>1. \A k \in 0 .. Len(ss) : FrontOf(ss, k) = FrontOf(tt, k)
    BY <1>1, <1>2, SameFronts
  <2> QED
    BY <1>2, <2>1
<1>5. FlattenSeq(ss) = FrontOf(ss, Len(ss)) /\ FrontOf(ss, Len(ss)) \in Seq(T)
  BY <1>2, Fronts
<1> QED
  BY <1>3, <1>4, <1>5 DEF tt

(* No sequence, and one.                                                   *)
LEMMA FlattenFew ==
  ASSUME NEW T, NEW s \in Seq(T)
  PROVE  FlattenSeq(<< >>) = << >> /\ FlattenSeq(<<s>>) = s
<1>1. << >> \in Seq(Seq(T)) /\ <<s>> = Append(<< >>, s)
  OBVIOUS
<1>2. FlattenSeq(<< >>) = << >>
  BY DEF FlattenSeq
<1>3. FlattenSeq(<<s>>) = << >> \o s
  BY <1>1, <1>2, FlattenAppend
<1> QED
  BY <1>2, <1>3, ConcatEmptySeq

----------------------------------------------------------------------------
(* What convertPayloadToRBSP keeps of a unit.                              *)

Parts(e) == [i \in DOMAIN e |-> IF i \in Escapes(e) THEN << >> ELSE <<e[i]>>]
Kept(e) == FlattenSeq(Parts(e))

\* the next byte is an escape
Escape(e, b) == Len(e) > 1 /\ e[Len(e)] = 0 /\ e[Len(e) - 1] = 0 /\ b = 3

(* Whether a byte is an escape, the bytes before it say.                   *)
LEMMA EscapesAppend ==
  ASSUME NEW e \in Seq(Byte), NEW b \in Byte
  PROVE  /\ Escapes(Append(e, b)) = Escapes(e) \cup (IF Escape(e, b) THEN {Len(e) + 1} ELSE {})
         /\ Escapes(e) \subseteq 1 .. Len(e)
<1> DEFINE v == Append(e, b)
<1>1. /\ Len(e) \in Nat /\ Len(v) = Len(e) + 1 /\ v \in Seq(Byte)
      /\ DOMAIN v = 1 .. Len(e) + 1 /\ DOMAIN e = 1 .. Len(e)
      /\ v[Len(e) + 1] = b /\ \A i \in 1 .. Len(e) : v[i] = e[i]
  OBVIOUS
<1> HIDE DEF v
<1>2. ASSUME NEW i \in 1 .. Len(e)
      PROVE  AfterTwoZeros(v, i) <=> AfterTwoZeros(e, i)
  <2>1. CASE i > 2
    <3>1. i - 1 \in 1 .. Len(e) /\ i - 2 \in 1 .. Len(e)
      BY <1>1, <2>1
    <3> QED
      BY <1>1, <3>1 DEF AfterTwoZeros
  <2> QED
    BY <2>1 DEF AfterTwoZeros
<1>3. AfterTwoZeros(v, Len(e) + 1) /\ b = 3 <=> Escape(e, b)
  <2>1. CASE Len(e) > 1
    <3>1. /\ Len(e) \in 1 .. Len(e) /\ Len(e) - 1 \in 1 .. Len(e)
          /\ (Len(e) + 1) - 1 = Len(e) /\ (Len(e) + 1) - 2 = Len(e) - 1
      BY <1>1, <2>1
    <3> QED
      BY <1>1, <2>1, <3>1 DEF AfterTwoZeros, Escape
  <2> QED
    BY <1>1, <2>1 DEF AfterTwoZeros, Escape
<1>4. \A i : i \in Escapes(e) <=> i \in 1 .. Len(e) /\ AfterTwoZeros(e, i) /\ e[i] = 3
  BY <1>1 DEF Escapes
<1>5. \A i : i \in Escapes(v) <=> i \in 1 .. Len(e) + 1 /\ AfterTwoZeros(v, i) /\ v[i] = 3
  BY <1>1 DEF Escapes
<1>6. \A i : i \in 1 .. Len(e) + 1 <=> i \in 1 .. Len(e) \/ i = Len(e) + 1
  BY <1>1
<1>7. Len(e) + 1 \notin 1 .. Len(e)
  BY <1>1
<1>8. \A i : i \in Escapes(v) <=> i \in Escapes(e) \/ (i = Len(e) + 1 /\ Escape(e, b))
  BY <1>1, <1>2, <1>3, <1>4, <1>5, <1>6, <1>7
<1> QED
  BY <1>4, <1>8 DEF v

(* The escapes of a sequence are left out and nothing else.                *)
LEMMA KeptAppend ==
  ASSUME NEW e \in Seq(Byte), NEW b \in Byte
  PROVE  /\ Kept(e) \in Seq(Byte)
         /\ Kept(Append(e, b)) = IF Escape(e, b) THEN Kept(e) ELSE Append(Kept(e), b)
<1> DEFINE v == Append(e, b)
           s == IF Escape(e, b) THEN << >> ELSE <<b>>
<1>1. /\ Len(e) \in Nat /\ Len(v) = Len(e) + 1 /\ v \in Seq(Byte)
      /\ DOMAIN v = 1 .. Len(e) + 1 /\ DOMAIN e = 1 .. Len(e)
      /\ v[Len(e) + 1] = b /\ \A i \in 1 .. Len(e) : v[i] = e[i] /\ e[i] \in Byte
  OBVIOUS
<1>2. /\ Escapes(v) = Escapes(e) \cup (IF Escape(e, b) THEN {Len(e) + 1} ELSE {})
      /\ Escapes(e) \subseteq 1 .. Len(e)
  BY EscapesAppend
<1>3. s \in Seq(Byte)
  OBVIOUS
<1> HIDE DEF v
<1>4. \A i \in 1 .. Len(e) : Parts(e)[i] \in Seq(Byte) /\ Parts(v)[i] = Parts(e)[i]
  <2> TAKE i \in 1 .. Len(e)
  <2>1. i # Len(e) + 1 /\ (i \in Escapes(v) <=> i \in Escapes(e)) /\ i \in DOMAIN v /\ i \in DOMAIN e
    BY <1>1, <1>2
  <2>2. Parts(e)[i] = (IF i \in Escapes(e) THEN << >> ELSE <<e[i]>>) /\ Parts(v)[i] = Parts(e)[i]
    BY <1>1, <2>1 DEF Parts
  <2>3. << >> \in Seq(Byte) /\ <<e[i]>> \in Seq(Byte)
    BY <1>1
  <2> QED
    BY <2>2, <2>3
<1>5. DOMAIN Parts(e) = 1 .. Len(e) /\ DOMAIN Parts(v) = 1 .. Len(e) + 1
  BY <1>1 DEF Parts
<1>6. Parts(v)[Len(e) + 1] = s
  <2>1. Len(e) + 1 \in DOMAIN v /\ (Len(e) + 1 \in Escapes(v) <=> Escape(e, b))
    BY <1>1, <1>2
  <2> QED
    BY <1>1, <2>1 DEF Parts
<1>7. Parts(e) \in Seq(Seq(Byte)) /\ Len(Parts(e)) = Len(e)
  <2> DEFINE P == Parts(e)
             n == Len(e)
  <2>1. P = [i \in 1 .. n |-> P[i]] /\ n \in Nat /\ \A i \in 1 .. n : P[i] \in Seq(Byte)
    <3>1. P = [i \in DOMAIN P |-> P[i]]
      BY DEF Parts
    <3> QED
      BY <1>1, <1>4, <1>5, <3>1
  <2> HIDE DEF P, n
  <2>2. P \in Seq(Seq(Byte)) /\ Len(P) = n
    BY <2>1, MadeOf
  <2> QED
    BY <2>2 DEF P, n
<1>8. Parts(v) = Append(Parts(e), s)
  <2> DEFINE P == Parts(e)
             Q == Parts(v)
             n == Len(e)
  <2>1. Q = [i \in 1 .. n + 1 |-> Q[i]]
    <3>1. Q = [i \in DOMAIN Q |-> Q[i]]
      BY DEF Parts
    <3> QED
      BY <1>5, <3>1
  <2>2. P \in Seq(Seq(Byte)) /\ Len(P) = n /\ n \in Nat /\ Q[n + 1] = s /\ \A i \in 1 .. n : Q[i] = P[i]
    BY <1>1, <1>4, <1>6, <1>7
  <2> HIDE DEF P, Q, n, s
  <2>3. /\ Append(P, s) \in Seq(Seq(Byte)) /\ Len(Append(P, s)) = n + 1
        /\ \A i \in 1 .. n : Append(P, s)[i] = P[i]
        /\ Append(P, s)[n + 1] = s
    BY <2>2, <1>3, AppendProperties
  <2>4. \A i \in 1 .. n + 1 : i \in 1 .. n \/ i = n + 1
    BY <2>2
  <2>5. \A i \in 1 .. n + 1 : Q[i] = Append(P, s)[i] /\ Q[i] \in Seq(Byte)
    <3>1. \A i \in 1 .. n : P[i] \in Seq(Byte)
      BY <2>2
    <3> QED
      BY <2>2, <2>3, <2>4, <1>3, <3>1
  <2>6. Q \in Seq(Seq(Byte)) /\ Len(Q) = n + 1
    BY <2>1, <2>2, <2>5, MadeOf, SMTT(30)
  <2>7. Q = Append(P, s)
    BY <2>3, <2>5, <2>6, SeqEqual
  <2> QED
    BY <2>7 DEF P, Q
<1> HIDE DEF s
<1>9. Kept(e) \in Seq(Byte) /\ Kept(v) = Kept(e) \o s
  BY <1>3, <1>7, <1>8, FlattenAppend DEF Kept
<1>10. CASE Escape(e, b)
  <2>1. s = << >>
    BY <1>10 DEF s
  <2> QED
    BY <1>9, <1>10, <2>1, ConcatEmptySeq DEF v
<1>11. CASE ~Escape(e, b)
  <2>1. s = <<b>>
    BY <1>11 DEF s
  <2> QED
    BY <1>9, <1>11, <2>1, AppendIsConcat DEF v
<1> QED
  BY <1>10, <1>11

(* Nothing, and two bytes.                                                 *)
LEMMA KeptFew ==
  ASSUME NEW a \in Byte, NEW b \in Byte
  PROVE  Kept(<<a, b>>) = <<a, b>>
<1>1. Kept(<< >>) = << >>
  <2>1. DOMAIN << >> = {}
    OBVIOUS
  <2>2. Parts(<< >>) = << >>
    BY <2>1 DEF Parts
  <2> QED
    BY <2>2 DEF Kept, FlattenSeq
<1>2. << >> \in Seq(Byte) /\ <<a>> \in Seq(Byte) /\ Append(<< >>, a) = <<a>> /\ Append(<<a>>, b) = <<a, b>>
      /\ Len(<< >>) = 0 /\ Len(<<a>>) = 1
  <2>1. << >> \in Seq(Byte) /\ Len(<< >>) = 0 /\ Append(<< >>, a) = <<a>>
    OBVIOUS
  <2>2. <<a>> \in Seq(Byte) /\ Len(<<a>>) = 1
    OBVIOUS
  <2>3. Append(<<a>>, b) = <<a, b>>
    BY PairAppend
  <2> QED
    BY <2>1, <2>2, <2>3
<1>3. ~Escape(<< >>, a) /\ ~Escape(<<a>>, b)
  BY <1>2 DEF Escape
<1>4. Kept(<<a>>) = <<a>>
  BY <1>1, <1>2, <1>3, KeptAppend
<1> QED
  BY <1>2, <1>3, <1>4, KeptAppend

----------------------------------------------------------------------------
(* Bytes that writeNaluContent puts one after the other.                   *)

\* convertPayloadToRBSP's CHECKs but that of the last byte
Clean(e) ==
  \A i \in 1 .. Len(e) : /\ AfterTwoZeros(e, i) => e[i] > 2
                         /\ i \in Escapes(e) /\ i < Len(e) => e[i + 1] <= 3

\* e has been put and gives back r; z of zeroCount
Good(e, z, r) ==
  /\ e \in Seq(Byte) /\ Len(e) >= 2
  /\ Kept(e) = r
  /\ z \in 0 .. 2
  /\ z > 0 <=> e[Len(e)] = 0
  /\ z = 2 <=> e[Len(e)] = 0 /\ e[Len(e) - 1] = 0
  /\ Clean(e)
  /\ Len(e) \notin Escapes(e)
  /\ Cardinality(Escapes(e)) + Len(r) = Len(e)

(* One byte more.                                                          *)
LEMMA CleanAppend ==
  ASSUME NEW e \in Seq(Byte), Len(e) >= 2, NEW b \in Byte, Clean(e),
         e[Len(e)] = 0 /\ e[Len(e) - 1] = 0 => b > 2,
         Len(e) \in Escapes(e) => b <= 3
  PROVE  Clean(Append(e, b))
<1> DEFINE v == Append(e, b)
           n == Len(e)
<1>1. /\ n \in Nat /\ n >= 2 /\ v \in Seq(Byte) /\ Len(v) = n + 1
      /\ v[n + 1] = b /\ \A i \in 1 .. n : v[i] = e[i]
  OBVIOUS
<1>2. Escapes(v) = Escapes(e) \cup (IF Escape(e, b) THEN {n + 1} ELSE {}) /\ Escapes(e) \subseteq 1 .. n
  BY EscapesAppend
<1>3. e[n] = 0 /\ e[n - 1] = 0 => b > 2
  OBVIOUS
<1>4. n \in Escapes(e) => b <= 3
  OBVIOUS
<1>5. \A i \in 1 .. n : /\ AfterTwoZeros(e, i) => e[i] > 2
                        /\ i \in Escapes(e) /\ i < n => e[i + 1] <= 3
  BY DEF Clean
<1> HIDE DEF v, n
<1>6. ASSUME NEW i \in 1 .. n + 1
      PROVE  AfterTwoZeros(v, i) => v[i] > 2
  <2>1. CASE i = n + 1
    <3>1. (n + 1) - 1 = n /\ (n + 1) - 2 = n - 1 /\ n \in 1 .. n /\ n - 1 \in 1 .. n
      BY <1>1
    <3>2. v[n] = e[n] /\ v[n - 1] = e[n - 1]
      BY <1>1, <3>1
    <3> QED
      BY <1>1, <1>3, <2>1, <3>1, <3>2 DEF AfterTwoZeros
  <2>2. CASE i # n + 1
    <3>1. i \in 1 .. n /\ v[i] = e[i]
      BY <1>1, <2>2
    <3>2. i > 2 => i - 1 \in 1 .. n /\ i - 2 \in 1 .. n
      BY <1>1, <3>1
    <3>3. AfterTwoZeros(v, i) => AfterTwoZeros(e, i)
      BY <1>1, <3>2 DEF AfterTwoZeros
    <3> QED
      BY <1>5, <3>1, <3>3
  <2> QED
    BY <2>1, <2>2
<1>7. ASSUME NEW i \in 1 .. n + 1, i \in Escapes(v), i < n + 1
      PROVE  v[i + 1] <= 3
  <2>1. i \in 1 .. n /\ i \in Escapes(e)
    BY <1>1, <1>2, <1>7
  <2>2. CASE i = n
    BY <1>1, <1>4, <2>1, <2>2
  <2>3. CASE i # n
    <3>1. i < n /\ i + 1 \in 1 .. n
      BY <1>1, <2>1, <2>3
    <3>2. v[i + 1] = e[i + 1]
      BY <1>1, <3>1
    <3> QED
      BY <1>5, <2>1, <3>1, <3>2
  <2> QED
    BY <2>2, <2>3
<1>8. Clean(v)
  BY <1>1, <1>6, <1>7 DEF Clean
<1> QED
  BY <1>8 DEF v

\* what is put for a byte, and zeroCount then
Put(z, b) == IF z = 2 /\ b <= 3 THEN <<3, b>> ELSE <<b>>
NextZeros(z, b) == IF b # 0 THEN 0 ELSE IF z = 1 THEN 2 ELSE 1

(* A byte that needs no escape,                                            *)
LEMMA PutPlain ==
  ASSUME NEW e, NEW z, NEW r \in Seq(Byte), Good(e, z, r), NEW b \in Byte, ~(z = 2 /\ b <= 3)
  PROVE  Good(Append(e, b), NextZeros(z, b), Append(r, b))
<1> DEFINE v == Append(e, b)
           n == Len(e)
<1>1. /\ e \in Seq(Byte) /\ n >= 2 /\ Kept(e) = r /\ z \in 0 .. 2
      /\ (z > 0 <=> e[n] = 0)
      /\ (z = 2 <=> e[n] = 0 /\ e[n - 1] = 0)
      /\ Clean(e) /\ n \notin Escapes(e)
      /\ Cardinality(Escapes(e)) + Len(r) = n
  BY DEF Good
<1>2. /\ n \in Nat /\ v \in Seq(Byte) /\ Len(v) = n + 1
      /\ v[n + 1] = b /\ \A i \in 1 .. n : v[i] = e[i]
  BY <1>1
<1>3. ~Escape(e, b)
  BY <1>1 DEF Escape
<1>4. Escapes(v) = Escapes(e) /\ Escapes(e) \subseteq 1 .. n
  BY <1>1, <1>3, EscapesAppend
<1>5. Kept(v) = Append(r, b)
  BY <1>1, <1>3, KeptAppend
<1>6. b > 2 \/ ~(e[n] = 0 /\ e[n - 1] = 0)
  BY <1>1 DEF Byte
<1>7. Clean(v)
  BY <1>1, <1>6, CleanAppend
<1>8. n \in 1 .. n /\ v[n] = e[n] /\ (n + 1) - 1 = n
  BY <1>1, <1>2
<1>9. Len(Append(r, b)) = Len(r) + 1 /\ Len(r) \in Nat
  OBVIOUS
<1>10. Cardinality(Escapes(v)) + Len(Append(r, b)) = n + 1
  <2> DEFINE c == Cardinality(Escapes(e))
  <2>1. c \in Nat
    <3>1. IsFiniteSet(1 .. n)
      BY <1>2, FS_Interval
    <3>2. IsFiniteSet(Escapes(e))
      BY <1>4, <3>1, FS_Subset
    <3> QED
      BY <3>2, FS_CardinalityType
  <2>2. c + Len(r) = n
    BY <1>1
  <2> HIDE DEF c
  <2>3. c + (Len(r) + 1) = n + 1
    BY <1>2, <1>9, <2>1, <2>2
  <2> QED
    BY <1>4, <1>9, <2>3 DEF c
<1> DEFINE y == NextZeros(z, b)
<1>11. /\ y \in 0 .. 2 /\ (y > 0 <=> b = 0) /\ (y = 2 <=> b = 0 /\ e[n] = 0)
  BY <1>1 DEF NextZeros, Byte
<1> HIDE DEF v, n, y
<1>12. n + 1 \notin Escapes(v)
  BY <1>2, <1>4
<1>13. (y > 0 <=> v[Len(v)] = 0) /\ (y = 2 <=> v[Len(v)] = 0 /\ v[Len(v) - 1] = 0)
  BY <1>2, <1>8, <1>11
<1>14. Good(v, y, Append(r, b))
  BY <1>1, <1>2, <1>5, <1>7, <1>10, <1>11, <1>12, <1>13 DEF Good
<1> QED
  BY <1>14 DEF v, y

(* and one that does.                                                      *)
LEMMA PutEscaped ==
  ASSUME NEW e, NEW r \in Seq(Byte), Good(e, 2, r), NEW b \in Byte, b <= 3
  PROVE  Good(Append(Append(e, 3), b), NextZeros(2, b), Append(r, b))
<1> DEFINE x == Append(e, 3)
           v == Append(x, b)
           n == Len(e)
<1>1. /\ e \in Seq(Byte) /\ n >= 2 /\ Kept(e) = r
      /\ e[n] = 0 /\ e[n - 1] = 0
      /\ Clean(e) /\ n \notin Escapes(e)
      /\ Cardinality(Escapes(e)) + Len(r) = n
  BY DEF Good
<1>2. 3 \in Byte
  BY DEF Byte
<1>3. /\ n \in Nat /\ x \in Seq(Byte) /\ Len(x) = n + 1
      /\ x[n + 1] = 3 /\ \A i \in 1 .. n : x[i] = e[i]
  BY <1>1, <1>2
<1>4. Escape(e, 3)
  BY <1>1, <1>3 DEF Escape
<1>5. Escapes(x) = Escapes(e) \cup {n + 1} /\ Escapes(e) \subseteq 1 .. n
  BY <1>1, <1>2, <1>4, EscapesAppend
<1>6. Kept(x) = r
  BY <1>1, <1>2, <1>4, KeptAppend
<1>7. Clean(x)
  BY <1>1, <1>2, CleanAppend
<1> HIDE DEF x, n
<1>8. /\ v \in Seq(Byte) /\ Len(v) = n + 2 /\ v[n + 2] = b /\ v[n + 1] = 3
  BY <1>3
<1>9. ~Escape(x, b)
  BY <1>3 DEF Escape
<1>10. Escapes(v) = Escapes(x) /\ Kept(v) = Append(r, b)
  BY <1>3, <1>6, <1>9, EscapesAppend, KeptAppend
<1>11. Clean(v)
  <2>1. Len(x) >= 2 /\ x[Len(x)] = 3
    BY <1>1, <1>3
  <2>2. /\ x[Len(x)] = 0 /\ x[Len(x) - 1] = 0 => b > 2
        /\ Len(x) \in Escapes(x) => b <= 3
    BY <2>1
  <2>3. x \in Seq(Byte)
    BY <1>3
  <2> QED
    BY <1>7, <2>1, <2>2, <2>3, CleanAppend, Zenon
<1>12. Len(Append(r, b)) = Len(r) + 1 /\ Len(r) \in Nat
  OBVIOUS
<1>13. Cardinality(Escapes(v)) + Len(Append(r, b)) = n + 2
  <2> DEFINE c == Cardinality(Escapes(e))
  <2>0. IsFiniteSet(Escapes(e))
    <3>1. IsFiniteSet(1 .. n)
      BY <1>3, FS_Interval
    <3> QED
      BY <1>5, <3>1, FS_Subset
  <2>1. c \in Nat
    BY <2>0, FS_CardinalityType
  <2>2. c + Len(r) = n
    BY <1>1
  <2>3. n + 1 \notin Escapes(e)
    BY <1>3, <1>5
  <2>4. Cardinality(Escapes(x)) = c + 1
    BY <1>5, <2>0, <2>3, FS_AddElement
  <2> HIDE DEF c
  <2>5. (c + 1) + (Len(r) + 1) = n + 2
    BY <1>3, <1>12, <2>1, <2>2
  <2> QED
    BY <1>10, <1>12, <2>4, <2>5
<1> DEFINE y == NextZeros(2, b)
<1>14. y \in 0 .. 1 /\ (y > 0 <=> b = 0)
  BY DEF NextZeros, Byte
<1> HIDE DEF v, y
<1>15. n + 2 \notin Escapes(v)
  BY <1>3, <1>5, <1>10
<1>16. (n + 2) - 1 = n + 1
  BY <1>3
<1>17. (y > 0 <=> v[Len(v)] = 0) /\ (y = 2 <=> v[Len(v)] = 0 /\ v[Len(v) - 1] = 0)
  BY <1>8, <1>14, <1>16
<1>18. Good(v, y, Append(r, b))
  BY <1>1, <1>3, <1>8, <1>10, <1>11, <1>13, <1>14, <1>15, <1>17 DEF Good
<1> QED
  BY <1>18 DEF v, x, y

(* Either.                                                                 *)
LEMMA PutOk ==
  ASSUME NEW e, NEW z, NEW r \in Seq(Byte), Good(e, z, r), NEW b \in Byte
  PROVE  /\ Good(e \o Put(z, b), NextZeros(z, b), Append(r, b))
         /\ Put(z, b) \in Seq(Byte)
<1>1. e \in Seq(Byte) /\ 3 \in Byte
  BY DEF Good, Byte
<1>2. CASE z = 2 /\ b <= 3
  <2>1. Put(z, b) = <<3, b>>
    BY <1>2 DEF Put
  <2>2. Append(Append(e, 3), b) = e \o <<3, b>>
    <3>1. Append(e, 3) = e \o <<3>> /\ Append(e, 3) \in Seq(Byte)
      BY <1>1, AppendIsConcat
    <3>2. Append(Append(e, 3), b) = (e \o <<3>>) \o <<b>>
      BY <1>1, <3>1, AppendIsConcat
    <3>3. <<3>> \in Seq(Byte) /\ <<b>> \in Seq(Byte)
      BY <1>1
    <3>4. (e \o <<3>>) \o <<b>> = e \o (<<3>> \o <<b>>)
      BY <1>1, <3>3, ConcatAssociative
    <3>5. <<3>> \o <<b>> = <<3, b>>
      <4>1. Append(<<3>>, b) = <<3>> \o <<b>>
        BY <1>1, <3>3, AppendIsConcat
      <4>2. Append(<<3>>, b) = <<3, b>>
        BY <1>1, PairAppend
      <4> QED
        BY <4>1, <4>2
    <3> QED
      BY <3>2, <3>4, <3>5
  <2>3. <<3, b>> \in Seq(Byte)
    BY <1>1
  <2>4. Good(e, 2, r) /\ NextZeros(z, b) = NextZeros(2, b)
    BY <1>2
  <2>5. Good(Append(Append(e, 3), b), NextZeros(2, b), Append(r, b))
    BY <1>2, <2>4, PutEscaped
  <2> QED
    BY <2>1, <2>2, <2>3, <2>4, <2>5
<1>3. CASE ~(z = 2 /\ b <= 3)
  <2>1. Put(z, b) = <<b>>
    BY <1>3 DEF Put
  <2>2. Append(e, b) = e \o <<b>>
    BY <1>1, AppendIsConcat
  <2>3. <<b>> \in Seq(Byte)
    BY <1>1
  <2>4. Good(Append(e, b), NextZeros(z, b), Append(r, b))
    BY <1>3, PutPlain
  <2> QED
    BY <2>1, <2>2, <2>3, <2>4
<1> QED
  BY <1>2, <1>3

\* writeNaluContent's loop
IsZeros(f, r, n) ==
  f = [i \in 0 .. n |-> IF i = 0 \/ r[i] # 0 THEN 0 ELSE IF f[i - 1] = 1 THEN 2 ELSE 1]
ZerosOf(r) == CHOOSE f : IsZeros(f, r, Len(r))
Puts(r) == [i \in DOMAIN r |-> Put(ZerosOf(r)[i - 1], r[i])]

\* what is put after h for the first i bytes of r
After(h, r, i) == h \o FrontOf(Puts(r), i)

(* What writeNaluContent writes, in the terms used here.                   *)
LEMMA EscapedIs ==
  ASSUME NEW r
  PROVE  Escaped(r) = FlattenSeq(Puts(r)) \o (IF ZerosOf(r)[Len(r)] > 0 THEN <<3>> ELSE << >>)
  BY DEF Escaped, Puts, Put, ZerosOf, IsZeros

(* zeroCount after each byte.                                              *)
LEMMA ZerosExist ==
  ASSUME NEW r, Len(r) \in Nat
  PROVE  IsZeros(ZerosOf(r), r, Len(r))
<1> DEFINE S == {n \in Nat : \E f : IsZeros(f, r, n)}
<1>1. 0 \in S
  <2> DEFINE f == [i \in 0 .. 0 |-> 0]
  <2>1. f = [i \in 0 .. 0 |-> IF i = 0 \/ r[i] # 0 THEN 0 ELSE IF f[i - 1] = 1 THEN 2 ELSE 1]
    <3>1. \A i \in 0 .. 0 : i = 0
      OBVIOUS
    <3>2. \A i \in 0 .. 0 : (IF i = 0 \/ r[i] # 0 THEN 0 ELSE IF f[i - 1] = 1 THEN 2 ELSE 1) = 0
      BY <3>1
    <3> QED
      BY <3>2, Zenon
  <2>2. IsZeros(f, r, 0)
    BY <2>1, Zenon DEF IsZeros
  <2> QED
    BY <2>2
<1>2. ASSUME NEW n \in S
      PROVE  n + 1 \in S
  <2>1. PICK f : IsZeros(f, r, n)
    BY <1>2
  <2> DEFINE next == IF r[n + 1] # 0 THEN 0 ELSE IF f[n] = 1 THEN 2 ELSE 1
             g == [i \in 0 .. n + 1 |-> IF i <= n THEN f[i] ELSE next]
  <2>2. n \in Nat
    BY <1>2
  <2>3. \A i \in 0 .. n : f[i] = IF i = 0 \/ r[i] # 0 THEN 0 ELSE IF f[i - 1] = 1 THEN 2 ELSE 1
    BY <2>1 DEF IsZeros
  <2>4. ASSUME NEW i \in 0 .. n + 1
        PROVE  g[i] = IF i = 0 \/ r[i] # 0 THEN 0 ELSE IF g[i - 1] = 1 THEN 2 ELSE 1
    <3>1. CASE i <= n
      <4>1. i \in 0 .. n /\ (i # 0 => i - 1 \in 0 .. n + 1 /\ i - 1 <= n)
        BY <2>2, <3>1
      <4>2. g[i] = f[i] /\ (i # 0 => g[i - 1] = f[i - 1])
        BY <3>1, <4>1
      <4> HIDE DEF g
      <4> QED
        BY <2>3, <4>1, <4>2
    <3>2. CASE ~(i <= n)
      <4>1. i = n + 1 /\ i # 0 /\ i - 1 = n /\ n \in 0 .. n + 1 /\ n <= n
        BY <2>2, <3>2
      <4>2. g[i] = next /\ g[i - 1] = f[n]
        BY <3>2, <4>1
      <4> HIDE DEF g
      <4> QED
        BY <4>1, <4>2
    <3> QED
      BY <3>1, <3>2
  <2>5. g = [i \in 0 .. n + 1 |-> g[i]]
    OBVIOUS
  <2> HIDE DEF g
  <2>6. g = [i \in 0 .. n + 1 |-> IF i = 0 \/ r[i] # 0 THEN 0 ELSE IF g[i - 1] = 1 THEN 2 ELSE 1]
    BY <2>4, <2>5
  <2>7. IsZeros(g, r, n + 1)
    BY <2>6 DEF IsZeros
  <2> QED
    BY <2>2, <2>7
<1>3. S = Nat
  <2> HIDE DEF S
  <2>1. S \in SUBSET Nat
    BY DEF S
  <2> QED
    BY <1>1, <1>2, <2>1, Induction
<1>4. \E f : IsZeros(f, r, Len(r))
  BY <1>3
<1> QED
  BY <1>4, Zenon DEF ZerosOf

(* What is put gives back what was to be put, at every byte.               *)
LEMMA Escaping ==
  ASSUME NEW r \in Seq(Byte), NEW h, NEW k \in Seq(Byte), Good(h, 0, k)
  PROVE  /\ Puts(r) \in Seq(Seq(Byte)) /\ Len(Puts(r)) = Len(r)
         /\ \A i \in 0 .. Len(r) : Good(After(h, r, i), ZerosOf(r)[i], k \o SubSeq(r, 1, i))
<1> DEFINE z == ZerosOf(r)
           p == Puts(r)
           n == Len(r)
<1>1. n \in Nat /\ DOMAIN r = 1 .. n /\ \A i \in 1 .. n : r[i] \in Byte
  OBVIOUS
<1>2. z[0] = 0 /\ \A i \in 1 .. n : z[i] = NextZeros(z[i - 1], r[i])
  <2>1. IsZeros(z, r, n)
    BY <1>1, ZerosExist
  <2> HIDE DEF z, n
  <2>2. \A i \in 0 .. n : z[i] = IF i = 0 \/ r[i] # 0 THEN 0 ELSE IF z[i - 1] = 1 THEN 2 ELSE 1
    BY <2>1 DEF IsZeros
  <2>3. \A i \in 1 .. n : i \in 0 .. n /\ i # 0
    BY <1>1
  <2>4. 0 \in 0 .. n
    BY <1>1
  <2> QED
    BY <2>2, <2>3, <2>4 DEF NextZeros
<1>3. p \in Seq(Seq(Byte)) /\ Len(p) = n /\ \A i \in 1 .. n : p[i] = Put(z[i - 1], r[i])
  <2>1. \A i \in 1 .. n : p[i] = Put(z[i - 1], r[i])
    BY <1>1 DEF Puts
  <2>2. \A i \in 1 .. n : p[i] \in Seq(Byte)
    <3> TAKE i \in 1 .. n
    <3>1. 3 \in Byte /\ r[i] \in Byte
      BY <1>1, SMTT(30) DEF Byte
    <3>2. <<r[i]>> \in Seq(Byte) /\ <<3, r[i]>> \in Seq(Byte)
      BY <3>1
    <3> QED
      BY <2>1, <3>2 DEF Put
  <2>3. p = [i \in 1 .. n |-> p[i]]
    BY <1>1 DEF Puts
  <2> HIDE DEF p, n, z
  <2> QED
    BY <1>1, <2>1, <2>2, <2>3, MadeOf
<1>4. h \in Seq(Byte)
  BY DEF Good
<1> HIDE DEF z, p, n
<1> DEFINE e(i) == h \o FrontOf(p, i)
           P(i) == Good(e(i), z[i], k \o SubSeq(r, 1, i))
           S == {i \in Nat : i <= n => P(i)}
<1>5. 0 \in S
  <2>1. e(0) = h
    BY <1>3, <1>4, Fronts, ConcatEmptySeq
  <2>2. k \o SubSeq(r, 1, 0) = k
    <3>1. SubSeq(r, 1, 0) = << >>
      BY SubSeqEmpty
    <3> QED
      BY <3>1, ConcatEmptySeq
  <2>3. P(0)
    BY <1>2, <2>1, <2>2
  <2> QED
    BY <2>3
<1>6. ASSUME NEW i \in S
      PROVE  i + 1 \in S
  <2> HIDE DEF P
  <2>0. SUFFICES ASSUME i + 1 <= n
                 PROVE  P(i + 1)
    BY <1>6
  <2>1. i \in Nat /\ i + 1 \in 1 .. n /\ (i + 1) - 1 = i /\ i \in 0 .. n /\ i + 1 \in 0 .. n /\ P(i)
    BY <1>1, <1>6, <2>0
  <2> DEFINE b == r[i + 1]
             q == k \o SubSeq(r, 1, i)
  <2>2. b \in Byte /\ q \in Seq(Byte) /\ k \o SubSeq(r, 1, i + 1) = Append(q, b)
    <3>1. b \in Byte
      BY <1>1, <2>1
    <3>2. SubSeq(r, 1, i) \in Seq(Byte)
      <4>1. \A j \in 1 .. i : r[j] \in Byte
        BY <1>1, <2>1
      <4> QED
        BY <2>1, <4>1, SubSeqProperties
    <3>3. SubSeq(r, 1, i + 1) = SubSeq(r, 1, i) \o <<b>>
      <4>1. 1 \in 1 .. Len(r) /\ i + 1 \in 1 .. Len(r)
        BY <1>1, <2>1 DEF n
      <4> QED
        BY <2>1, <4>1, SubSeqRecursiveSecond
    <3>4. q \in Seq(Byte) /\ <<b>> \in Seq(Byte)
      BY <3>1, <3>2, ConcatProperties
    <3>5. k \o (SubSeq(r, 1, i) \o <<b>>) = q \o <<b>>
      BY <3>2, <3>4, ConcatAssociative, SMTT(30)
    <3>6. Append(q, b) = q \o <<b>>
      BY <3>1, <3>4, AppendIsConcat
    <3> QED
      BY <3>1, <3>3, <3>4, <3>5, <3>6
  <2>3. e(i + 1) = e(i) \o Put(z[i], b)
    <3>1. FrontOf(p, i + 1) = FrontOf(p, i) \o p[i + 1] /\ FrontOf(p, i) \in Seq(Byte)
      BY <1>3, <2>1, Fronts
    <3>2. p[i + 1] = Put(z[i], b) /\ p[i + 1] \in Seq(Byte)
      BY <1>3, <2>1
    <3>3. h \o (FrontOf(p, i) \o p[i + 1]) = (h \o FrontOf(p, i)) \o p[i + 1]
      BY <1>4, <3>1, <3>2, ByteAssociative, ZenonT(40)
    <3> QED
      BY <3>1, <3>2, <3>3
  <2>4. Good(e(i), z[i], q)
    BY <2>1 DEF P
  <2> HIDE DEF b, q, e
  <2>5. Good(e(i) \o Put(z[i], b), NextZeros(z[i], b), Append(q, b))
    BY <2>2, <2>4, PutOk
  <2>6. z[i + 1] = NextZeros(z[i], b)
    BY <1>2, <2>1 DEF b
  <2> QED
    BY <2>2, <2>3, <2>5, <2>6 DEF P
<1>7. S = Nat
  <2> HIDE DEF S
  <2>1. S \in SUBSET Nat
    BY DEF S
  <2> QED
    BY <1>5, <1>6, <2>1, Induction
<1>8. \A i \in 0 .. n : P(i)
  <2> HIDE DEF P
  <2> QED
    BY <1>1, <1>7
<1> QED
  BY <1>3, <1>8 DEF z, p, n, After

----------------------------------------------------------------------------
(* The units of a file.                                                    *)

Contents == {s \in Seq(Byte) : EndsNonZero(s)}

\* a unit as WriteSlice and WriteOther put it together
WellFormed(u) ==
  /\ u.type \in WrittenTypes /\ u.first \in BOOLEAN /\ u.tid \in {0, 1}
  /\ u.head \in Contents /\ u.subs \in Seq(Contents) /\ u.zeroWords \in {0, 1}
  /\ IsSlice(u) => u.subs # << >>

\* what is between two start codes, and what it comes from
Coded(d, q) ==
  /\ d \in Seq(Byte) /\ Len(d) > 2
  /\ \A i \in 1 .. Len(d) - 2 : ~(d[i] = 0 /\ d[i + 1] = 0 /\ d[i + 2] <= 2)
  /\ d[Len(d)] # 0 /\ d[2] # 0
  /\ Convertible(d) /\ Converted(d) = q

(* Trailing zeros are taken off.                                           *)
LEMMA ConvertedIs ==
  ASSUME NEW e, NEW q \in Seq(Byte), Kept(e) = q, NEW n \in 1 .. Len(q), q[n] # 0,
         \A i \in n + 1 .. Len(q) : q[i] = 0
  PROVE  Converted(e) = SubSeq(q, 1, n)
<1> DEFINE W(m) == (m > 0 => q[m] # 0) /\ \A i \in m + 1 .. Len(q) : q[i] = 0
           size == CHOOSE m \in 0 .. Len(q) : W(m)
<1>1. Converted(e) = SubSeq(q, 1, size)
  BY DEF Converted, Kept, Parts
<1>2. Len(q) \in Nat /\ n \in 0 .. Len(q) /\ W(n)
  OBVIOUS
<1>3. \A m \in 0 .. Len(q) : W(m) => m = n
  <2> TAKE m \in 0 .. Len(q)
  <2> HAVE W(m)
  <2>1. CASE m < n
    <3>1. n \in m + 1 .. Len(q)
      BY <1>2, <2>1
    <3> QED
      BY <3>1
  <2>2. CASE m > n
    <3>1. m \in n + 1 .. Len(q) /\ m > 0
      BY <1>2, <2>2
    <3> QED
      BY <3>1
  <2> QED
    BY <1>2, <2>1, <2>2
<1> HIDE DEF W
<1>4. size = n
  BY <1>2, <1>3
<1> QED
  BY <1>1, <1>4

(* No start code in it, seen from each of its bytes.                       *)
LEMMA CleanHasNoCode ==
  ASSUME NEW d \in Seq(Byte), Clean(d), NEW i \in 1 .. Len(d) - 2
  PROVE  ~(d[i] = 0 /\ d[i + 1] = 0 /\ d[i + 2] <= 2)
<1>1. /\ Len(d) \in Nat /\ i + 2 \in 1 .. Len(d) /\ i + 2 > 2 /\ (i + 2) - 1 = i + 1 /\ (i + 2) - 2 = i
      /\ d[i + 2] \in Byte
  <2>1. Len(d) \in Nat /\ i + 2 \in 1 .. Len(d) /\ i + 2 > 2 /\ (i + 2) - 1 = i + 1 /\ (i + 2) - 2 = i
    OBVIOUS
  <2> QED
    BY <2>1
<1>2. AfterTwoZeros(d, i + 2) => d[i + 2] > 2
  BY <1>1 DEF Clean
<1>3. d[i] = 0 /\ d[i + 1] = 0 => AfterTwoZeros(d, i + 2)
  BY <1>1, Zenon DEF AfterTwoZeros
<1>4. d[i + 2] > 2 => ~(d[i + 2] <= 2)
  <2> DEFINE b == d[i + 2]
  <2>1. b \in Byte
    BY <1>1
  <2> HIDE DEF b
  <2>2. b > 2 => ~(b <= 2)
    BY <2>1 DEF Byte
  <2> QED
    BY <2>2 DEF b
<1> QED
  BY <1>2, <1>3, <1>4

(* None of the CHECKs of convertPayloadToRBSP fires.                       *)
LEMMA CleanIsConvertible ==
  ASSUME NEW d \in Seq(Byte), Clean(d), Len(d) > 0, d[Len(d)] # 0
  PROVE  Convertible(d)
<1>1. DOMAIN d = 1 .. Len(d) /\ Escapes(d) \subseteq 1 .. Len(d)
  BY DEF Escapes
<1>2. Last(d) # 0
  BY DEF Last
<1>3. \A i \in DOMAIN d : AfterTwoZeros(d, i) => d[i] > 2
  BY <1>1 DEF Clean
<1>4. \A i \in Escapes(d) : i < Len(d) => d[i + 1] <= 3
  BY <1>1 DEF Clean
<1> QED
  BY <1>2, <1>3, <1>4, Zenon DEF Convertible

(* As it is, and with a cabac_zero_word behind.                            *)
LEMMA CodedPlain ==
  ASSUME NEW e, NEW q \in Seq(Byte), Good(e, 0, q), Len(q) > 0, q[Len(q)] # 0,
         Len(e) > 2, e[2] # 0
  PROVE  Coded(e, q)
<1>1. e \in Seq(Byte) /\ Kept(e) = q /\ Clean(e) /\ e[Len(e)] # 0
  BY DEF Good
<1>2. Converted(e) = q
  <2>1. Len(q) \in 1 .. Len(q) /\ \A i \in Len(q) + 1 .. Len(q) : q[i] = 0
    OBVIOUS
  <2>2. Converted(e) = SubSeq(q, 1, Len(q))
    BY <1>1, <2>1, ConvertedIs
  <2> QED
    BY <2>2, SubSeqFull
<1>3. Convertible(e)
  BY <1>1, CleanIsConvertible
<1>4. \A i \in 1 .. Len(e) - 2 : ~(e[i] = 0 /\ e[i + 1] = 0 /\ e[i + 2] <= 2)
  BY <1>1, CleanHasNoCode
<1> QED
  BY <1>1, <1>2, <1>3, <1>4 DEF Coded

(* With it the unit is still converted to what it was.                     *)
LEMMA CodedPadded ==
  ASSUME NEW e, NEW q \in Seq(Byte), Good(e, 0, q), Len(q) > 0, q[Len(q)] # 0,
         Len(e) > 2, e[2] # 0
  PROVE  Coded(e \o <<0, 0, 3>>, q)
<1>0. 0 \in Byte /\ 3 \in Byte /\ e \in Seq(Byte) /\ Len(e) \in Nat
  BY DEF Byte, Good
<1> DEFINE a == Append(e, 0)
           b == Append(a, 0)
           d == Append(b, 3)
           x == Append(q, 0)
           y == Append(x, 0)
<1>1. /\ x \in Seq(Byte) /\ y \in Seq(Byte) /\ Len(y) = Len(q) + 2 /\ Len(q) \in Nat
      /\ y[Len(q) + 1] = 0 /\ y[Len(q) + 2] = 0 /\ \A i \in 1 .. Len(q) : y[i] = q[i]
  BY <1>0
<1>2. NextZeros(0, 0) = 1 /\ NextZeros(1, 0) = 2
  BY DEF NextZeros
<1>3. Good(a, 1, x)
  BY <1>0, <1>2, PutPlain
<1> HIDE DEF a, x
<1>4. Good(b, 2, y)
  BY <1>0, <1>1, <1>2, <1>3, PutPlain
<1>5. /\ b \in Seq(Byte) /\ Len(b) = Len(e) + 2 /\ a \in Seq(Byte) /\ Len(a) = Len(e) + 1
      /\ \A i \in 1 .. Len(e) : b[i] = e[i]
  <2>1. a \in Seq(Byte) /\ Len(a) = Len(e) + 1 /\ \A i \in 1 .. Len(e) : a[i] = e[i]
    BY <1>0 DEF a
  <2> QED
    BY <1>0, <2>1
<1> HIDE DEF b, y
<1>6. /\ Kept(b) = y /\ Clean(b) /\ Len(b) \notin Escapes(b) /\ b[Len(b)] = 0 /\ b[Len(b) - 1] = 0
  BY <1>4 DEF Good
<1>7. /\ d \in Seq(Byte) /\ Len(d) = Len(e) + 3 /\ d[Len(e) + 3] = 3 /\ \A i \in 1 .. Len(e) : d[i] = e[i]
  BY <1>0, <1>5
<1>8. Escape(b, 3)
  BY <1>0, <1>5, <1>6 DEF Escape
<1>9. Kept(d) = y /\ Clean(d)
  BY <1>0, <1>5, <1>6, <1>8, KeptAppend, CleanAppend
<1>10. d = e \o <<0, 0, 3>>
  <2>1. a = e \o <<0>>
    BY <1>0, AppendIsConcat DEF a
  <2>2. b = a \o <<0>>
    BY <1>0, <1>5, AppendIsConcat DEF b
  <2>3. d = b \o <<3>>
    BY <1>0, <1>5, AppendIsConcat
  <2>4. <<0>> \in Seq(Byte) /\ <<3>> \in Seq(Byte) /\ <<0, 0>> \in Seq(Byte)
    BY <1>0
  <2>5. <<0>> \o <<0>> = <<0, 0>>
    <3>1. Append(<<0>>, 0) = <<0>> \o <<0>>
      BY <1>0, <2>4, AppendIsConcat
    <3>2. Append(<<0>>, 0) = <<0, 0>>
      BY <1>0, PairAppend
    <3> QED
      BY <3>1, <3>2
  <2>6. <<0, 0>> \o <<3>> = <<0, 0, 3>>
    <3> DEFINE s == <<0, 0>>
               t == <<0, 0, 3>>
               v == Append(s, 3)
    <3>1. s \in Seq(Byte) /\ Len(s) = 2 /\ s[1] = 0 /\ s[2] = 0
      BY <1>0
    <3>2. t \in Seq(Byte) /\ Len(t) = 3 /\ t[1] = 0 /\ t[2] = 0 /\ t[3] = 3
      BY <1>0
    <3> HIDE DEF s, t
    <3>3. v \in Seq(Byte) /\ Len(v) = 3 /\ v[1] = 0 /\ v[2] = 0 /\ v[3] = 3
      <4>1. v \in Seq(Byte) /\ Len(v) = Len(s) + 1 /\ (\A i \in 1 .. Len(s) : v[i] = s[i]) /\ v[Len(s) + 1] = 3
        BY <1>0, <3>1, ByteAppend
      <4> HIDE DEF v
      <4>2. 1 \in 1 .. Len(s) /\ 2 \in 1 .. Len(s) /\ Len(s) + 1 = 3
        BY <3>1
      <4> QED
        BY <3>1, <4>1, <4>2
    <3>4. v = s \o <<3>>
      BY <1>0, <3>1, AppendIsConcat
    <3> HIDE DEF v
    <3>5. \A i \in 1 .. Len(v) : i = 1 \/ i = 2 \/ i = 3
      BY <3>3
    <3>6. \A i \in 1 .. Len(v) : v[i] = t[i]
      BY <3>2, <3>3, <3>5
    <3>7. v = t
      BY <3>2, <3>3, <3>6, SeqEqual
    <3> QED
      BY <3>4, <3>7 DEF s, t
  <2>7. b = e \o <<0, 0>>
    BY <1>0, <2>1, <2>2, <2>4, <2>5, ByteAssociative, SMTT(30)
  <2> HIDE DEF d
  <2>8. d = e \o (<<0, 0>> \o <<3>>)
    BY <1>0, <2>3, <2>4, <2>7, ByteAssociative
  <2> QED
    BY <2>6, <2>8
<1> HIDE DEF d
<1>11. Converted(d) = q
  <2>1. /\ Len(q) \in 1 .. Len(y) /\ y[Len(q)] # 0
        /\ \A i \in Len(q) + 1 .. Len(y) : i = Len(q) + 1 \/ i = Len(q) + 2
    BY <1>1, SMTT(30)
  <2>2. \A i \in Len(q) + 1 .. Len(y) : y[i] = 0
    BY <1>1, <2>1
  <2>3. Converted(d) = SubSeq(y, 1, Len(q))
    BY <1>1, <1>9, <2>1, <2>2, ConvertedIs
  <2>4. SubSeq(y, 1, Len(q)) = q
    <3> DEFINE v == SubSeq(y, 1, Len(q))
    <3>1. v \in Seq(Byte) /\ Len(v) = Len(q) /\ \A i \in 1 .. Len(q) : v[i] = y[i]
      BY <1>1
    <3> HIDE DEF v
    <3>2. v = q
      BY <1>1, <3>1, SeqEqual
    <3> QED
      BY <3>2 DEF v
  <2> QED
    BY <2>3, <2>4
<1>12. Convertible(d)
  BY <1>0, <1>7, <1>9, CleanIsConvertible, SMTT(30)
<1>13. \A i \in 1 .. Len(d) - 2 : ~(d[i] = 0 /\ d[i + 1] = 0 /\ d[i + 2] <= 2)
  BY <1>7, <1>9, CleanHasNoCode
<1>14. d[2] = e[2] /\ d[Len(d)] # 0
  BY <1>0, <1>7
<1>15. Coded(d, q)
  BY <1>0, <1>7, <1>11, <1>12, <1>13, <1>14 DEF Coded
<1> QED
  BY <1>10, <1>15

(* What ends in no zero ends in none with something in front.              *)
LEMMA ContentsConcat ==
  ASSUME NEW s \in Seq(Byte), NEW t \in Contents
  PROVE  s \o t \in Contents /\ Len(s \o t) = Len(s) + Len(t) /\ Len(t) > 0
<1>1. t \in Seq(Byte) /\ t # << >> /\ t[Len(t)] # 0
  BY DEF Contents, EndsNonZero, Last
<1>2. Len(t) \in Nat /\ Len(t) > 0 /\ Len(s) \in Nat
  BY <1>1, EmptySeq
<1> DEFINE v == s \o t
<1>3. v \in Seq(Byte) /\ Len(v) = Len(s) + Len(t) /\ v[Len(s) + Len(t)] = t[Len(t)]
  BY <1>1, <1>2
<1> HIDE DEF v
<1>4. v # << >> /\ v[Len(v)] # 0
  <2>1. Len(v) # 0
    BY <1>2, <1>3
  <2>2. v # << >>
    BY <2>1, EmptySeq
  <2> QED
    BY <1>1, <1>3, <2>2
<1>5. v \in Contents
  BY <1>3, <1>4 DEF Contents, EndsNonZero, Last
<1> QED
  BY <1>2, <1>3, <1>5 DEF v

(* nor do several one after the other,                                     *)
LEMMA FlattenContents ==
  ASSUME NEW ss \in Seq(Contents)
  PROVE  /\ ss \in Seq(Seq(Byte)) /\ FlattenSeq(ss) \in Seq(Byte)
         /\ ss # << >> => FlattenSeq(ss) \in Contents
<1>1. ss \in Seq(Seq(Byte))
  <2>1. Contents \subseteq Seq(Byte)
    BY DEF Contents
  <2> QED
    BY <2>1, SeqMonotonic
<1>2. Len(ss) \in Nat /\ FlattenSeq(ss) = FrontOf(ss, Len(ss))
  <2>1. Len(ss) \in Nat
    OBVIOUS
  <2>2. FlattenSeq(ss) = FrontOf(ss, Len(ss))
    BY <1>1, Fronts
  <2> QED
    BY <2>1, <2>2
<1>3. Len(ss) \in 0 .. Len(ss)
  BY <1>2
<1>4. FlattenSeq(ss) \in Seq(Byte)
  BY <1>1, <1>2, <1>3, Fronts
<1>5. ASSUME ss # << >>
      PROVE  FlattenSeq(ss) \in Contents
  <2>1. Len(ss) \in 1 .. Len(ss) /\ Len(ss) - 1 \in 0 .. Len(ss)
    BY <1>2, <1>5, EmptySeq
  <2>2. FrontOf(ss, Len(ss)) = FrontOf(ss, Len(ss) - 1) \o ss[Len(ss)] /\ FrontOf(ss, Len(ss) - 1) \in Seq(Byte)
    BY <1>1, <2>1, Fronts
  <2>3. ss[Len(ss)] \in Contents
    BY <2>1, ElementOfSeq
  <2> QED
    BY <1>2, <2>2, <2>3, ContentsConcat
<1> QED
  BY <1>1, <1>4, <1>5

(* nor what a unit holds, which begins as its header does.                 *)
LEMMA RbspOk ==
  ASSUME NEW u, WellFormed(u)
  PROVE  /\ Rbsp(u) \in Contents /\ Rbsp(u) \in Seq(Byte)
         /\ Len(Rbsp(u)) > 0 /\ Rbsp(u)[1] = u.head[1] /\ Rbsp(u)[Len(Rbsp(u))] # 0
         /\ u.head[1] \in Byte
<1> DEFINE h == u.head
           f == FlattenSeq(u.subs)
           r == h \o f
<1>1. h \in Contents /\ u.subs \in Seq(Contents)
  BY DEF WellFormed
<1>2. h \in Seq(Byte) /\ Len(h) \in Nat /\ Len(h) > 0 /\ h # << >>
  BY <1>1, EmptySeq DEF Contents, EndsNonZero
<1>3. f \in Seq(Byte) /\ (u.subs # << >> => f \in Contents)
  BY <1>1, FlattenContents
<1>4. u.subs = << >> => f = << >>
  BY FlattenFew, EmptySeq
<1> HIDE DEF h, f
<1>5. r \in Contents
  <2>1. CASE u.subs = << >>
    <3>1. r = h
      BY <1>2, <1>4, <2>1, ConcatEmptySeq
    <3> QED
      BY <1>1, <3>1
  <2>2. CASE u.subs # << >>
    BY <1>2, <1>3, <2>2, ContentsConcat
  <2> QED
    BY <2>1, <2>2
<1>6. r[1] = h[1] /\ r \in Seq(Byte) /\ h[1] \in Byte
  <2>1. 1 \in 1 .. Len(h)
    BY <1>2
  <2> QED
    BY <1>2, <1>3, <2>1
<1> HIDE DEF r
<1>7. Len(r) > 0 /\ r[Len(r)] # 0
  BY <1>5, EmptySeq DEF Contents, EndsNonZero, Last
<1>8. Rbsp(u) = r
  BY DEF Rbsp, r, h, f
<1> QED
  BY <1>5, <1>6, <1>7, <1>8 DEF h

\* the second byte of a unit
HeaderByte(u) == 8 * u.type + TemporalId(u) + 1

(* The types as numbers.                                                   *)
LEMMA TypesAre ==
  ASSUME NEW t
  PROVE  t \in WrittenTypes <=> t \in (0 .. 3) \cup (7 .. 10) \cup (13 .. 17) \cup {19, 20, 23, 24}
<1>1. \A x : x \in 13 .. 17 <=> x \in 13 .. 16 \/ x = 17
  OBVIOUS
<1> QED
  BY <1>1 DEF WrittenTypes, SliceTypes, ParameterSets, APS, PH, AUD, PrefixSEI, SuffixSEI

(* The two bytes of the NAL unit header say type and layer and need no     *)
(* escape.                                                                 *)
LEMMA HeaderOk ==
  ASSUME NEW u, WellFormed(u)
  PROVE  /\ HeaderByte(u) \in 1 .. 255
         /\ NalHeader(u) = <<0, HeaderByte(u)>> /\ NalHeader(u) \in Seq(Byte) /\ Len(NalHeader(u)) = 2
         /\ HeaderByte(u) \div 8 = u.type /\ (HeaderByte(u) % 8) - 1 = TemporalId(u)
         /\ Good(NalHeader(u), 0, NalHeader(u))
<1> DEFINE t == u.type
           d == TemporalId(u)
           x == HeaderByte(u)
           h == NalHeader(u)
<1>1. t \in 0 .. 24 /\ d \in {0, 1}
  <2>1. u.type \in WrittenTypes /\ u.tid \in {0, 1}
    BY DEF WellFormed
  <2> QED
    BY <2>1, TypesAre DEF TemporalId
<1>2. x = 8 * t + d + 1
  BY DEF HeaderByte
<1>3. h = <<0, x>>
  BY DEF NalHeader, HeaderByte
<1> HIDE DEF t, d, x, h
<1>4. x \in 1 .. 255 /\ x \div 8 = t /\ (x % 8) - 1 = d
  BY <1>1, <1>2
<1>5. x \in Byte /\ 0 \in Byte
  BY <1>4 DEF Byte
<1>6. h \in Seq(Byte) /\ Len(h) = 2 /\ h[1] = 0 /\ h[2] = x
  BY <1>3, <1>5
<1>7. Kept(h) = h
  BY <1>3, <1>5, KeptFew
<1>8. Escapes(h) = {}
  <2>1. \A i \in 1 .. 2 : ~(i > 2)
    OBVIOUS
  <2>2. DOMAIN h = 1 .. 2
    BY <1>6
  <2> QED
    BY <2>1, <2>2 DEF Escapes, AfterTwoZeros
<1>9. Clean(h)
  <2>1. \A i \in 1 .. 2 : ~(i > 2)
    OBVIOUS
  <2> QED
    BY <1>6, <1>8, <2>1 DEF Clean, AfterTwoZeros
<1>10. Good(h, 0, h)
  <2>1. Cardinality(Escapes(h)) = 0
    BY <1>8, FS_EmptySet
  <2>2. h[Len(h)] # 0
    BY <1>4, <1>6
  <2> QED
    BY <1>6, <1>7, <1>8, <1>9, <2>1, <2>2 DEF Good
<1> QED
  BY <1>3, <1>4, <1>6, <1>10 DEF t, d, x, h

\* e is what d begins with
Begun(e, d) ==
  /\ e \in Seq(Byte) /\ d \in Seq(Byte) /\ Len(e) <= Len(d)
  /\ \A i \in 1 .. Len(e) : d[i] = e[i]

(* What is behind other bytes leaves them as they are.                     *)
LEMMA BegunConcat ==
  \A e, s \in Seq(Byte) : Begun(e, e \o s)
<1> TAKE e, s \in Seq(Byte)
<1>1. /\ e \o s \in Seq(Byte) /\ Len(e \o s) = Len(e) + Len(s)
      /\ Len(e) \in Nat /\ Len(s) \in Nat /\ \A i \in 1 .. Len(e) : (e \o s)[i] = e[i]
  BY ByteConcat
<1> DEFINE v == e \o s
<1> HIDE DEF v
<1>2. Len(e) <= Len(v)
  BY <1>1 DEF v
<1>3. Begun(e, v)
  BY <1>1, <1>2 DEF Begun, v
<1> QED
  BY <1>3 DEF v

(* A unit in the file has no start code in it and gives back what it was   *)
(* made of; it begins with what is put for its header and contents.        *)
LEMMA NalDataOk ==
  ASSUME NEW u, WellFormed(u)
  PROVE  /\ Coded(NalData(u), NalHeader(u) \o Rbsp(u))
         /\ Begun(After(NalHeader(u), Rbsp(u), Len(Rbsp(u))), NalData(u))
<1> DEFINE h == NalHeader(u)
           r == Rbsp(u)
           e == After(h, r, Len(r))
           q == h \o r
           w == FlattenSeq([k \in 1 .. u.zeroWords |-> <<0, 0, 3>>])
<1>1. r \in Seq(Byte) /\ Len(r) \in Nat /\ Len(r) > 0 /\ r[Len(r)] # 0
  BY RbspOk
<1>2. h \in Seq(Byte) /\ Len(h) = 2 /\ h[2] # 0 /\ Good(h, 0, h)
  <2>1. h = <<0, HeaderByte(u)>> /\ HeaderByte(u) \in 1 .. 255
    BY HeaderOk
  <2>2. h[2] = HeaderByte(u)
    BY <2>1
  <2> HIDE DEF h
  <2>3. h \in Seq(Byte) /\ Len(h) = 2 /\ Good(h, 0, h)
    BY HeaderOk DEF h
  <2> QED
    BY <2>1, <2>2, <2>3
<1> HIDE DEF h, r
<1> DEFINE z == ZerosOf(r)[Len(r)]
           f == FrontOf(Puts(r), Len(r))
<1>3. z = 0
  <2>1. ZerosOf(r) = [i \in 0 .. Len(r) |-> IF i = 0 \/ r[i] # 0 THEN 0 ELSE IF ZerosOf(r)[i - 1] = 1 THEN 2 ELSE 1]
    BY <1>1, ZerosExist DEF IsZeros
  <2>2. Len(r) \in 0 .. Len(r)
    BY <1>1
  <2> QED
    BY <1>1, <2>1, <2>2
<1>4. Puts(r) \in Seq(Seq(Byte)) /\ Len(Puts(r)) = Len(r) /\ Len(r) \in 0 .. Len(r)
  BY <1>1, <1>2, Escaping
<1>5. Good(e, 0, q)
  <2>1. Good(e, z, h \o SubSeq(r, 1, Len(r)))
    BY <1>1, <1>2, <1>4, Escaping
  <2>2. SubSeq(r, 1, Len(r)) = r
    BY <1>1, SubSeqFull
  <2> QED
    BY <1>3, <2>1, <2>2
<1>6. f \in Seq(Byte) /\ FlattenSeq(Puts(r)) = f
  BY <1>4, Fronts
<1>7. Escaped(r) = f
  <2>0. (IF z > 0 THEN <<3>> ELSE << >>) = << >>
    BY <1>3
  <2>1. Escaped(r) = FlattenSeq(Puts(r)) \o << >>
    BY <2>0, EscapedIs, Zenon
  <2> QED
    BY <1>6, <2>1, ConcatEmptySeq
<1>8. e = h \o f
  BY DEF After
<1>9. NalData(u) = e \o w
  BY <1>7, <1>8 DEF NalData, h, r
<1> HIDE DEF e, q, w, z, f
<1>10. q \in Seq(Byte) /\ Len(q) = 2 + Len(r) /\ q[Len(q)] # 0
  <2>1. q \in Seq(Byte) /\ Len(q) = 2 + Len(r) /\ q[2 + Len(r)] = r[Len(r)]
    <3>1. Len(r) \in 1 .. Len(r)
      BY <1>1
    <3> QED
      <4>1. h \in Seq(Byte) /\ r \in Seq(Byte) /\ Len(h) = 2
        BY <1>1, <1>2
      <4>2. /\ h \o r \in Seq(Byte) /\ Len(h \o r) = Len(h) + Len(r)
            /\ (h \o r)[Len(h) + Len(r)] = r[Len(r)]
        BY <4>1, <3>1, ByteConcat, Zenon
      <4> QED
        BY <4>1, <4>2 DEF q
  <2> QED
    BY <1>1, <2>1
<1>11. e \in Seq(Byte) /\ Len(e) = 2 + Len(f) /\ e[2] = h[2] /\ Len(f) \in Nat
  <2>1. 2 \in 1 .. Len(h)
    BY <1>2
  <2> QED
    <3>1. h \in Seq(Byte) /\ f \in Seq(Byte) /\ Len(h) = 2
      BY <1>2, <1>6
    <3>2. /\ h \o f \in Seq(Byte) /\ Len(h \o f) = Len(h) + Len(f) /\ Len(f) \in Nat
          /\ (h \o f)[2] = h[2]
      BY <2>1, <3>1, ByteConcat, Zenon
    <3> QED
      BY <1>8, <3>1, <3>2
<1>12. Len(e) > 2
  <2>1. Cardinality(Escapes(e)) + Len(q) = Len(e)
    BY <1>5 DEF Good
  <2>2. Cardinality(Escapes(e)) \in Nat
    <3>1. IsFiniteSet(1 .. Len(e))
      BY <1>11, FS_Interval
    <3>2. Escapes(e) \subseteq 1 .. Len(e)
      BY <1>11 DEF Escapes
    <3> QED
      BY <3>1, <3>2, FS_Subset, FS_CardinalityType
  <2> QED
    BY <1>1, <1>10, <2>1, <2>2
<1>13. u.zeroWords = 0 => w = << >>
  <2>1. u.zeroWords = 0 => [k \in 1 .. u.zeroWords |-> <<0, 0, 3>>] = << >>
    OBVIOUS
  <2> QED
    BY <2>1, FlattenFew, EmptySeq DEF w
<1>14. u.zeroWords = 1 => w = <<0, 0, 3>>
  <2>1. u.zeroWords = 1 => [k \in 1 .. u.zeroWords |-> <<0, 0, 3>>] = <<<<0, 0, 3>>>>
    OBVIOUS
  <2>2. <<0, 0, 3>> \in Seq(Nat)
    OBVIOUS
  <2> QED
    BY <2>1, <2>2, FlattenFew DEF w
<1>15. u.zeroWords = 0 \/ u.zeroWords = 1
  BY DEF WellFormed
<1>16. q \in Seq(Byte) /\ Len(q) > 0 /\ q[Len(q)] # 0 /\ Len(e) > 2 /\ e[2] # 0
  BY <1>1, <1>2, <1>10, <1>11, <1>12
<1>17. Coded(NalData(u), q)
  <2>1. CASE u.zeroWords = 0
    <3>1. NalData(u) = e
      BY <1>9, <1>11, <1>13, <2>1, ConcatEmptySeq
    <3>2. Coded(e, q)
      BY <1>16, <1>5, CodedPlain
    <3> QED
      BY <3>1, <3>2
  <2>2. CASE u.zeroWords = 1
    <3>1. NalData(u) = e \o <<0, 0, 3>>
      BY <1>9, <1>14, <2>2
    <3>2. Coded(e \o <<0, 0, 3>>, q)
      BY <1>16, <1>5, CodedPadded
    <3> QED
      BY <3>1, <3>2
  <2> QED
    BY <1>15, <2>1, <2>2
<1>18. Begun(e, NalData(u))
  <2>1. w \in Seq(Byte)
    <3>1. << >> \in Seq(Byte)
      OBVIOUS
    <3>2. <<0, 0, 3>> \in Seq(Byte)
      BY DEF Byte
    <3> QED
      BY <1>13, <1>14, <1>15, <3>1, <3>2
  <2> QED
    BY <1>9, <1>11, <2>1, BegunConcat
<1> QED
  BY <1>17, <1>18 DEF q, h, r, e

----------------------------------------------------------------------------
(* Where the units are in the file.                                        *)

Code(i) == StartCode(written[i])
Data(i) == NalData(written[i])

\* unit i begins, with its start code, after b[i] bytes
Laid(b) ==
  /\ file \in Seq(Byte)
  /\ b \in [1 .. Len(written) + 1 -> Nat]
  /\ b[1] = 0 /\ b[Len(written) + 1] = Len(file)
  /\ \A i \in 1 .. Len(written) :
       /\ b[i + 1] = b[i] + Len(Code(i)) + Len(Data(i))
       /\ b[i + 1] <= Len(file)
       /\ \A j \in 1 .. Len(Code(i)) : file[b[i] + j] = Code(i)[j]
       /\ \A j \in 1 .. Len(Data(i)) : file[b[i] + Len(Code(i)) + j] = Data(i)[j]

\* every unit is one the encoder puts together
AllFormed == Len(written) \in Nat /\ \A i \in 1 .. Len(written) : WellFormed(written[i])

(* The start codes.                                                        *)
LEMMA CodeIs ==
  ASSUME NEW i
  PROVE  /\ Len(Code(i)) \in {3, 4}
         /\ Len(Code(i)) = 3 => Code(i)[1] = 0 /\ Code(i)[2] = 0 /\ Code(i)[3] = 1
         /\ Len(Code(i)) = 4 => /\ Code(i)[1] = 0 /\ Code(i)[2] = 0
                                /\ Code(i)[3] = 0 /\ Code(i)[4] = 1
<1>1. Code(i) = <<0, 0, 0, 1>> \/ Code(i) = <<0, 0, 1>>
  BY DEF Code, StartCode
<1>2. CASE Code(i) = <<0, 0, 0, 1>>
  BY <1>2
<1>3. CASE Code(i) = <<0, 0, 1>>
  BY <1>3
<1> QED
  BY <1>1, <1>2, <1>3

(* Bytes at a place.                                                       *)
LEMMA ThreeAt ==
  ASSUME NEW p \in Nat, Len(file) \in Nat, NEW x
  PROVE  CodeAt(p, <<0, 0, x>>) <=> /\ p + 3 <= Len(file)
                                    /\ file[p + 1] = 0 /\ file[p + 2] = 0 /\ file[p + 3] = x
<1> DEFINE c == <<0, 0, x>>
<1>1. Len(c) = 3 /\ DOMAIN c = 1 .. 3 /\ c[1] = 0 /\ c[2] = 0 /\ c[3] = x
  OBVIOUS
<1> HIDE DEF c
<1>2. \A i \in 1 .. 3 : i = 1 \/ i = 2 \/ i = 3
  OBVIOUS
<1>3. 1 \in 1 .. 3 /\ 2 \in 1 .. 3 /\ 3 \in 1 .. 3
  OBVIOUS
<1>4. (\A i \in DOMAIN c : file[p + i] = c[i]) <=> file[p + 1] = 0 /\ file[p + 2] = 0 /\ file[p + 3] = x
  BY <1>1, <1>2, <1>3
<1>5. CodeAt(p, c) <=> p + Len(c) <= Len(file) /\ \A i \in DOMAIN c : file[p + i] = c[i]
  BY DEF CodeAt
<1> QED
  BY <1>1, <1>4, <1>5 DEF c

(* A long start code.                                                      *)
LEMMA FourAt ==
  ASSUME NEW p \in Nat, Len(file) \in Nat
  PROVE  CodeAt(p, <<0, 0, 0, 1>>) <=> /\ p + 4 <= Len(file)
                                       /\ file[p + 1] = 0 /\ file[p + 2] = 0
                                       /\ file[p + 3] = 0 /\ file[p + 4] = 1
<1> DEFINE c == <<0, 0, 0, 1>>
<1>1. Len(c) = 4 /\ DOMAIN c = 1 .. 4 /\ c[1] = 0 /\ c[2] = 0 /\ c[3] = 0 /\ c[4] = 1
  OBVIOUS
<1> HIDE DEF c
<1>2. \A i \in 1 .. 4 : i = 1 \/ i = 2 \/ i = 3 \/ i = 4
  OBVIOUS
<1>3. 1 \in 1 .. 4 /\ 2 \in 1 .. 4 /\ 3 \in 1 .. 4 /\ 4 \in 1 .. 4
  OBVIOUS
<1>4. (\A i \in DOMAIN c : file[p + i] = c[i])
        <=> file[p + 1] = 0 /\ file[p + 2] = 0 /\ file[p + 3] = 0 /\ file[p + 4] = 1
  BY <1>1, <1>2, <1>3
<1>5. CodeAt(p, c) <=> p + Len(c) <= Len(file) /\ \A i \in DOMAIN c : file[p + i] = c[i]
  BY DEF CodeAt
<1> QED
  BY <1>1, <1>4, <1>5 DEF c

(* The first place there is.                                               *)
LEMMA FirstExists ==
  ASSUME NEW p \in Nat, NEW m \in Nat, p <= m, NEW S
  PROVE  \E q \in p .. m : (q = m \/ q \in S) /\ \A r \in p .. q - 1 : r \notin S
<1> DEFINE T == {q \in p .. m : q = m \/ q \in S}
<1>1. T \in SUBSET Nat /\ m \in T
  OBVIOUS
<1> HIDE DEF T
<1>2. PICK q \in T : \A r \in T : q <= r
  BY <1>1, Least
<1>3. q \in p .. m /\ (q = m \/ q \in S)
  BY DEF T
<1>4. ASSUME NEW r \in p .. q - 1
      PROVE  r \notin S
  <2>1. r \in p .. m /\ ~(q <= r)
    BY <1>3
  <2>2. r \notin T
    BY <1>2, <2>1
  <2> QED
    BY <2>1, <2>2 DEF T
<1> QED
  BY <1>3, <1>4

\* where the two loops stop
ZerosEnd == {q \in Nat : AtStartCode(q) \/ file[q + 1] # 0}
DataEnd  == {q \in Nat : \E x \in 0 .. 2 : CodeAt(q, <<0, 0, x>>)}

FirstIn(p, S, q) == /\ q \in p .. Len(file) /\ (q = Len(file) \/ q \in S)
                    /\ \A r \in p .. q - 1 : r \notin S

(* The loop over zero bytes stops at the first place it may,               *)
LEMMA SkipZerosIs ==
  ASSUME NEW p \in Nat, Len(file) \in Nat, p <= Len(file)
  PROVE  /\ FirstIn(p, ZerosEnd, SkipZeros(p))
         /\ \A q : FirstIn(p, ZerosEnd, q) => SkipZeros(p) = q
<1> DEFINE W(q) == /\ q = Len(file) \/ (AtStartCode(q) \/ file[q + 1] # 0)
                   /\ \A r \in p .. q - 1 : ~(AtStartCode(r) \/ file[r + 1] # 0)
           c == CHOOSE q \in p .. Len(file) : W(q)
<1>1. SkipZeros(p) = c
  BY DEF SkipZeros, First
<1>2. \A q \in p .. Len(file) : W(q) <=> FirstIn(p, ZerosEnd, q)
  <2> TAKE q \in p .. Len(file)
  <2>1. q \in Nat /\ \A r \in p .. q - 1 : r \in Nat
    OBVIOUS
  <2>2. \A r \in Nat : r \in ZerosEnd <=> AtStartCode(r) \/ file[r + 1] # 0
    BY DEF ZerosEnd
  <2> QED
    BY <2>1, <2>2 DEF FirstIn
<1>3. \E q \in p .. Len(file) : FirstIn(p, ZerosEnd, q)
  BY FirstExists DEF FirstIn
<1> HIDE DEF W
<1>4. c \in p .. Len(file) /\ FirstIn(p, ZerosEnd, c)
  <2>1. \E q \in p .. Len(file) : W(q)
    BY <1>2, <1>3
  <2>2. c \in p .. Len(file) /\ W(c)
    BY <2>1
  <2> HIDE DEF c
  <2> QED
    BY <1>2, <2>2
<1> HIDE DEF c
<1>5. ASSUME NEW q, FirstIn(p, ZerosEnd, q)
      PROVE  c = q
  <2>1. /\ c \in p .. Len(file) /\ (c = Len(file) \/ c \in ZerosEnd) /\ \A r \in p .. c - 1 : r \notin ZerosEnd
        /\ q \in p .. Len(file) /\ (q = Len(file) \/ q \in ZerosEnd) /\ \A r \in p .. q - 1 : r \notin ZerosEnd
    BY <1>4, <1>5 DEF FirstIn
  <2>2. CASE c < q
    <3>1. c \in p .. q - 1 /\ c # Len(file)
      BY <2>1, <2>2
    <3> QED
      BY <2>1, <3>1
  <2>3. CASE q < c
    <3>1. q \in p .. c - 1 /\ q # Len(file)
      BY <2>1, <2>3
    <3> QED
      BY <2>1, <3>1
  <2> QED
    BY <2>1, <2>2, <2>3
<1> QED
  BY <1>1, <1>4, <1>5

(* and so does the loop over a unit's bytes.                               *)
LEMMA UnitEndIs ==
  ASSUME NEW p \in Nat, Len(file) \in Nat, p <= Len(file)
  PROVE  /\ FirstIn(p, DataEnd, UnitEnd(p))
         /\ \A q : FirstIn(p, DataEnd, q) => UnitEnd(p) = q
<1> DEFINE W(q) == /\ q = Len(file) \/ (\E b \in 0 .. 2 : CodeAt(q, <<0, 0, b>>))
                   /\ \A r \in p .. q - 1 : ~(\E b \in 0 .. 2 : CodeAt(r, <<0, 0, b>>))
           c == CHOOSE q \in p .. Len(file) : W(q)
<1>1. UnitEnd(p) = c
  BY DEF UnitEnd, First
<1>2. \A q \in p .. Len(file) : W(q) <=> FirstIn(p, DataEnd, q)
  <2> TAKE q \in p .. Len(file)
  <2>1. q \in Nat /\ \A r \in p .. q - 1 : r \in Nat
    OBVIOUS
  <2>2. \A r \in Nat : r \in DataEnd <=> \E b \in 0 .. 2 : CodeAt(r, <<0, 0, b>>)
    BY DEF DataEnd
  <2> QED
    BY <2>1, <2>2 DEF FirstIn
<1>3. \E q \in p .. Len(file) : FirstIn(p, DataEnd, q)
  BY FirstExists DEF FirstIn
<1> HIDE DEF W
<1>4. c \in p .. Len(file) /\ FirstIn(p, DataEnd, c)
  <2>1. \E q \in p .. Len(file) : W(q)
    BY <1>2, <1>3
  <2>2. c \in p .. Len(file) /\ W(c)
    BY <2>1
  <2> HIDE DEF c
  <2> QED
    BY <1>2, <2>2
<1> HIDE DEF c
<1>5. ASSUME NEW q, FirstIn(p, DataEnd, q)
      PROVE  c = q
  <2>1. /\ c \in p .. Len(file) /\ (c = Len(file) \/ c \in DataEnd) /\ \A r \in p .. c - 1 : r \notin DataEnd
        /\ q \in p .. Len(file) /\ (q = Len(file) \/ q \in DataEnd) /\ \A r \in p .. q - 1 : r \notin DataEnd
    BY <1>4, <1>5 DEF FirstIn
  <2>2. CASE c < q
    <3>1. c \in p .. q - 1 /\ c # Len(file)
      BY <2>1, <2>2
    <3> QED
      BY <2>1, <3>1
  <2>3. CASE q < c
    <3>1. q \in p .. c - 1 /\ q # Len(file)
      BY <2>1, <2>3
    <3> QED
      BY <2>1, <3>1
  <2> QED
    BY <2>1, <2>2, <2>3
<1> QED
  BY <1>1, <1>4, <1>5

----------------------------------------------------------------------------
(* byteStreamNALUnit.                                                      *)

(* It never stays where it is.                                             *)
LEMMA StoppedAhead ==
  ASSUME file \in Seq(Byte), NEW v, NEW p \in Nat, p <= Len(file)
  PROVE  LET r == StoppedAt(v, p) IN
         /\ r.unit = v /\ r.eof \in BOOLEAN
         /\ r.eof \/ Handed(r) \in p .. Len(file)
         /\ ~AtStartCode(p) => r.eof \/ Handed(r) \in p + 1 .. Len(file)
<1> DEFINE n == Len(file)
<1>1. n \in Nat
  OBVIOUS
<1>2. CASE p = n
  <2>1. StoppedAt(v, p) = [unit |-> v, at |-> n, held |-> 0, eof |-> TRUE]
    BY <1>2 DEF StoppedAt, Ended
  <2> QED
    BY <2>1
<1>3. CASE p # n /\ AtStartCode(p)
  <2> DEFINE held == IF CodeAt(p, <<0, 0, 1>>) THEN 3 ELSE 4
             r == [unit |-> v, at |-> p + held, held |-> held, eof |-> FALSE]
  <2>1. StoppedAt(v, p) = r
    BY <1>3 DEF StoppedAt, Stopped
  <2>2. held \in Nat
    OBVIOUS
  <2> HIDE DEF held
  <2>3. (p + held) - held = p
    BY <2>2
  <2>4. Handed(r) = p
    BY <2>3 DEF Handed
  <2> QED
    BY <1>1, <1>3, <2>1, <2>4
<1>4. CASE p # n /\ ~AtStartCode(p)
  <2> DEFINE at == IF p + 4 <= n THEN p + 4 ELSE n
             r == [unit |-> v, at |-> at, held |-> at - p - 1, eof |-> p + 4 > n]
  <2>1. StoppedAt(v, p) = r
    BY <1>4 DEF StoppedAt, Threw
  <2>2. at \in Nat
    BY <1>1
  <2> HIDE DEF at
  <2>3. at - (at - p - 1) = p + 1
    BY <2>2
  <2>4. Handed(r) = p + 1
    BY <2>3 DEF Handed
  <2>5. p + 4 > n \/ p + 1 \in p + 1 .. n
    BY <1>1
  <2>6. r.eof = (p + 4 > n) /\ r.unit = v
    OBVIOUS
  <2> QED
    BY <1>4, <2>1, <2>4, <2>5, <2>6
<1> QED
  BY <1>2, <1>3, <1>4

(* Whatever the bytes are, the next unit is looked for further on.         *)
LEMMA NextUnitAhead ==
  ASSUME file \in Seq(Byte), NEW p \in 0 .. Len(file)
  PROVE  LET r == NextUnit(p) IN r.eof \/ Handed(r) \in p + 1 .. Len(file)
<1> DEFINE n     == Len(file)
           code  == SkipZeros(p)
           begin == code + (IF CodeAt(code, <<0, 0, 1>>) THEN 3 ELSE 4)
           end   == UnitEnd(begin)
           next  == SkipZeros(end)
           r     == NextUnit(p)
<1>1. n \in Nat /\ p \in Nat /\ p <= n
  OBVIOUS
<1>2. r = IF code = n \/ ~AtStartCode(code) THEN StoppedAt(<<>>, code)
          ELSE StoppedAt(SubSeq(file, begin + 1, end), next)
  BY DEF NextUnit
<1>3. code \in p .. n
  BY <1>1, SkipZerosIs DEF FirstIn
<1> HIDE DEF code, r
<1>4. CASE code = n \/ ~AtStartCode(code)
  <2>1. r = StoppedAt(<<>>, code)
    BY <1>2, <1>4
  <2>2. code \in Nat /\ code <= n
    BY <1>1, <1>3
  <2>3. CASE code = n
    <3>1. StoppedAt(<<>>, code).eof
      BY <2>3 DEF StoppedAt, Ended
    <3> QED
      BY <2>1, <3>1 DEF r
  <2>4. CASE ~AtStartCode(code)
    <3>1. r.eof \/ Handed(r) \in code + 1 .. n
      BY <2>1, <2>2, <2>4, StoppedAhead
    <3>2. \A x \in code + 1 .. n : x \in p + 1 .. n
      BY <1>1, <1>3
    <3> QED
      BY <3>1, <3>2 DEF r
  <2> QED
    BY <1>4, <2>3, <2>4
<1>5. CASE ~(code = n \/ ~AtStartCode(code))
  <2>1. begin \in Nat /\ begin > code /\ begin <= n
    <3>1. code \in Nat
      BY <1>1, <1>3
    <3>2. CASE CodeAt(code, <<0, 0, 1>>)
      <4>1. code + 3 <= n
        BY <1>1, <3>1, <3>2, ThreeAt
      <4> QED
        BY <3>1, <3>2, <4>1
    <3>3. CASE ~CodeAt(code, <<0, 0, 1>>)
      <4>1. CodeAt(code, <<0, 0, 0, 1>>)
        BY <1>5, <3>3 DEF AtStartCode
      <4>2. code + 4 <= n
        BY <1>1, <3>1, <4>1, FourAt
      <4> QED
        BY <3>1, <3>3, <4>2
    <3> QED
      BY <3>2, <3>3
  <2> HIDE DEF begin
  <2>2. end \in begin .. n
    BY <1>1, <2>1, UnitEndIs DEF FirstIn
  <2> HIDE DEF end
  <2>3. end \in Nat /\ end <= n
    BY <1>1, <2>1, <2>2
  <2>4. next \in end .. n
    BY <1>1, <2>3, SkipZerosIs DEF FirstIn
  <2> HIDE DEF next
  <2>5. next \in Nat /\ next <= n /\ next >= p + 1
    BY <1>1, <1>3, <2>1, <2>2, <2>3, <2>4
  <2>6. r = StoppedAt(SubSeq(file, begin + 1, end), next)
    BY <1>2, <1>5
  <2>7. r.eof \/ Handed(r) \in next .. n
    BY <2>5, <2>6, StoppedAhead
  <2>8. \A x \in next .. n : x \in p + 1 .. n
    BY <1>1, <2>5
  <2> QED
    BY <2>7, <2>8 DEF r
<1> QED
  BY <1>4, <1>5

(* Where a unit begins there is its start code, long or short.             *)
LEMMA CodeHere ==
  ASSUME NEW b, Laid(b), AllFormed, NEW i \in 1 .. Len(written)
  PROVE  /\ b[i] \in Nat /\ b[i + 1] \in Nat /\ Len(file) \in Nat /\ b[i + 1] <= Len(file)
         /\ Len(Code(i)) \in {3, 4} /\ Len(Data(i)) \in Nat /\ Len(Data(i)) > 2
         /\ b[i + 1] = b[i] + Len(Code(i)) + Len(Data(i))
         /\ Len(Code(i)) = 3 => CodeAt(b[i], <<0, 0, 1>>)
         /\ Len(Code(i)) = 4 => /\ CodeAt(b[i], <<0, 0, 0, 1>>) /\ ~CodeAt(b[i], <<0, 0, 1>>)
                                /\ CodeAt(b[i] + 1, <<0, 0, 1>>) /\ CodeAt(b[i], <<0, 0, 0>>)
         /\ Coded(Data(i), NalHeader(written[i]) \o Rbsp(written[i]))
<1> DEFINE c == Code(i)
           x == b[i]
           y == b[i + 1]
           l == Len(Data(i))
           k == Len(c)
<1>1. Coded(Data(i), NalHeader(written[i]) \o Rbsp(written[i]))
  <2>1. WellFormed(written[i])
    BY DEF AllFormed
  <2> QED
    BY <2>1, NalDataOk DEF Data
<1>2. l \in Nat /\ l > 2
  BY <1>1 DEF Coded
<1>3. /\ k \in {3, 4}
      /\ k = 3 => c[1] = 0 /\ c[2] = 0 /\ c[3] = 1
      /\ k = 4 => c[1] = 0 /\ c[2] = 0 /\ c[3] = 0 /\ c[4] = 1
  BY CodeIs
<1>4. /\ x \in Nat /\ y \in Nat /\ Len(file) \in Nat /\ y <= Len(file)
      /\ y = x + k + l
      /\ \A j \in 1 .. k : file[x + j] = c[j]
  <2>1. Len(written) \in Nat
    BY DEF AllFormed
  <2>2. i \in 1 .. Len(written) + 1 /\ i + 1 \in 1 .. Len(written) + 1
    BY <2>1
  <2> QED
    BY <2>2, SMTT(30) DEF Laid
<1> HIDE DEF c, x, y, l, k
<1>5. k = 3 => CodeAt(x, <<0, 0, 1>>)
  <2> HAVE k = 3
  <2>1. 1 \in 1 .. k /\ 2 \in 1 .. k /\ 3 \in 1 .. k /\ x + 3 <= Len(file)
    BY <1>2, <1>4
  <2> QED
    BY <1>3, <1>4, <2>1, ThreeAt
<1>6. k = 4 => /\ CodeAt(x, <<0, 0, 0, 1>>) /\ ~CodeAt(x, <<0, 0, 1>>)
               /\ CodeAt(x + 1, <<0, 0, 1>>) /\ CodeAt(x, <<0, 0, 0>>)
  <2> HAVE k = 4
  <2>1. 1 \in 1 .. k /\ 2 \in 1 .. k /\ 3 \in 1 .. k /\ 4 \in 1 .. k /\ x + 4 <= Len(file) /\ x + 3 <= Len(file)
    BY <1>2, <1>4
  <2>2. file[x + 1] = 0 /\ file[x + 2] = 0 /\ file[x + 3] = 0 /\ file[x + 4] = 1
    BY <1>3, <1>4, <2>1
  <2>3. x + 1 \in Nat /\ (x + 1) + 1 = x + 2 /\ (x + 1) + 2 = x + 3 /\ (x + 1) + 3 = x + 4
    BY <1>4
  <2>4. CodeAt(x, <<0, 0, 0, 1>>)
    BY <1>4, <2>1, <2>2, FourAt
  <2>5. ~CodeAt(x, <<0, 0, 1>>)
    <3>1. CodeAt(x, <<0, 0, 1>>) => file[x + 3] = 1
      BY <1>4, ThreeAt
    <3> QED
      BY <2>2, <3>1
  <2>7. CodeAt(x, <<0, 0, 0>>)
    BY <1>4, <2>1, <2>2, ThreeAt
  <2>6. CodeAt(x + 1, <<0, 0, 1>>)
    BY <1>4, <2>1, <2>2, <2>3, ThreeAt, SMTT(30)
  <2> QED
    BY <2>4, <2>5, <2>6, <2>7
<1> QED
  BY <1>1, <1>2, <1>3, <1>4, <1>5, <1>6 DEF c, x, y, l, k

\* a place the unit is read from: where it begins, or a byte of its long start
\* code later
Near(b, i, p) == p = b[i] \/ (p = b[i] + 1 /\ Len(Code(i)) = 4)

(* Where a unit ends.                                                      *)
LEMMA DataEndHere ==
  ASSUME NEW b, Laid(b), AllFormed, NEW i \in 1 .. Len(written)
  PROVE  /\ UnitEnd(b[i] + Len(Code(i))) = b[i + 1]
         /\ SkipZeros(b[i + 1]) = b[i + 1]
         /\ b[i + 1] = Len(file) <=> i = Len(written)
         /\ i # Len(written) => AtStartCode(b[i + 1])
<1> DEFINE d == Data(i)
           l == Len(Data(i))
           s == b[i] + Len(Code(i))
           y == b[i + 1]
<1>1. /\ s \in Nat /\ y \in Nat /\ l \in Nat /\ l > 2 /\ Len(file) \in Nat /\ y = s + l /\ y <= Len(file)
      /\ Coded(d, NalHeader(written[i]) \o Rbsp(written[i]))
  BY CodeHere, SMTT(30)
<1>2. /\ d \in Seq(Byte) /\ l = Len(d) /\ d[l] # 0
      /\ \A j \in 1 .. l - 2 : ~(d[j] = 0 /\ d[j + 1] = 0 /\ d[j + 2] <= 2)
  BY <1>1 DEF Coded
<1>3. \A j \in 1 .. l : file[s + j] = d[j]
  BY DEF Laid
<1>4. Len(written) \in Nat
  BY DEF AllFormed
<1>5. i = Len(written) => y = Len(file)
  BY DEF Laid
<1>6. i # Len(written) => /\ AtStartCode(y) /\ y # Len(file)
                          /\ CodeAt(y, <<0, 0, 1>>) \/ CodeAt(y, <<0, 0, 0>>)
  <2> HAVE i # Len(written)
  <2>1. i + 1 \in 1 .. Len(written)
    BY <1>4
  <2>2. /\ Len(Code(i + 1)) \in {3, 4}
        /\ Len(Code(i + 1)) = 3 => CodeAt(y, <<0, 0, 1>>)
        /\ Len(Code(i + 1)) = 4 => CodeAt(y, <<0, 0, 0, 1>>) /\ CodeAt(y, <<0, 0, 0>>)
    BY <2>1, CodeHere
  <2>3. CodeAt(y, <<0, 0, 1>>) \/ (CodeAt(y, <<0, 0, 0, 1>>) /\ CodeAt(y, <<0, 0, 0>>))
    BY <2>2
  <2> HIDE DEF y
  <2>4. y + 3 <= Len(file)
    BY <1>1, <2>3, ThreeAt
  <2>5. y # Len(file)
    <3>1. PICK n : n = Len(file)
      OBVIOUS
    <3>2. y \in Nat /\ n \in Nat /\ y + 3 <= n
      BY <1>1, <2>4, <3>1
    <3>3. y # n
      BY ONLY <3>2
    <3> QED
      BY <3>1, <3>3
  <2> QED
    BY <2>3, <2>5 DEF AtStartCode
<1> HIDE DEF d, l, s, y
<1>7. ASSUME NEW r \in s .. y - 1
      PROVE  r \notin DataEnd
  <2> DEFINE j == r - s + 1
  <2>1. j \in 1 .. l /\ r + 1 = s + j /\ r + 2 = s + (j + 1) /\ r + 3 = s + (j + 2) /\ r \in Nat
    BY <1>1
  <2> HIDE DEF j
  <2>2. SUFFICES ASSUME NEW x \in 0 .. 2, CodeAt(r, <<0, 0, x>>)
                 PROVE  FALSE
    BY DEF DataEnd
  <2>3. file[r + 1] = 0 /\ file[r + 2] = 0 /\ file[r + 3] = x
    BY <1>1, <2>1, <2>2, ThreeAt
  <2>4. CASE j = l
    BY <1>2, <1>3, <2>1, <2>3, <2>4
  <2>5. CASE j = l - 1
    <3>1. j + 1 = l /\ l \in 1 .. l
      BY <1>1, <2>5
    <3> QED
      BY <1>2, <1>3, <2>1, <2>3, <3>1
  <2>6. CASE j # l /\ j # l - 1
    <3>1. j \in 1 .. l - 2 /\ j + 1 \in 1 .. l /\ j + 2 \in 1 .. l
      BY <1>1, <2>1, <2>6
    <3>2. d[j] = 0 /\ d[j + 1] = 0 /\ d[j + 2] = x
      BY <1>3, <2>1, <2>3, <3>1
    <3>3. ~(d[j] = 0 /\ d[j + 1] = 0 /\ d[j + 2] <= 2)
      BY <1>2, <3>1
    <3>4. x <= 2
      OBVIOUS
    <3> QED
      BY <3>2, <3>3, <3>4
  <2> QED
    BY <2>4, <2>5, <2>6
<1>8. y \in s .. Len(file) /\ s <= Len(file)
  BY <1>1
<1>9. y = Len(file) \/ y \in DataEnd
  <2>1. i # Len(written) => y \in DataEnd
    <3>1. 1 \in 0 .. 2 /\ 0 \in 0 .. 2
      OBVIOUS
    <3> QED
      BY <1>1, <1>6, <3>1 DEF DataEnd
  <2> QED
    BY <1>5, <2>1
<1>10. UnitEnd(s) = y
  <2>1. FirstIn(s, DataEnd, y)
    BY <1>7, <1>8, <1>9 DEF FirstIn
  <2> QED
    BY <1>1, <1>8, <2>1, UnitEndIs
<1>11. SkipZeros(y) = y
  <2>1. y \in y .. Len(file) /\ \A r : r \notin y .. y - 1
    BY <1>1
  <2>2. y = Len(file) \/ y \in ZerosEnd
    BY <1>1, <1>5, <1>6 DEF ZerosEnd
  <2>3. FirstIn(y, ZerosEnd, y)
    BY <2>1, <2>2 DEF FirstIn
  <2> QED
    BY <1>1, <2>3, SkipZerosIs
<1> QED
  BY <1>5, <1>6, <1>10, <1>11 DEF s, y

\* what is read then
IsUnit(b, i, r) ==
  /\ r.unit = Data(i)
  /\ r.eof <=> i = Len(written)
  /\ r.eof => r.at = Len(file) /\ r.held = 0
  /\ ~r.eof => /\ r.held = Len(Code(i + 1)) /\ r.at = b[i + 1] + r.held
               /\ Handed(r) = b[i + 1]

(* A unit is read whole, from where it begins or a byte later.             *)
LEMMA NextUnitHere ==
  ASSUME NEW b, Laid(b), AllFormed, NEW i \in 1 .. Len(written), NEW p, Near(b, i, p)
  PROVE  p \in 0 .. Len(file) /\ IsUnit(b, i, NextUnit(p))
<1> DEFINE n     == Len(file)
           code  == SkipZeros(p)
           begin == code + (IF CodeAt(code, <<0, 0, 1>>) THEN 3 ELSE 4)
           x == b[i]
           y == b[i + 1]
           k == Len(Code(i))
           d == Data(i)
           r == NextUnit(p)
<1>1. /\ x \in Nat /\ y \in Nat /\ n \in Nat /\ y <= n /\ k \in {3, 4} /\ Len(d) \in Nat /\ Len(d) > 2
      /\ y = x + k + Len(d)
      /\ k = 3 => CodeAt(x, <<0, 0, 1>>)
      /\ k = 4 => /\ CodeAt(x, <<0, 0, 0, 1>>) /\ ~CodeAt(x, <<0, 0, 1>>)
                  /\ CodeAt(x + 1, <<0, 0, 1>>)
      /\ d \in Seq(Byte)
  BY CodeHere DEF Coded
<1>2. p = x \/ (p = x + 1 /\ k = 4)
  BY DEF Near
<1>3. /\ UnitEnd(x + k) = y /\ SkipZeros(y) = y /\ (y = n <=> i = Len(written))
      /\ i # Len(written) => AtStartCode(y)
  BY DataEndHere
<1>4. \A j \in 1 .. Len(d) : file[x + k + j] = d[j]
  BY DEF Laid
<1>5. Len(written) \in Nat /\ file \in Seq(Byte)
  BY DEF AllFormed, Laid
<1> HIDE DEF x, y, k, d, n
<1>6. p \in Nat /\ p <= n /\ p # n /\ p \in 0 .. n
  <2> DEFINE l == Len(d)
  <2>1. x \in Nat /\ n \in Nat /\ y <= n /\ k \in Nat /\ k > 2 /\ l \in Nat /\ y = x + (k + l)
    BY <1>1
  <2> HIDE DEF l
  <2>2. x + 1 \in Nat /\ x < n /\ x + 1 < n
    BY ONLY <2>1
  <2>3. p \in Nat /\ p < n
    BY ONLY <1>2, <2>1, <2>2
  <2> QED
    BY ONLY <2>1, <2>3
<1>7. AtStartCode(p)
  <2>0. k = 3 \/ k = 4
    BY <1>1
  <2>1. CodeAt(x, <<0, 0, 1>>) \/ CodeAt(x, <<0, 0, 0, 1>>)
    BY <1>1, <2>0, Zenon
  <2>2. p = x + 1 /\ k = 4 => CodeAt(p, <<0, 0, 1>>)
    BY <1>1
  <2> QED
    BY <1>2, <2>1, <2>2 DEF AtStartCode
<1>8. p + (IF CodeAt(p, <<0, 0, 1>>) THEN 3 ELSE 4) = x + k
  <2>1. CASE p = x /\ k = 3
    <3>1. CodeAt(p, <<0, 0, 1>>)
      BY <1>1, <2>1, Zenon
    <3> QED
      BY ONLY <2>1, <3>1
  <2>2. CASE p = x /\ k = 4
    <3>1. ~CodeAt(p, <<0, 0, 1>>)
      BY <1>1, <2>2, Zenon
    <3> QED
      BY ONLY <2>2, <3>1
  <2>3. CASE p = x + 1 /\ k = 4
    <3>1. CodeAt(p, <<0, 0, 1>>) /\ x \in Nat
      BY <1>1, <2>3, Zenon
    <3> QED
      BY ONLY <2>3, <3>1
  <2>4. k = 3 \/ k = 4
    BY <1>1
  <2> QED
    BY ONLY <1>2, <2>1, <2>2, <2>3, <2>4
<1>9. code = p
  <2>1. p \in p .. n /\ (\A q : q \notin p .. p - 1) /\ p \in ZerosEnd
    BY <1>6, <1>7 DEF ZerosEnd
  <2>2. FirstIn(p, ZerosEnd, p)
    BY <2>1 DEF FirstIn, n
  <2> QED
    BY <1>1, <1>6, <2>2, SkipZerosIs DEF n
<1>10. r = StoppedAt(SubSeq(file, x + k + 1, y), y)
  <2>1. r = IF code = n \/ ~AtStartCode(code) THEN StoppedAt(<<>>, code)
            ELSE StoppedAt(SubSeq(file, begin + 1, UnitEnd(begin)), SkipZeros(UnitEnd(begin)))
    BY DEF NextUnit, n
  <2>2. begin = x + k
    BY <1>8, <1>9
  <2> HIDE DEF code, begin, r
  <2> QED
    BY <1>3, <1>6, <1>7, <1>9, <2>1, <2>2
<1>11. SubSeq(file, x + k + 1, y) = d
  <2> DEFINE v == SubSeq(file, x + k + 1, y)
             a == x + k
  <2>1. a \in Nat /\ y = a + Len(d) /\ y <= Len(file) /\ Len(file) \in Nat
    BY <1>1 DEF n
  <2> HIDE DEF a
  <2>2. \A j \in a + 1 .. y : file[j] \in Byte
    <3>1. \A j \in a + 1 .. y : j \in 1 .. Len(file)
      BY <2>1
    <3> QED
      BY <1>5, <3>1, ElementOfSeq
  <2>3. y - (a + 1) + 1 = Len(d) /\ (a + 1 <= y) /\ a + 1 \in Int /\ y \in Int
    BY <1>1, <2>1
  <2>4. v = SubSeq(file, a + 1, y)
    BY DEF a
  <2> HIDE DEF v
  <2>5. /\ v \in Seq(Byte) /\ Len(v) = Len(d)
        /\ \A j \in 1 .. Len(d) : v[j] = file[(a + 1) + j - 1]
    BY <2>2, <2>3, <2>4, SubSeqProperties, SMTT(30)
  <2>6. \A j \in 1 .. Len(d) : (a + 1) + j - 1 = a + j
    BY <2>1
  <2>7. \A j \in 1 .. Len(d) : v[j] = d[j]
    BY <1>4, <2>5, <2>6 DEF a
  <2>8. v = d
    BY <1>1, <2>5, <2>7, SeqEqual
  <2> QED
    BY <2>8 DEF v
<1>12. r = StoppedAt(d, y)
  BY <1>10, <1>11
<1> HIDE DEF r
<1>13. CASE i = Len(written)
  <2>1. r = [unit |-> d, at |-> n, held |-> 0, eof |-> TRUE]
    BY <1>3, <1>12, <1>13 DEF StoppedAt, Ended, n
  <2> QED
    BY <1>6, <1>13, <2>1 DEF IsUnit, d, n, r
<1>14. CASE i # Len(written)
  <2> DEFINE h == IF CodeAt(y, <<0, 0, 1>>) THEN 3 ELSE 4
  <2>1. r = [unit |-> d, at |-> y + h, held |-> h, eof |-> FALSE]
    BY <1>3, <1>12, <1>14 DEF StoppedAt, Stopped, n
  <2>2. h = Len(Code(i + 1))
    <3>1. i + 1 \in 1 .. Len(written)
      BY <1>5, <1>14
    <3>2. /\ Len(Code(i + 1)) \in {3, 4}
          /\ Len(Code(i + 1)) = 3 => CodeAt(y, <<0, 0, 1>>)
          /\ Len(Code(i + 1)) = 4 => ~CodeAt(y, <<0, 0, 1>>)
      BY <3>1, CodeHere DEF y
    <3> QED
      BY <3>2
  <2>3. h \in Nat
    OBVIOUS
  <2> HIDE DEF h
  <2>4. Handed(r) = y
    <3>1. Handed(r) = (y + h) - h
      BY <2>1 DEF Handed
    <3>2. y \in Nat
      BY <1>1
    <3> QED
      BY ONLY <2>3, <3>1, <3>2
  <2>5. /\ r.unit = d /\ r.at = y + h /\ r.held = h /\ r.eof = FALSE
    BY <2>1
  <2> HIDE DEF r
  <2>6. IsUnit(b, i, r)
    BY <1>14, <2>2, <2>4, <2>5, Zenon DEF IsUnit, d, y
  <2> QED
    BY <1>6, <2>6 DEF n, r
<1> QED
  BY <1>13, <1>14

----------------------------------------------------------------------------
(* DecLib::isNewPicture.                                                   *)

\* what the unit at p says, and on what comes behind it does
Looked(p, on) ==
  LET r == NextUnit(p)
      nal == Converted(r.unit)
      t == TypeOf(nal)
  IN  IF r.unit = <<>> THEN on
      ELSE IF ~Convertible(r.unit) THEN "fault"
      ELSE IF t \in PictureStarts THEN "yes"
      ELSE IF t \in SliceTypes THEN (IF nal[3] >= 128 THEN "yes" ELSE "no")
      ELSE IF t \in PictureFollows THEN "no"
      ELSE on
Behind(f, p) == IF NextUnit(p).eof THEN "no" ELSE f[Handed(NextUnit(p))]

IsLook(f, m) == f = [p \in m .. Len(file) |-> Looked(p, Behind(f, p))]
Look == CHOOSE f : IsLook(f, 0)

(* The look-ahead, in the terms used here.                                 *)
LEMMA LookIs ==
  ASSUME NEW p
  PROVE  NewPictureAt(p) = Look[p]
  BY DEF NewPictureAt, Look, IsLook, Looked, Behind

(* Looking ahead ends, for it never stays where it is.                     *)
LEMMA LookExists ==
  ASSUME file \in Seq(Byte)
  PROVE  \A p \in 0 .. Len(file) : Look[p] = Looked(p, Behind(Look, p))
<1> DEFINE n == Len(file)
           S == {m \in Nat : m <= n => \E f : IsLook(f, n - m)}
<1>1. n \in Nat
  OBVIOUS
<1>2. 0 \in S
  <2> DEFINE f == [p \in n .. n |-> Looked(n, "no")]
  <2>1. \A p \in n .. n : p = n
    BY <1>1
  <2>2. Behind(f, n) = "no"
    <3>1. n \in 0 .. n
      BY <1>1
    <3>2. NextUnit(n).eof \/ Handed(NextUnit(n)) \in n + 1 .. n
      BY <3>1, NextUnitAhead
    <3>3. \A q : q \notin n + 1 .. n
      BY <1>1
    <3> QED
      BY <3>2, <3>3 DEF Behind
  <2>3. \A p \in n .. n : f[p] = Looked(p, Behind(f, p))
    BY <2>1, <2>2
  <2>4. f = [p \in n .. n |-> f[p]]
    OBVIOUS
  <2> HIDE DEF f
  <2>5. f = [p \in n .. n |-> Looked(p, Behind(f, p))]
    BY <2>3, <2>4
  <2>6. n - 0 = n
    BY <1>1
  <2>7. IsLook(f, n - 0)
    BY <2>5, <2>6 DEF IsLook
  <2> QED
    BY <2>7
<1>3. ASSUME NEW m \in S
      PROVE  m + 1 \in S
  <2>1. SUFFICES ASSUME m + 1 <= n
                 PROVE  \E f : IsLook(f, n - (m + 1))
    BY <1>3
  <2>2. m \in Nat /\ n - m \in Nat /\ n - (m + 1) \in Nat /\ n - m = (n - (m + 1)) + 1 /\ m <= n
    BY <1>1, <1>3, <2>1
  <2>3. PICK f : IsLook(f, n - m)
    BY <1>3, <2>2
  <2> DEFINE l == n - (m + 1)
             g == [p \in l .. n |-> IF p = l THEN Looked(l, Behind(f, l)) ELSE f[p]]
  <2>4. l \in Nat /\ n - m = l + 1 /\ l <= n
    BY <1>1, <2>1, <2>2
  <2>5. \A p \in l + 1 .. n : f[p] = Looked(p, Behind(f, p))
    BY <2>3, <2>4 DEF IsLook
  <2> HIDE DEF l
  <2>6. \A p \in l + 1 .. n : p \in l .. n /\ p # l
    BY <1>1, <2>4
  <2>7. \A p \in l + 1 .. n : g[p] = f[p]
    BY <2>6
  <2>8. g[l] = Looked(l, Behind(f, l))
    BY <1>1, <2>4
  <2>9. g = [p \in l .. n |-> g[p]]
    OBVIOUS
  <2> HIDE DEF g
  <2>10. ASSUME NEW p \in l .. n
         PROVE  Behind(g, p) = Behind(f, p)
    <3> DEFINE q == Handed(NextUnit(p))
    <3>1. p \in 0 .. n
      BY <1>1, <2>4
    <3>2. NextUnit(p).eof \/ q \in p + 1 .. n
      BY <3>1, NextUnitAhead
    <3>3. \A y \in p + 1 .. n : y \in l + 1 .. n
      BY <1>1, <2>4
    <3>4. NextUnit(p).eof \/ g[q] = f[q]
      BY <2>7, <3>2, <3>3
    <3> QED
      BY <3>4 DEF Behind
  <2>11. \A p \in l .. n : g[p] = Looked(p, Behind(g, p))
    <3> TAKE p \in l .. n
    <3>1. CASE p = l
      BY <2>8, <2>10, <3>1
    <3>2. CASE p # l
      <4>1. p \in l + 1 .. n
        BY <1>1, <2>4, <3>2
      <4> QED
        BY <2>5, <2>7, <2>10, <4>1
    <3> QED
      BY <3>1, <3>2
  <2>12. g = [p \in l .. n |-> Looked(p, Behind(g, p))]
    BY <2>9, <2>11
  <2>13. IsLook(g, l)
    BY <2>12 DEF IsLook
  <2> QED
    BY <2>13 DEF l
<1>4. S = Nat
  <2> HIDE DEF S
  <2>1. S \in SUBSET Nat
    BY DEF S
  <2> QED
    BY <1>2, <1>3, <2>1, Induction
<1>5. \E f : IsLook(f, 0)
  <2>1. n \in S /\ n <= n /\ n - n = 0
    BY <1>1, <1>4
  <2> QED
    BY <2>1
<1>6. IsLook(Look, 0)
  BY <1>5, Zenon DEF Look
<1> DEFINE f == Look
<1> HIDE DEF f
<1>7. f = [p \in 0 .. n |-> Looked(p, Behind(f, p))]
  BY <1>6 DEF IsLook, f
<1>8. \A p \in 0 .. n : f[p] = Looked(p, Behind(f, p))
  BY <1>7
<1> QED
  BY <1>8 DEF f

\* what unit i says when the encoder wrote it
UnitSays(i, on) ==
  LET u == written[i] IN
  IF u.type \in PictureStarts THEN "yes"
  ELSE IF IsSlice(u) THEN (IF WithPictureHeader(u) THEN "yes" ELSE "no")
  ELSE IF u.type \in PictureFollows THEN "no"
  ELSE on

(* What is read says what was written: what it is, in which layer, and in  *)
(* a slice whether it holds its picture header.                            *)
LEMMA NalOk ==
  ASSUME NEW u, WellFormed(u)
  PROVE  LET nal == NalHeader(u) \o Rbsp(u) IN
         /\ nal \in Seq(Byte) /\ Len(nal) > 2
         /\ TypeOf(nal) = u.type /\ TidOf(nal) = TemporalId(u) /\ nal[3] = u.head[1]
<1> DEFINE h == NalHeader(u)
           r == Rbsp(u)
           nal == h \o r
<1>1. /\ r \in Seq(Byte) /\ Len(r) > 0 /\ r[1] = u.head[1]
  BY RbspOk
<1>2. /\ h = <<0, HeaderByte(u)>> /\ h \in Seq(Byte) /\ Len(h) = 2
      /\ HeaderByte(u) \div 8 = u.type /\ (HeaderByte(u) % 8) - 1 = TemporalId(u)
  BY HeaderOk
<1>3. h[2] = HeaderByte(u)
  BY <1>2
<1> HIDE DEF h, r
<1>4. /\ h \o r \in Seq(Byte) /\ Len(h \o r) = Len(h) + Len(r) /\ Len(r) \in Nat
      /\ \A i \in 1 .. Len(h) : (h \o r)[i] = h[i]
      /\ \A i \in 1 .. Len(r) : (h \o r)[Len(h) + i] = r[i]
  BY <1>1, <1>2, ByteConcat
<1> HIDE DEF nal
<1>5. nal \in Seq(Byte) /\ Len(nal) > 2 /\ nal[2] = h[2] /\ nal[3] = r[1]
  <2>1. 2 \in 1 .. Len(h) /\ 1 \in 1 .. Len(r) /\ Len(h) + 1 = 3
    BY <1>1, <1>2, <1>4
  <2> QED
    BY <1>1, <1>2, <1>4, <2>1 DEF nal
<1>6. TypeOf(nal) = u.type /\ TidOf(nal) = TemporalId(u)
  BY <1>2, <1>3, <1>5 DEF TypeOf, TidOf
<1> QED
  BY <1>1, <1>5, <1>6 DEF nal, h, r

(* From the place of a unit the look-ahead sees what it says, or what the  *)
(* next does.                                                              *)
LEMMA LookHere ==
  ASSUME NEW b, Laid(b), AllFormed, NEW i \in 1 .. Len(written)
  PROVE  /\ Convertible(Data(i)) /\ Data(i) # << >>
         /\ Converted(Data(i)) = NalHeader(written[i]) \o Rbsp(written[i])
         /\ Look[b[i]] = UnitSays(i, IF i = Len(written) THEN "no" ELSE Look[b[i + 1]])
<1> DEFINE r == NextUnit(b[i])
           u == written[i]
           nal == NalHeader(u) \o Rbsp(u)
           on == Behind(Look, b[i])
<1>1. file \in Seq(Byte) /\ WellFormed(u)
  BY DEF Laid, AllFormed
<1>2. b[i] \in 0 .. Len(file) /\ IsUnit(b, i, r)
  BY NextUnitHere DEF Near
<1>3. Coded(Data(i), nal)
  BY CodeHere
<1>4. Convertible(Data(i)) /\ Data(i) # << >> /\ Converted(Data(i)) = nal
  BY <1>3, EmptySeq DEF Coded
<1>5. Look[b[i]] = Looked(b[i], on)
  BY <1>1, <1>2, LookExists
<1>6. r.unit = Data(i)
  BY <1>2 DEF IsUnit
<1>7. TypeOf(nal) = u.type /\ nal[3] = u.head[1]
  BY <1>1, NalOk
<1>8. on = IF i = Len(written) THEN "no" ELSE Look[b[i + 1]]
  BY <1>2 DEF IsUnit, Behind
<1> HIDE DEF on, nal, u, r
<1>9. Looked(b[i], on) = IF u.type \in PictureStarts THEN "yes"
                         ELSE IF u.type \in SliceTypes THEN (IF u.head[1] >= 128 THEN "yes" ELSE "no")
                         ELSE IF u.type \in PictureFollows THEN "no"
                         ELSE on
  BY <1>4, <1>6, <1>7 DEF Looked, r
<1>10. Looked(b[i], on) = UnitSays(i, on)
  BY <1>9 DEF UnitSays, IsSlice, WithPictureHeader, u
<1> QED
  BY <1>4, <1>5, <1>8, <1>10 DEF nal, u

----------------------------------------------------------------------------
(* The order of the units.                                                 *)

\* each unit may stand behind the one before
Ordered ==
  /\ AllFormed
  /\ \A i \in 1 .. Len(written) :
       /\ written[i].first => Begins(written[i]) /\ (i > 1 => Rank(written[i - 1].type) >= 6)
       /\ ~written[i].first => i > 1 /\ Follows(written[i - 1], written[i])

Whole == Len(written) > 0 /\ Rank(written[Len(written)].type) >= 6

(* What the place of a unit in its access unit says of its type.           *)
LEMMA RankIs ==
  ASSUME NEW t \in WrittenTypes
  PROVE  /\ Rank(t) \in 1 .. 7
         /\ Rank(t) = 6 <=> t \in SliceTypes
         /\ Rank(t) = 7 <=> t = SuffixSEI
         /\ Rank(t) < 6 => t \in PictureStarts \/ (t \notin SliceTypes /\ t \notin PictureFollows)
         /\ t \in SliceTypes => t \notin PictureStarts
         /\ t = SuffixSEI => t \notin PictureStarts /\ t \notin SliceTypes
         /\ t = PH <=> Rank(t) = 5
         /\ t = AUD <=> Rank(t) = 1
<1>1. t \in (0 .. 3) \cup (7 .. 10) \cup (13 .. 17) \cup {19, 20, 23, 24}
  BY TypesAre
<1>2. /\ t \in ParameterSets <=> t \in 13 .. 16
      /\ t \in SliceTypes <=> t \in (0 .. 3) \cup (7 .. 10)
      /\ t \in PictureStarts <=> t \in (13 .. 16) \cup {19, 20}
      /\ t \in PictureFollows <=> t \in {18, 21, 22, 24, 25}
      /\ (t = APS <=> t = 17) /\ (t = PH <=> t = 19) /\ (t = AUD <=> t = 20)
      /\ (t = PrefixSEI <=> t = 23) /\ (t = SuffixSEI <=> t = 24)
  BY DEF ParameterSets, SliceTypes, PictureStarts, PictureFollows, APS, PH, AUD, PrefixSEI, SuffixSEI
<1>3. Rank(t) = IF t = AUD THEN 1 ELSE IF t \in ParameterSets THEN 2 ELSE IF t = PrefixSEI THEN 3
                ELSE IF t = APS THEN 4 ELSE IF t = PH THEN 5 ELSE IF t \in SliceTypes THEN 6 ELSE 7
  <2>1. CASE t = AUD
    <3>1. t \notin ParameterSets /\ t # PrefixSEI /\ t # APS /\ t # PH /\ t \notin SliceTypes
      BY <1>2, <2>1
    <3> QED
      BY <2>1, <3>1 DEF Rank
  <2>2. CASE t \in ParameterSets
    <3>1. t # AUD /\ t # PrefixSEI /\ t # APS /\ t # PH /\ t \notin SliceTypes
      BY <1>2, <2>2
    <3> QED
      BY <2>2, <3>1 DEF Rank
  <2>3. CASE t = PrefixSEI
    <3>1. t # AUD /\ t \notin ParameterSets /\ t # APS /\ t # PH /\ t \notin SliceTypes
      BY <1>2, <2>3
    <3> QED
      BY <2>3, <3>1 DEF Rank
  <2>4. CASE t = APS
    <3>1. t # AUD /\ t \notin ParameterSets /\ t # PrefixSEI /\ t # PH /\ t \notin SliceTypes
      BY <1>2, <2>4
    <3> QED
      BY <2>4, <3>1 DEF Rank
  <2>5. CASE t = PH
    <3>1. t # AUD /\ t \notin ParameterSets /\ t # PrefixSEI /\ t # APS /\ t \notin SliceTypes
      BY <1>2, <2>5
    <3> QED
      BY <2>5, <3>1 DEF Rank
  <2>6. CASE t \in SliceTypes
    <3>1. t # AUD /\ t \notin ParameterSets /\ t # PrefixSEI /\ t # APS /\ t # PH
      BY <1>2, <2>6
    <3> QED
      BY <2>6, <3>1 DEF Rank
  <2>7. CASE t # AUD /\ t \notin ParameterSets /\ t # PrefixSEI /\ t # APS /\ t # PH /\ t \notin SliceTypes
    BY <2>7 DEF Rank
  <2> QED
    BY <2>1, <2>2, <2>3, <2>4, <2>5, <2>6, <2>7
<1> DEFINE k == Rank(t)
<1>4. k = IF t = 20 THEN 1 ELSE IF t \in 13 .. 16 THEN 2 ELSE IF t = 23 THEN 3
          ELSE IF t = 17 THEN 4 ELSE IF t = 19 THEN 5 ELSE IF t \in (0 .. 3) \cup (7 .. 10) THEN 6 ELSE 7
  BY <1>2, <1>3
<1> HIDE DEF k
<1>5. /\ k \in 1 .. 7
      /\ k = 6 <=> t \in (0 .. 3) \cup (7 .. 10)
      /\ k = 7 <=> t = 24
      /\ k < 6 => t \in (13 .. 16) \cup {19, 20} \/ (t \notin (0 .. 3) \cup (7 .. 10) /\ t \notin {18, 21, 22, 24, 25})
      /\ t \in (0 .. 3) \cup (7 .. 10) => t \notin (13 .. 16) \cup {19, 20}
      /\ t = 24 => t \notin (13 .. 16) \cup {19, 20} /\ t \notin (0 .. 3) \cup (7 .. 10)
      /\ t = 19 <=> k = 5
      /\ t = 20 <=> k = 1
  BY <1>1, <1>4
<1> QED
  BY <1>2, <1>5 DEF k

\* a unit in front of which a picture ends
Starts(u) == Rank(u.type) < 6 \/ (IsSlice(u) /\ WithPictureHeader(u))

(* What stands behind a unit that begins a picture, up to its slices,      *)
(* begins it as well,                                                      *)
LEMMA StartsGoOn ==
  ASSUME Ordered, NEW i \in 1 .. Len(written), i # Len(written), Rank(written[i].type) < 5
  PROVE  Starts(written[i + 1])
<1> DEFINE v == written[i]
           u == written[i + 1]
<1>1. Len(written) \in Nat /\ i + 1 \in 1 .. Len(written) /\ i + 1 > 1 /\ (i + 1) - 1 = i
  BY DEF Ordered, AllFormed
<1>2. v.type \in WrittenTypes /\ u.type \in WrittenTypes
  BY <1>1 DEF Ordered, AllFormed, WellFormed
<1>3. /\ u.first => Rank(v.type) >= 6
      /\ ~u.first => Follows(v, u)
  BY <1>1 DEF Ordered
<1>4. Rank(v.type) \in 1 .. 7 /\ Rank(u.type) \in 1 .. 7 /\ Rank(v.type) < 5
  BY <1>2, RankIs
<1> HIDE DEF v, u
<1>5. Follows(v, u)
  BY <1>3, <1>4
<1>6. CASE Rank(u.type) < 6
  BY <1>6 DEF Starts, u
<1>7. CASE Rank(u.type) = 6
  <2>1. IsSlice(u) /\ v.type # PH /\ ~IsSlice(v)
    BY <1>2, <1>4, <1>7, RankIs DEF IsSlice
  <2>2. WithPictureHeader(u)
    BY <1>5, <2>1 DEF Follows
  <2> QED
    BY <2>1, <2>2 DEF Starts, u
<1>8. CASE Rank(u.type) = 7
  <2>1. u.type = SuffixSEI
    BY <1>2, <1>8, RankIs
  <2>2. Rank(v.type) >= 6
    BY <1>5, <2>1 DEF Follows
  <2> QED
    BY <1>4, <2>2
<1> QED
  BY <1>4, <1>6, <1>7, <1>8

(* and the look-ahead comes to it. No CHECK fires.                         *)
LEMMA LookSays ==
  ASSUME NEW b, Laid(b), Ordered, Whole
  PROVE  \A i \in 1 .. Len(written) : /\ Look[b[i]] \in {"yes", "no"}
                                      /\ Starts(written[i]) => Look[b[i]] = "yes"
                                      /\ Rank(written[i].type) >= 6 /\ ~Starts(written[i]) => Look[b[i]] = "no"
<1> DEFINE n == Len(written)
           P(i) == /\ Look[b[i]] \in {"yes", "no"}
                   /\ Starts(written[i]) => Look[b[i]] = "yes"
                   /\ Rank(written[i].type) >= 6 /\ ~Starts(written[i]) => Look[b[i]] = "no"
           Q == {i \in 1 .. n : P(i)}
           S == {m \in Nat : m < n => n - m \in Q}
<1>1. n \in Nat /\ n > 0 /\ AllFormed /\ \A i \in 1 .. n : written[i].type \in WrittenTypes
  BY DEF Ordered, AllFormed, Whole, WellFormed
<1>2. ASSUME NEW i \in 1 .. n, i # n => P(i + 1)
      PROVE  P(i)
  <2> DEFINE u == written[i]
             on == IF i = n THEN "no" ELSE Look[b[i + 1]]
  <2>1. Look[b[i]] = UnitSays(i, on)
    BY <1>1, LookHere
  <2>2. u.type \in WrittenTypes /\ Rank(u.type) \in 1 .. 7
    BY <1>1, RankIs
  <2>3. on \in {"yes", "no"}
    BY <1>2
  <2>4. UnitSays(i, on) = IF u.type \in PictureStarts THEN "yes"
                          ELSE IF IsSlice(u) THEN (IF WithPictureHeader(u) THEN "yes" ELSE "no")
                          ELSE IF u.type \in PictureFollows THEN "no"
                          ELSE on
    BY DEF UnitSays
  <2>5. Rank(u.type) < 5 => i # n /\ on = "yes"
    <3> HAVE Rank(u.type) < 5
    <3>1. i # n
      BY <2>2 DEF Whole
    <3>2. Starts(written[i + 1])
      BY <3>1, StartsGoOn
    <3> QED
      BY <1>2, <3>1, <3>2
  <2> HIDE DEF u, on
  <2>6. CASE Rank(u.type) < 6
    <3>1. CASE u.type \in PictureStarts
      <4>1. UnitSays(i, on) = "yes"
        BY <2>4, <3>1
      <4> QED
        BY <2>1, <2>2, <2>6, <4>1 DEF u
    <3>2. CASE u.type \notin PictureStarts
      <4>1. u.type \notin SliceTypes /\ u.type \notin PictureFollows
        BY <2>2, <2>6, <3>2, RankIs
      <4>2. UnitSays(i, on) = on
        BY <2>4, <3>2, <4>1 DEF IsSlice
      <4>3. Rank(u.type) # 5
        <5>1. PH \in PictureStarts
          BY DEF PictureStarts
        <5> QED
          BY <2>2, <3>2, <5>1, RankIs
      <4>4. on = "yes"
        BY <2>2, <2>5, <2>6, <4>3
      <4> QED
        BY <2>1, <2>2, <2>6, <4>2, <4>4 DEF u
    <3> QED
      BY <3>1, <3>2
  <2>7. CASE Rank(u.type) = 6
    <3>1. IsSlice(u) /\ u.type \notin PictureStarts
      BY <2>2, <2>7, RankIs DEF IsSlice
    <3>2. UnitSays(i, on) = IF WithPictureHeader(u) THEN "yes" ELSE "no"
      BY <2>4, <3>1
    <3>3. Starts(u) <=> WithPictureHeader(u)
      BY <2>7, <3>1 DEF Starts
    <3> QED
      BY <2>1, <3>2, <3>3 DEF u
  <2>8. CASE Rank(u.type) = 7
    <3>1. u.type = SuffixSEI /\ u.type \notin PictureStarts /\ ~IsSlice(u)
      BY <2>2, <2>8, RankIs DEF IsSlice
    <3>2. UnitSays(i, on) = "no"
      BY <2>4, <3>1 DEF PictureFollows
    <3>3. ~Starts(u)
      BY <2>8, <3>1 DEF Starts
    <3> QED
      BY <2>1, <3>2, <3>3 DEF u
  <2> QED
    BY <2>2, <2>6, <2>7, <2>8
<1>2a. ASSUME NEW i \in 1 .. n, i # n => i + 1 \in Q
       PROVE  i \in Q
  BY <1>2, <1>2a
<1> HIDE DEF P, Q, n
<1>3. 0 \in S
  <2>1. n \in 1 .. n /\ n - 0 = n
    BY <1>1
  <2>2. n \in Q
    BY <1>2a, <2>1
  <2> QED
    BY <2>1, <2>2
<1>4. ASSUME NEW m \in S
      PROVE  m + 1 \in S
  <2>1. m \in Nat
    BY <1>4
  <2>2. SUFFICES ASSUME m + 1 < n
                 PROVE  n - (m + 1) \in Q
    BY <2>1
  <2>3. n - (m + 1) \in 1 .. n /\ (n - (m + 1)) + 1 = n - m /\ m < n
    BY <1>1, <2>1, <2>2
  <2>4. n - m \in Q
    BY <1>4, <2>3
  <2> QED
    BY <1>2a, <2>3, <2>4
<1>5. S = Nat
  <2> HIDE DEF S
  <2>1. S \in SUBSET Nat
    BY DEF S
  <2> QED
    BY <1>3, <1>4, <2>1, Induction
<1>6. \A i \in 1 .. n : i \in Q
  <2> TAKE i \in 1 .. n
  <2>1. n - i \in Nat /\ n - i < n /\ n - (n - i) = i
    BY <1>1
  <2>2. n - i \in S
    BY <1>5, <2>1
  <2> QED
    BY <2>1, <2>2
<1> QED
  BY <1>6 DEF P, Q, n

----------------------------------------------------------------------------
(* What holds all along.                                                   *)

\* the decoder is about to take unit count + 1: three or four bytes behind its
\* place, or put back to it
Ahead(b) ==
  \/ reader.held = Len(Code(count + 1)) /\ reader.at = b[count + 1] + reader.held
  \/ firstSlice /\ reader.held = 0 /\ Near(b, count + 1, reader.at)

Framed == \E b : Laid(b) /\ (phase = "read" => Ahead(b))

\* before anything is read
Fresh ==
  /\ target = -1 /\ reader = [at |-> 0, held |-> 0, eof |-> FALSE]
  /\ firstSlice = TRUE /\ firstInSeq = TRUE /\ skipped = FALSE
  /\ count = 0 /\ picture = {} /\ finished = <<>>

\* amid the slices of a picture, and what is behind them
Inside ==
  /\ firstInSeq = FALSE /\ skipped = FALSE
  /\ count > 0 /\ Rank(written[count].type) >= 6 /\ InTarget(written[count].tid)

Flags ==
  /\ phase \in {"write", "read", "done"}
  /\ firstSlice \in BOOLEAN /\ firstInSeq \in BOOLEAN /\ skipped \in BOOLEAN
  /\ count \in Nat /\ count <= Len(written)
  /\ picture \in SUBSET Nat /\ finished \in Seq(SUBSET Nat)
  /\ phase = "write" => Fresh
  /\ phase # "write" => Whole /\ target \in {-1, 0}
  /\ phase = "read" => count < Len(written)
  /\ phase = "done" => count = Len(written)
  /\ firstSlice = FALSE => Inside
  /\ count > 0 => /\ taken.nal = NalHeader(written[count]) \o Rbsp(written[count])
                  /\ IsSlice(written[count]) => taken.subs = Substreamed(Data(count), written[count])

\* the units there may be
Formed == {u \in [type : WrittenTypes, first : BOOLEAN, tid : {0, 1}, head : Contents,
                  subs : Seq(Contents), zeroWords : {0, 1}] : IsSlice(u) => u.subs # << >>}

Inv == written \in Seq(Formed) /\ Ordered /\ Framed /\ Flags

(* These are units as they are written.                                    *)
LEMMA FormedIs ==
  ASSUME NEW u \in Formed
  PROVE  WellFormed(u)
  BY DEF Formed, WellFormed

(* It holds of the empty file.                                             *)
LEMMA InitOk == Init => Inv
<1> SUFFICES ASSUME Init
             PROVE  Inv
  OBVIOUS
<1>1. /\ written = << >> /\ file = << >> /\ phase = "write" /\ Fresh /\ taken = [nal |-> <<>>, subs |-> <<>>]
  BY DEF Init, Fresh
<1>2. written \in Seq(Formed) /\ Len(written) = 0 /\ file \in Seq(Byte) /\ Len(file) = 0
  BY <1>1
<1>3. Ordered
  <2>1. \A i : i \notin 1 .. Len(written)
    BY <1>2
  <2> QED
    BY <1>2, <2>1 DEF Ordered, AllFormed
<1>4. Framed
  <2> DEFINE b == [i \in 1 .. 1 |-> 0]
  <2>1. b \in [1 .. 1 -> Nat] /\ b[1] = 0
    OBVIOUS
  <2> HIDE DEF b
  <2>2. Laid(b)
    BY <1>2, <2>1 DEF Laid
  <2> QED
    BY <1>1, <2>2 DEF Framed
<1>5. Flags
  <2>1. count = 0 /\ count <= Len(written)
    BY <1>1, <1>2 DEF Fresh
  <2>2. firstSlice = TRUE /\ firstInSeq = TRUE /\ skipped = FALSE
    BY <1>1 DEF Fresh
  <2>3. firstSlice \in BOOLEAN /\ firstInSeq \in BOOLEAN /\ skipped \in BOOLEAN /\ firstSlice # FALSE
    BY <2>2, Zenon
  <2>4. phase \in {"write", "read", "done"} /\ phase # "read" /\ phase # "done" /\ phase = "write"
    BY <1>1
  <2>5. count \in Nat /\ ~(count > 0)
    BY <2>1
  <2>6. picture \in SUBSET Nat /\ finished \in Seq(SUBSET Nat)
    BY <1>1 DEF Fresh
  <2> QED
    BY <1>1, <2>1, <2>3, <2>4, <2>5, <2>6 DEF Flags
<1> QED
  BY <1>2, <1>3, <1>4, <1>5 DEF Inv

----------------------------------------------------------------------------
(* Writing.                                                                *)

\* what Placed asks of a unit, and its contents
MayFollow(u) ==
  /\ u \in Formed
  /\ u.first => Begins(u) /\ (Len(written) > 0 => Rank(written[Len(written)].type) >= 6)
  /\ ~u.first => Len(written) > 0 /\ Follows(written[Len(written)], u)

(* The file that may be closed.                                            *)
LEMMA CompleteIs ==
  ASSUME written \in Seq(Formed)
  PROVE  /\ Complete <=> Whole
         /\ written = << >> <=> Len(written) = 0
         /\ Len(written) \in Nat /\ Last(written) = written[Len(written)]
<1>1. Len(written) \in Nat /\ (written = << >> <=> Len(written) = 0)
  BY EmptySeq
<1>2. Last(written) = written[Len(written)]
  BY DEF Last
<1>3. Complete <=> Whole
  BY <1>1, <1>2 DEF Complete, Whole
<1> QED
  BY <1>1, <1>2, <1>3

(* A unit that Placed lets in has what MayFollow asks.                     *)
LEMMA MayFollowIs ==
  ASSUME written \in Seq(Formed), NEW u \in Formed, NEW v,
         v.type = u.type, v.first = u.first, v.tid = u.tid, v.head = u.head, Placed(v)
  PROVE  MayFollow(u)
<1>1. /\ Complete <=> Whole
      /\ written = << >> <=> Len(written) = 0
      /\ Len(written) \in Nat /\ Last(written) = written[Len(written)]
  BY CompleteIs
<1>2. Begins(v) <=> Begins(u)
  BY DEF Begins, IsSlice, WithPictureHeader
<1>3. \A p : Follows(p, v) <=> Follows(p, u)
  BY DEF Follows, IsSlice, WithPictureHeader
<1>4. CASE u.first
  <2>1. Begins(u) /\ (Complete \/ written = << >>)
    BY <1>2, <1>4 DEF Placed
  <2> QED
    BY <1>1, <1>4, <2>1 DEF MayFollow, Whole
<1>5. CASE ~u.first
  <2>1. written # << >> /\ Follows(Last(written), u)
    BY <1>3, <1>5 DEF Placed
  <2> QED
    BY <1>1, <1>5, <2>1 DEF MayFollow
<1> QED
  BY <1>4, <1>5

(* No contents end in a zero byte.                                         *)
LEMMA ContentsAre ==
  /\ Payloads \subseteq Contents /\ Heads \subseteq Contents /\ Substreams \subseteq Contents
  BY ContentAssumption DEF Contents

(* Both actions of the writer put a unit behind the others.                *)
LEMMA WriteSliceIs ==
  ASSUME written \in Seq(Formed), WriteSlice
  PROVE  phase = "write" /\ \E u : MayFollow(u) /\ Write(u)
<1>0. PICK t \in Types \cap SliceTypes, f \in BOOLEAN, d \in {0, 1}, h \in Heads :
        /\ Placed(Unit(t, f, d, h, <<>>, 0))
        /\ \E ss \in SeqOf(Substreams, 2) \ {<<>>}, z \in {0, 1} :
             (Plain(Unit(t, f, d, h, ss, z)) \/ RichSlices < MaxRich) /\ Write(Unit(t, f, d, h, ss, z))
  BY Zenon DEF WriteSlice
<1>1. PICK ss \in SeqOf(Substreams, 2) \ {<<>>}, z \in {0, 1} : Write(Unit(t, f, d, h, ss, z))
  BY <1>0, Zenon
<1> DEFINE v == Unit(t, f, d, h, <<>>, 0)
           u == Unit(t, f, d, h, ss, z)
<1>2. v = [type |-> t, first |-> f, tid |-> d, head |-> h, subs |-> <<>>, zeroWords |-> 0]
  BY DEF Unit
<1>3. u = [type |-> t, first |-> f, tid |-> d, head |-> h, subs |-> ss, zeroWords |-> z]
  BY DEF Unit
<1>4. ss \in Seq(Contents) /\ ss # << >>
  <2>1. PICK m \in 0 .. 2 : ss \in [1 .. m -> Substreams]
    BY DEF SeqOf
  <2>2. ss \in Seq(Substreams)
    BY <2>1, SeqDef
  <2>3. Substreams \subseteq Contents
    BY ContentsAre
  <2> QED
    BY <2>2, <2>3, SeqMonotonic
<1>5. t \in WrittenTypes /\ h \in Contents
  BY TypesAssumption, ContentsAre
<1> HIDE DEF u, v
<1>6. u \in Formed
  BY <1>3, <1>4, <1>5 DEF Formed
<1>7. Placed(v) /\ Write(u)
  BY <1>0, <1>1 DEF u, v
<1>8. MayFollow(u)
  BY <1>2, <1>3, <1>6, <1>7, MayFollowIs
<1> QED
  BY <1>7, <1>8 DEF WriteSlice

(* Units other than slices.                                                *)
LEMMA WriteOtherIs ==
  ASSUME written \in Seq(Formed), WriteOther
  PROVE  phase = "write" /\ \E u : MayFollow(u) /\ Write(u)
<1>1. PICK t \in Types \ SliceTypes, f \in BOOLEAN, d \in {0, 1}, p \in Payloads :
        Placed(Unit(t, f, d, p, <<>>, 0)) /\ Write(Unit(t, f, d, p, <<>>, 0))
  BY DEF WriteOther
<1> DEFINE u == Unit(t, f, d, p, <<>>, 0)
<1>2. u = [type |-> t, first |-> f, tid |-> d, head |-> p, subs |-> <<>>, zeroWords |-> 0]
  BY DEF Unit
<1>3. t \in WrittenTypes /\ p \in Contents /\ << >> \in Seq(Contents)
  BY TypesAssumption, ContentsAre
<1> HIDE DEF u
<1>4. u \in Formed
  BY <1>2, <1>3 DEF Formed, IsSlice
<1>5. Placed(u) /\ Write(u)
  BY <1>1 DEF u
<1>6. MayFollow(u)
  BY <1>4, <1>5, MayFollowIs
<1> QED
  BY <1>5, <1>6 DEF WriteOther

(* A unit more in the file.                                                *)
LEMMA LaidAppend ==
  ASSUME written \in Seq(Formed), NEW b, Laid(b), NEW u \in Formed, Write(u)
  PROVE  \E c : Laid(c)'
<1>a. PICK n : n = Len(written)
  OBVIOUS
<1> DEFINE m == Len(file)
           s == StartCode(u)
           d == NalData(u)
           g == file'
           k == m + Len(s) + Len(d)
<1>b. PICK c : c = [i \in 1 .. n + 2 |-> IF i <= n + 1 THEN b[i] ELSE k]
  OBVIOUS
<1>1. n \in Nat /\ written' = Append(written, u) /\ g = file \o s \o d /\ file \in Seq(Byte) /\ m \in Nat
  BY <1>a DEF Write, Laid
<1>2. /\ Len(written') = n + 1 /\ written'[n + 1] = u /\ \A i \in 1 .. n : written'[i] = written[i]
      /\ written' \in Seq(Formed)
  BY <1>a, <1>1, AppendProperties
<1>3. s \in Seq(Byte) /\ Len(s) \in Nat
  <2>1. s = <<0, 0, 0, 1>> \/ s = <<0, 0, 1>>
    BY DEF StartCode
  <2>2. 0 \in Byte /\ 1 \in Byte
    BY DEF Byte
  <2>3. <<0, 0, 0, 1>> \in Seq(Byte) /\ <<0, 0, 1>> \in Seq(Byte)
    BY <2>2
  <2> HIDE DEF s
  <2> QED
    BY <2>1, <2>3
<1>4. d \in Seq(Byte) /\ Len(d) \in Nat
  BY FormedIs, NalDataOk DEF Coded
<1>5. /\ b \in [1 .. n + 1 -> Nat] /\ b[1] = 0 /\ b[n + 1] = m
      /\ \A i \in 1 .. n :
           /\ b[i + 1] = b[i] + Len(Code(i)) + Len(Data(i))
           /\ b[i + 1] <= m
           /\ \A j \in 1 .. Len(Code(i)) : file[b[i] + j] = Code(i)[j]
           /\ \A j \in 1 .. Len(Data(i)) : file[b[i] + Len(Code(i)) + j] = Data(i)[j]
  BY <1>a DEF Laid
<1>6. \A i \in 1 .. n : Code(i)' = Code(i) /\ Data(i)' = Data(i)
  BY <1>2 DEF Code, Data
<1>7. Code(n + 1)' = s /\ Data(n + 1)' = d
  BY <1>2 DEF Code, Data
<1>8. \A i \in 1 .. n : Len(Code(i)) \in Nat /\ Len(Data(i)) \in Nat /\ b[i] \in Nat /\ b[i + 1] \in Nat
  <2> TAKE i \in 1 .. n
  <2>1. Len(Code(i)) \in Nat
    BY CodeIs
  <2>2. WellFormed(written[i])
    <3>1. written[i] \in Formed
      BY <1>a, ElementOfSeq
    <3> QED
      BY <3>1, FormedIs
  <2>3. Len(Data(i)) \in Nat
    BY <2>2, NalDataOk DEF Coded, Data
  <2>4. i \in 1 .. n + 1 /\ i + 1 \in 1 .. n + 1
    BY <1>1
  <2> QED
    BY <1>5, <2>1, <2>3, <2>4
<1> HIDE DEF m, s, d, g
<1>9. /\ g \in Seq(Byte) /\ Len(g) = k /\ k \in Nat /\ m <= k
      /\ \A j \in 1 .. m : g[j] = file[j]
      /\ \A j \in 1 .. Len(s) : g[m + j] = s[j]
      /\ \A j \in 1 .. Len(d) : g[m + Len(s) + j] = d[j]
  <2> DEFINE e == file \o s
  <2>1. /\ e \in Seq(Byte) /\ Len(e) = m + Len(s)
        /\ \A j \in 1 .. m : e[j] = file[j]
        /\ \A j \in 1 .. Len(s) : e[m + j] = s[j]
    BY <1>1, <1>3, ByteConcat DEF m
  <2> HIDE DEF e
  <2>2. /\ e \o d \in Seq(Byte) /\ Len(e \o d) = Len(e) + Len(d)
        /\ \A j \in 1 .. Len(e) : (e \o d)[j] = e[j]
        /\ \A j \in 1 .. Len(d) : (e \o d)[Len(e) + j] = d[j]
    BY <1>4, <2>1, ByteConcat
  <2>3. g = e \o d
    BY <1>1 DEF e
  <2>4. \A j \in 1 .. m : j \in 1 .. Len(e)
    BY <1>1, <1>3, <2>1
  <2>5. \A j \in 1 .. Len(s) : m + j \in 1 .. Len(e)
    BY <1>1, <1>3, <2>1
  <2>6. \A j \in 1 .. m : g[j] = file[j]
    BY <2>1, <2>2, <2>3, <2>4
  <2>7. \A j \in 1 .. Len(s) : g[m + j] = s[j]
    BY <2>1, <2>2, <2>3, <2>5
  <2>8. \A j \in 1 .. Len(d) : g[m + Len(s) + j] = d[j]
    BY <2>1, <2>2, <2>3
  <2>9. g \in Seq(Byte) /\ Len(g) = k
    BY <2>1, <2>2, <2>3
  <2>10. k \in Nat /\ m <= k
    BY <1>1, <1>3, <1>4
  <2> QED
    BY <2>6, <2>7, <2>8, <2>9, <2>10
<1> HIDE DEF k
<1>10. /\ c \in [1 .. n + 2 -> Nat] /\ c[n + 2] = k
       /\ \A i \in 1 .. n + 1 : c[i] = b[i]
  <2>1. \A i \in 1 .. n + 2 : i <= n + 1 => i \in 1 .. n + 1
    BY <1>1
  <2>2. \A i \in 1 .. n + 1 : i \in 1 .. n + 2 /\ i <= n + 1
    BY <1>1
  <2>3. n + 2 \in 1 .. n + 2 /\ ~(n + 2 <= n + 1)
    BY <1>1
  <2> QED
    BY <1>b, <1>5, <1>9, <2>1, <2>2, <2>3
<1>11. c[1] = 0 /\ c[n + 1] = m
  BY <1>1, <1>5, <1>10
<1>12. ASSUME NEW i \in 1 .. n
       PROVE  /\ c[i + 1] = c[i] + Len(Code(i)') + Len(Data(i)')
              /\ c[i + 1] <= k
              /\ \A j \in 1 .. Len(Code(i)') : g[c[i] + j] = Code(i)'[j]
              /\ \A j \in 1 .. Len(Data(i)') : g[c[i] + Len(Code(i)') + j] = Data(i)'[j]
  <2> DEFINE x == b[i]
             y == b[i + 1]
             p == Code(i)
             q == Data(i)
  <2>1. c[i] = x /\ c[i + 1] = y
    <3>1. i \in 1 .. n + 1 /\ i + 1 \in 1 .. n + 1
      BY <1>1
    <3> QED
      BY <1>10, <3>1
  <2>2. /\ y = x + Len(p) + Len(q) /\ y <= m
        /\ \A j \in 1 .. Len(p) : file[x + j] = p[j]
        /\ \A j \in 1 .. Len(q) : file[x + Len(p) + j] = q[j]
    BY <1>5
  <2>3. Len(p) \in Nat /\ Len(q) \in Nat /\ x \in Nat /\ y \in Nat
    BY <1>8
  <2>4. Code(i)' = p /\ Data(i)' = q
    BY <1>6
  <2> HIDE DEF x, y, p, q
  <2>5. \A j \in 1 .. Len(p) : x + j \in 1 .. m
    BY <1>1, <2>2, <2>3
  <2>6. \A j \in 1 .. Len(q) : x + Len(p) + j \in 1 .. m
    <3> DEFINE v == Len(p)
               w == Len(q)
    <3>1. y = x + v + w /\ y <= m /\ v \in Nat /\ w \in Nat /\ x \in Nat /\ m \in Nat
      BY <1>1, <2>2, <2>3
    <3> HIDE DEF v, w
    <3>2. \A j \in 1 .. w : x + v + j \in 1 .. m
      BY ONLY <3>1
    <3> QED
      BY ONLY <3>2 DEF v, w
  <2>7. \A j \in 1 .. Len(p) : g[x + j] = p[j]
    BY <1>9, <2>2, <2>5
  <2>8. \A j \in 1 .. Len(q) : g[x + Len(p) + j] = q[j]
    BY <1>9, <2>2, <2>6
  <2>9. y <= k
    BY <1>1, <1>9, <2>2, <2>3
  <2> QED
    BY <2>1, <2>2, <2>4, <2>7, <2>8, <2>9
<1>13. /\ c[n + 2] = c[n + 1] + Len(Code(n + 1)') + Len(Data(n + 1)')
       /\ c[n + 2] <= k
       /\ \A j \in 1 .. Len(Code(n + 1)') : g[c[n + 1] + j] = Code(n + 1)'[j]
       /\ \A j \in 1 .. Len(Data(n + 1)') : g[c[n + 1] + Len(Code(n + 1)') + j] = Data(n + 1)'[j]
  BY <1>7, <1>9, <1>10, <1>11 DEF k
<1>14. \A i \in 1 .. n + 1 : i \in 1 .. n \/ (i = n + 1 /\ i + 1 = n + 2)
  BY <1>1
<1>15. Len(written') + 1 = n + 2
  BY <1>1, <1>2
<1>16. \A i \in 1 .. n + 1 :
         /\ c[i + 1] = c[i] + Len(Code(i)') + Len(Data(i)')
         /\ c[i + 1] <= k
         /\ \A j \in 1 .. Len(Code(i)') : g[c[i] + j] = Code(i)'[j]
         /\ \A j \in 1 .. Len(Data(i)') : g[c[i] + Len(Code(i)') + j] = Data(i)'[j]
  <2> TAKE i \in 1 .. n + 1
  <2>1. CASE i \in 1 .. n
    BY <1>12, <2>1, Zenon
  <2>2. CASE i = n + 1 /\ i + 1 = n + 2
    BY <1>13, <2>2, Zenon
  <2> QED
    BY <1>14, <2>1, <2>2
<1>17. c \in [1 .. Len(written') + 1 -> Nat] /\ c[Len(written') + 1] = Len(g)
  BY <1>9, <1>10, <1>15
<1>18. Len(written') = n + 1
  BY <1>2
<1>19. Laid(c)'
  <2> DEFINE w == file'
  <2>1. w = g
    BY DEF g
  <2>2. /\ w \in Seq(Byte) /\ c[1] = 0 /\ k = Len(w)
    BY <1>9, <1>11, <2>1
  <2> QED
    BY <1>16, <1>17, <1>18, <2>1, <2>2, Zenon DEF Laid
<1> QED
  BY <1>19

(* The invariant after each step: a unit more,                             *)
LEMMA WriteKeeps ==
  ASSUME Inv, phase = "write", NEW u, MayFollow(u), Write(u)
  PROVE  Inv'
<1> DEFINE n == Len(written)
<1>1. written \in Seq(Formed) /\ n \in Nat /\ Ordered /\ u \in Formed /\ Flags
  BY DEF Inv, MayFollow
<1>2. /\ Len(written') = n + 1 /\ written'[n + 1] = u /\ \A i \in 1 .. n : written'[i] = written[i]
      /\ written' \in Seq(Formed)
  BY <1>1, AppendProperties DEF Write
<1>3. Ordered'
  <2>1. AllFormed'
    <3>1. Len(written') \in Nat
      BY <1>1, <1>2
    <3>2. ASSUME NEW i \in 1 .. Len(written')
          PROVE  WellFormed(written'[i])
      <4>1. written'[i] \in Formed
        BY <1>2, ElementOfSeq
      <4> QED
        BY <4>1, FormedIs
    <3> QED
      BY <3>1, <3>2 DEF AllFormed
  <2>2. ASSUME NEW i \in 1 .. n + 1
        PROVE  /\ written'[i].first => /\ Begins(written'[i])
                                       /\ i > 1 => Rank(written'[i - 1].type) >= 6
               /\ ~written'[i].first => i > 1 /\ Follows(written'[i - 1], written'[i])
    <3>1. CASE i = n + 1
      <4>1. n > 0 => n \in 1 .. n
        BY <1>1
      <4>2. n > 0 => written'[i - 1] = written[n]
        BY <1>1, <1>2, <3>1, <4>1
      <4>3. i > 1 <=> n > 0
        BY <1>1, <3>1
      <4> QED
        BY <1>2, <3>1, <4>2, <4>3 DEF MayFollow
    <3>2. CASE i # n + 1
      <4>1. i \in 1 .. n /\ (i > 1 => i - 1 \in 1 .. n)
        BY <1>1, <3>2
      <4> QED
        BY <1>1, <1>2, <4>1 DEF Ordered
    <3> QED
      BY <3>1, <3>2
  <2> QED
    BY <1>2, <2>1, <2>2 DEF Ordered
<1>4. Framed'
  <2>1. \E c : Laid(c)'
    BY <1>1, LaidAppend DEF Inv, Framed
  <2>2. phase' = "write"
    BY DEF Write
  <2> QED
    BY <2>1, <2>2 DEF Framed
<1>5. Flags'
  <2>1. /\ phase' = phase /\ target' = target /\ reader' = reader /\ firstSlice' = firstSlice
        /\ firstInSeq' = firstInSeq /\ skipped' = skipped /\ count' = count /\ picture' = picture
        /\ finished' = finished /\ taken' = taken
    BY DEF Write, decoder
  <2>2. Fresh
    BY <1>1 DEF Flags
  <2>3. Fresh'
    BY <2>1, <2>2 DEF Fresh
  <2>4. count' = 0 /\ firstSlice' = TRUE /\ firstInSeq' = TRUE /\ skipped' = FALSE
    BY <2>3 DEF Fresh
  <2>5. 0 <= Len(written')
    BY <1>1, <1>2
  <2>6. Flags => phase' \in {"write", "read", "done"} /\ phase' = "write"
    BY <2>1
  <2>7. phase' # "read" /\ phase' # "done"
    BY <2>1
  <2>8. firstSlice' \in BOOLEAN /\ firstInSeq' \in BOOLEAN /\ skipped' \in BOOLEAN /\ firstSlice' # FALSE
    BY <2>4, Zenon
  <2>9. count' \in Nat /\ count' <= Len(written') /\ ~(count' > 0)
    BY <2>4, <2>5
  <2>10. picture' \in SUBSET Nat /\ finished' \in Seq(SUBSET Nat)
    BY <1>1, <2>1 DEF Flags
  <2> QED
    BY <2>1, <2>3, <2>7, <2>8, <2>9, <2>10 DEF Flags
<1> QED
  BY <1>2, <1>3, <1>4, <1>5 DEF Inv

(* The whole file,                                                         *)
LEMMA CloseKeeps ==
  ASSUME Inv, CloseFile
  PROVE  Inv'
<1>1. /\ phase = "write" /\ phase' = "read" /\ Complete /\ target' \in {-1, 0}
      /\ written' = written /\ file' = file /\ reader' = reader /\ firstSlice' = firstSlice
      /\ firstInSeq' = firstInSeq /\ skipped' = skipped /\ count' = count /\ picture' = picture
      /\ finished' = finished /\ taken' = taken
  BY DEF CloseFile, writer, decoder
<1>2. written \in Seq(Formed) /\ Ordered /\ Flags
  BY DEF Inv
<1>3. Fresh
  BY <1>1, <1>2 DEF Flags
<1>4. Whole /\ Len(written) \in Nat /\ Len(written) > 0
  BY <1>1, <1>2, CompleteIs DEF Whole
<1>5. count = 0 /\ firstSlice = TRUE /\ reader.at = 0 /\ reader.held = 0
  BY <1>3 DEF Fresh
<1>6. Ordered'
  BY <1>1, <1>2 DEF Ordered, AllFormed
<1>7. Framed'
  <2>1. PICK b : Laid(b)
    BY DEF Inv, Framed
  <2>2. Laid(b)'
    BY <1>1, <2>1 DEF Laid, Code, Data
  <2>3. b[1] = 0 /\ count' + 1 = 1
    BY <1>1, <1>5, <2>1 DEF Laid
  <2>4. Ahead(b)'
    <3>1. firstSlice'
      BY <1>1, <1>5, Zenon
    <3>2. reader'.held = 0 /\ reader'.at = b[count' + 1]
      BY <1>1, <1>5, <2>3
    <3> QED
      BY <3>1, <3>2 DEF Ahead, Near
  <2> QED
    BY <2>2, <2>4 DEF Framed
<1>8. Flags'
  <2>1. Whole'
    BY <1>1, <1>4 DEF Whole
  <2>2. firstSlice' \in BOOLEAN /\ firstInSeq' \in BOOLEAN /\ skipped' \in BOOLEAN /\ firstSlice' # FALSE
    BY <1>1, <1>3, Zenon DEF Fresh
  <2>3. /\ count' = 0 /\ count' \in Nat /\ count' <= Len(written') /\ count' < Len(written')
        /\ ~(count' > 0)
    BY <1>1, <1>4, <1>5
  <2>4. /\ phase' \in {"write", "read", "done"}
        /\ phase' # "write" /\ phase' # "done"
    BY <1>1
  <2>5. picture' \in SUBSET Nat /\ finished' \in Seq(SUBSET Nat)
    BY <1>1, <1>2 DEF Flags
  <2> QED
    BY <1>1, <2>1, <2>2, <2>3, <2>4, <2>5, Zenon DEF Flags
<1>9. written' \in Seq(Formed)
  BY <1>1, <1>2
<1> QED
  BY <1>6, <1>7, <1>8, <1>9 DEF Inv

----------------------------------------------------------------------------
(* Reading.                                                                *)

Reading(b) == Inv /\ phase = "read" /\ Laid(b) /\ Ahead(b)

(* While it is read, its units are somewhere and the reader is at one of   *)
(* them.                                                                   *)
LEMMA ReadingIs ==
  ASSUME Inv, phase = "read"
  PROVE  \E b : Reading(b)
  BY DEF Inv, Framed, Reading

(* Which unit comes next.                                                  *)
LEMMA NextIs ==
  ASSUME NEW b, Reading(b)
  PROVE  /\ count \in Nat /\ Len(written) \in Nat
         /\ count + 1 \in 1 .. Len(written)
         /\ WellFormed(written[count + 1])
         /\ Ordered /\ Whole /\ AllFormed
<1>1. Flags /\ Ordered /\ written \in Seq(Formed) /\ phase = "read"
  BY DEF Reading, Inv
<1>2. /\ count \in Nat /\ count < Len(written) /\ Whole /\ AllFormed /\ Len(written) \in Nat
  <2>1. phase # "write"
    BY <1>1
  <2> QED
    BY <1>1, <2>1 DEF Flags, Ordered, AllFormed
<1>3. count + 1 \in 1 .. Len(written)
  BY <1>2
<1> QED
  BY <1>1, <1>2, <1>3 DEF AllFormed

(* The question whether a picture begins is answered; while none is in     *)
(* hand it is not asked.                                                   *)
LEMMA NewPictureIs ==
  ASSUME NEW b, Reading(b)
  PROVE  /\ IsNewPicture \in {"yes", "no"}
         /\ IsNewPicture = "yes" => ~firstSlice
         /\ ~firstSlice /\ IsNewPicture = "no" => ~Starts(written[count + 1])
         /\ ~firstSlice /\ IsNewPicture = "yes" => ~(Rank(written[count + 1].type) >= 6 /\ ~Starts(written[count + 1]))
<1> DEFINE i == count + 1
           u == written[i]
<1>1. i \in 1 .. Len(written) /\ Ordered /\ Whole /\ AllFormed
  BY NextIs
<1>2. CASE firstSlice
  BY <1>2 DEF IsNewPicture
<1>3. CASE ~firstSlice
  <2>1. reader.held = Len(Code(i)) /\ reader.at = b[i] + reader.held
    BY <1>3 DEF Reading, Ahead
  <2>2. b[i] \in Nat /\ Len(Code(i)) \in Nat
    BY <1>1, CodeHere DEF Reading
  <2>3. Handed(reader) = b[i]
    BY <2>1, <2>2 DEF Handed
  <2>4. IsNewPicture = Look[b[i]]
    BY <1>3, <2>3, LookIs DEF IsNewPicture
  <2>5. /\ Look[b[i]] \in {"yes", "no"}
        /\ Starts(u) => Look[b[i]] = "yes"
        /\ Rank(u.type) >= 6 /\ ~Starts(u) => Look[b[i]] = "no"
    BY <1>1, LookSays DEF Reading
  <2> HIDE DEF i, u
  <2>6. "yes" # "no"
    OBVIOUS
  <2> QED
    BY <1>3, <2>4, <2>5, <2>6 DEF i, u
<1> QED
  BY <1>2, <1>3

(* Put back, the file is where the unit is or a byte later.                *)
LEMMA PutBackIs ==
  ASSUME NEW b, Reading(b)
  PROVE  Near(b, count + 1, PutBack)
<1> DEFINE i == count + 1
           c == Len(Code(i))
<1>1. b[i] \in Nat /\ c \in {3, 4}
  BY NextIs, CodeHere DEF Reading
<1>2. Ahead(b)
  BY DEF Reading
<1>3. CASE firstSlice
  <2>1. PutBack = reader.at - reader.held
    BY <1>3 DEF PutBack, Handed
  <2>2. CASE reader.held = c /\ reader.at = b[i] + reader.held
    <3> HIDE DEF c
    <3>1. PutBack = b[i]
      BY <1>1, <2>1, <2>2
    <3> QED
      BY <3>1 DEF Near
  <2>3. CASE reader.held = 0 /\ Near(b, i, reader.at)
    <3>1. reader.at \in Nat
      BY <1>1, <2>3 DEF Near
    <3>2. PutBack = reader.at
      BY <2>1, <2>3, <3>1
    <3> QED
      BY <2>3, <3>2
  <2> QED
    BY <1>2, <2>2, <2>3 DEF Ahead
<1>4. CASE ~firstSlice
  <2>1. reader.held = c /\ reader.at = b[i] + reader.held
    BY <1>2, <1>4 DEF Ahead
  <2>2. PutBack = reader.at - 3
    BY <1>4 DEF PutBack
  <2> HIDE DEF c
  <2>3. PutBack = b[i] \/ (PutBack = b[i] + 1 /\ c = 4)
    BY <1>1, <2>1, <2>2
  <2> QED
    BY <2>3 DEF Near, c
<1> QED
  BY <1>3, <1>4

(* A picture finished because the next begins,                             *)
LEMMA NewPictureKeeps ==
  ASSUME Inv, phase = "read", ~firstSlice, NewPicture
  PROVE  Inv' /\ Len(finished') > Len(finished)
<1>1. PICK b : Reading(b)
  BY ReadingIs
<1>2. Flags /\ Ordered /\ written \in Seq(Formed)
  BY DEF Inv
<1>3. ~firstInSeq /\ ~skipped
  <2>1. firstSlice = FALSE
    BY <1>2, Zenon DEF Flags
  <2> QED
    BY <1>2, <2>1, Zenon DEF Flags, Inside
<1>4. /\ reader' = [at |-> PutBack, held |-> 0, eof |-> FALSE]
      /\ finished' = Append(finished, picture) /\ picture' = {} /\ firstSlice' = TRUE
      /\ written' = written /\ file' = file /\ phase' = phase /\ target' = target
      /\ firstInSeq' = firstInSeq /\ skipped' = skipped /\ count' = count /\ taken' = taken
  BY <1>3 DEF NewPicture, Finish, writer
<1>5. Near(b, count + 1, PutBack)
  BY <1>1, PutBackIs
<1>6. Len(finished') = Len(finished) + 1 /\ Len(finished) \in Nat /\ finished' \in Seq(SUBSET Nat)
  BY <1>2, <1>4, AppendProperties DEF Flags
<1>7. Ordered'
  BY <1>2, <1>4 DEF Ordered, AllFormed
<1>8. Framed'
  <2>1. Laid(b)'
    BY <1>1, <1>4 DEF Reading, Laid, Code, Data
  <2>2. Ahead(b)'
    <3>1. firstSlice'
      BY <1>4, Zenon
    <3>2. reader'.held = 0 /\ reader'.at = PutBack
      BY <1>4
    <3>3. PICK p, i : p = PutBack /\ i = count + 1
      OBVIOUS
    <3>4. Near(b, i, p)'
      BY <1>4, <1>5, <3>3, Zenon DEF Near, Code
    <3>5. Near(b, count + 1, reader.at)'
      BY <1>4, <3>2, <3>3, <3>4, Zenon DEF Near, Code
    <3> QED
      BY <3>1, <3>2, <3>5 DEF Ahead
  <2> QED
    BY <2>1, <2>2 DEF Framed
<1>9. Flags'
  <2>1. phase = "read" /\ phase # "write" /\ phase # "done"
    OBVIOUS
  <2>2. firstSlice' \in BOOLEAN /\ firstInSeq' \in BOOLEAN /\ skipped' \in BOOLEAN /\ firstSlice' # FALSE
    BY <1>2, <1>4, Zenon DEF Flags
  <2>3. Whole' /\ target' \in {-1, 0}
    BY <1>2, <1>4, <2>1 DEF Flags, Whole
  <2>4. /\ count' \in Nat /\ count' <= Len(written') /\ count' < Len(written')
        /\ count' > 0 => taken'.nal = NalHeader(written'[count']) \o Rbsp(written'[count'])
    BY <1>2, <1>4, <2>1 DEF Flags
  <2>4a. count' > 0 /\ IsSlice(written'[count']) => taken'.subs = Substreamed(Data(count)', written'[count'])
    BY <1>2, <1>4, Zenon DEF Flags, Data
  <2>5. picture' \in SUBSET Nat
    BY <1>4
  <2> QED
    BY <1>4, <1>6, <2>1, <2>2, <2>3, <2>4, <2>4a, <2>5, Zenon DEF Flags
<1> QED
  BY <1>2, <1>4, <1>6, <1>7, <1>8, <1>9 DEF Inv

(* What a unit leaves the decoder amid.                                    *)
LEMMA RoundKeeps ==
  ASSUME Inv, NEW b, Reading(b), ~firstSlice => ~Starts(written[count + 1]), NEW e,
         count' = count + 1, written' = written, target' = target,
         Round(written[count + 1].type \in SliceTypes,
               ~InTarget(TemporalId(written[count + 1])), e)
  PROVE  /\ firstSlice' \in BOOLEAN /\ firstInSeq' \in BOOLEAN /\ skipped' \in BOOLEAN
         /\ picture' \in SUBSET Nat /\ finished' \in Seq(SUBSET Nat)
         /\ firstSlice' = FALSE => Inside'
<1> DEFINE i == count + 1
           u == written[i]
           slice == u.type \in SliceTypes
           left  == ~InTarget(TemporalId(u))
           units == IF (slice /\ ~left) \/ (~left /\ ~firstSlice) THEN picture \cup {count'} ELSE picture
<1>1. /\ firstInSeq' = (firstInSeq /\ ~(slice /\ ~left))
      /\ skipped' = (left \/ (skipped /\ ~slice))
      /\ \/ finished' = Append(finished, units) /\ picture' = {} /\ firstSlice' = TRUE
         \/ /\ picture' = units
            /\ firstSlice' = ((firstSlice /\ ~(slice /\ ~left)) \/ (e /\ firstInSeq'))
            /\ finished' = finished
  BY Zenon DEF Round, Finish, SkippedAfter
<1>2. Flags /\ Ordered /\ i \in 1 .. Len(written) /\ WellFormed(u) /\ count \in Nat /\ Len(written) \in Nat
  BY NextIs DEF Inv
<1>3. firstSlice' \in BOOLEAN /\ firstInSeq' \in BOOLEAN /\ skipped' \in BOOLEAN
  BY <1>1, Zenon
<1>4. picture' \in SUBSET Nat /\ finished' \in Seq(SUBSET Nat)
  <2>1. units \in SUBSET Nat
    BY <1>2 DEF Flags
  <2> HIDE DEF units
  <2>2. Append(finished, units) \in Seq(SUBSET Nat) /\ finished \in Seq(SUBSET Nat)
    BY <1>2, <2>1, AppendProperties DEF Flags
  <2> QED
    BY <1>1, <2>1, <2>2
<1>5. ASSUME firstSlice' = FALSE
      PROVE  Inside'
  <2>1. ~firstSlice \/ (slice /\ ~left)
    BY <1>1, <1>5, Zenon
  <2>2. /\ u.type \in WrittenTypes
        /\ Rank(u.type) \in 1 .. 7
        /\ Rank(u.type) = 6 <=> slice
        /\ Rank(u.type) = 7 <=> u.type = SuffixSEI
    BY <1>2, RankIs DEF WellFormed
  <2>3. Rank(u.type) >= 6 => TemporalId(u) = u.tid
    <3>1. u.type \in ParameterSets => u.type # SuffixSEI /\ ~slice
      BY DEF ParameterSets, SuffixSEI, SliceTypes
    <3> HIDE DEF u, slice
    <3>2. Rank(u.type) >= 6 => u.type = SuffixSEI \/ slice
      BY <2>2
    <3> QED
      BY <3>1, <3>2 DEF TemporalId
  <2>4. ~firstInSeq' /\ ~skipped' /\ Rank(u.type) >= 6 /\ InTarget(u.tid)
    <3>1. CASE slice /\ ~left
      <4>1. ~firstInSeq' /\ ~skipped'
        BY <1>1, <3>1, Zenon
      <4>2. Rank(u.type) = 6
        BY <2>2, <3>1
      <4>3. Rank(u.type) >= 6
        BY <4>2
      <4> QED
        BY <2>3, <3>1, <4>1, <4>3
    <3>2. CASE ~firstSlice /\ ~(slice /\ ~left)
      <4>1. ~Starts(u)
        BY <3>2
      <4>2. Rank(u.type) >= 6 /\ (slice => ~WithPictureHeader(u))
        BY <2>2, <4>1 DEF Starts, IsSlice
      <4>3. /\ ~firstInSeq /\ ~skipped /\ count > 0 /\ InTarget(written[count].tid)
        <5>1. firstSlice = FALSE
          BY <1>2, <3>2, Zenon DEF Flags
        <5> QED
          BY <1>2, <5>1, Zenon DEF Flags, Inside
      <4>4. ~u.first
        <5>1. u.first => u.type # SuffixSEI /\ (slice => WithPictureHeader(u))
          BY <1>2 DEF Ordered, Begins, IsSlice
        <5>2. u.type = SuffixSEI \/ slice
          BY <2>2, <4>2
        <5> QED
          BY <4>2, <5>1, <5>2
      <4>5. u.tid = written[count].tid
        <5>1. i - 1 = count
          BY <1>2
        <5>2. Follows(written[i - 1], u)
          BY <1>2, <4>4 DEF Ordered
        <5> QED
          BY <5>1, <5>2 DEF Follows
      <4>6. ~left
        BY <2>3, <4>2, <4>3, <4>5
      <4>7. ~firstInSeq' /\ ~skipped'
        BY <1>1, <4>3, <4>6, Zenon
      <4> QED
        BY <4>2, <4>3, <4>5, <4>7
    <3> QED
      BY <2>1, <3>1, <3>2, Zenon
  <2>5. firstInSeq' = FALSE /\ skipped' = FALSE
    BY <1>3, <2>4, Zenon
  <2>6. count' > 0 /\ written'[count'] = u
    BY <1>2
  <2>7. PICK t : t = u.tid
    OBVIOUS
  <2>8. InTarget(t)'
    BY <2>4, <2>7 DEF InTarget
  <2> HIDE DEF u
  <2> QED
    BY <2>4, <2>5, <2>6, <2>7, <2>8 DEF Inside, InTarget
<1> QED
  BY <1>3, <1>4, <1>5

(* a unit taken,                                                           *)
LEMMA TakeUnitKeeps ==
  ASSUME Inv, NEW b, Reading(b), ~firstSlice => ~Starts(written[count + 1]), TakeUnit(FALSE)
  PROVE  Inv' /\ count' = count + 1
<1>1. PICK i : i = count + 1
  OBVIOUS
<1>2. PICK u : u = written[i]
  OBVIOUS
<1>3. PICK q : q = NalHeader(u) \o Rbsp(u)
  OBVIOUS
<1>4. PICK r : r = NextUnit(PutBack)
  OBVIOUS
<1>5. /\ Flags /\ Ordered /\ Whole /\ AllFormed /\ written \in Seq(Formed)
      /\ i \in 1 .. Len(written) /\ WellFormed(u) /\ count \in Nat /\ Len(written) \in Nat
  BY <1>1, <1>2, NextIs DEF Inv
<1>6. IsUnit(b, i, r)
  BY <1>1, <1>4, <1>5, PutBackIs, NextUnitHere DEF Reading
<1>7. /\ Convertible(r.unit) /\ r.unit # << >>
      /\ Converted(r.unit) = q
  BY <1>2, <1>3, <1>5, <1>6, LookHere DEF Reading, IsUnit
<1>8. TypeOf(q) = u.type /\ TidOf(q) = TemporalId(u)
  BY <1>3, <1>5, NalOk
<1>9. /\ reader' = [at |-> r.at, held |-> r.held, eof |-> r.eof]
      /\ phase' = IF r.eof THEN "done" ELSE "read"
      /\ Take(r.unit, q) /\ Round(TypeOf(q) \in SliceTypes, ~InTarget(TidOf(q)), r.eof)
      /\ written' = written /\ file' = file /\ target' = target
  <2>1. /\ reader' = [at |-> r.at, held |-> r.held, eof |-> r.eof]
        /\ phase' = IF FALSE \/ (r.unit # <<>> /\ ~Convertible(r.unit)) THEN "failed"
                    ELSE IF r.eof THEN "done" ELSE "read"
        /\ IF phase' = "failed" THEN UNCHANGED <<decoder, count, taken>>
           ELSE IF r.unit = <<>>
           THEN UNCHANGED <<count, taken>> /\ Round(FALSE, FALSE, r.eof)
           ELSE Take(r.unit, q) /\ Round(TypeOf(q) \in SliceTypes, ~InTarget(TidOf(q)), r.eof)
        /\ UNCHANGED <<writer, target>>
    BY <1>4, <1>7 DEF TakeUnit
  <2>2. phase' = IF r.eof THEN "done" ELSE "read"
    BY <1>7, <2>1
  <2>3. phase' # "failed"
    BY <2>2
  <2>4. Take(r.unit, q) /\ Round(TypeOf(q) \in SliceTypes, ~InTarget(TidOf(q)), r.eof)
    BY <1>7, <2>1, <2>3
  <2> QED
    BY <2>1, <2>2, <2>4 DEF writer
<1>10. count' = count + 1 /\ count' = i /\ taken'.nal = q
  BY <1>1, <1>9 DEF Take
<1>11. /\ firstSlice' \in BOOLEAN /\ firstInSeq' \in BOOLEAN /\ skipped' \in BOOLEAN
       /\ picture' \in SUBSET Nat /\ finished' \in Seq(SUBSET Nat)
       /\ firstSlice' = FALSE => Inside'
  BY <1>1, <1>2, <1>8, <1>9, <1>10, RoundKeeps
<1>12. Ordered' /\ Whole' /\ written' \in Seq(Formed)
  BY <1>5, <1>9 DEF Ordered, AllFormed, Whole
<1>13. r.eof <=> i = Len(written)
  BY <1>6 DEF IsUnit
<1>14. Framed'
  <2>1. Laid(b)'
    BY <1>9 DEF Reading, Laid, Code, Data
  <2>2. ASSUME phase' = "read"
        PROVE  Ahead(b)'
    <3>1. ~r.eof
      BY <1>9, <2>2
    <3>2. r.held = Len(Code(i + 1)) /\ r.at = b[i + 1] + r.held
      BY <1>6, <3>1 DEF IsUnit
    <3>3. Code(count + 1)' = Code(i + 1)
      BY <1>9, <1>10 DEF Code
    <3>4. reader'.held = Len(Code(count + 1)') /\ reader'.at = b[count' + 1] + reader'.held
      BY <1>9, <1>10, <3>2, <3>3
    <3> QED
      BY <3>4 DEF Ahead
  <2> QED
    BY <2>1, <2>2 DEF Framed
<1>15. Flags'
  <2>1. phase' \in {"write", "read", "done"} /\ phase' # "write"
    BY <1>9
  <2>2. phase' = "read" => count' < Len(written')
    BY <1>5, <1>9, <1>10, <1>13
  <2>3. phase' = "done" => count' = Len(written')
    BY <1>5, <1>9, <1>10, <1>13
  <2>4. phase' # "write" => Whole' /\ target' \in {-1, 0}
    <3>1. phase # "write"
      BY DEF Reading
    <3> QED
      BY <1>5, <1>9, <1>12, <3>1 DEF Flags
  <2>5. count' \in Nat /\ count' <= Len(written')
    BY <1>5, <1>9, <1>10
  <2>6. count' > 0 => taken'.nal = NalHeader(written'[count']) \o Rbsp(written'[count'])
    BY <1>2, <1>3, <1>9, <1>10
  <2>7. count' > 0 /\ IsSlice(written'[count']) => taken'.subs = Substreamed(Data(count)', written'[count'])
    <3>1. r.unit = Data(count)'
      BY <1>6, <1>9, <1>10 DEF IsUnit, Data
    <3>2. taken'.subs = IF TypeOf(q) \in SliceTypes /\ count' <= Len(written)
                        THEN Substreamed(r.unit, written[count']) ELSE <<>>
      BY <1>9 DEF Take
    <3>3. count' <= Len(written)
      BY <1>5, <1>10
    <3>4. u.type \in SliceTypes => taken'.subs = Substreamed(r.unit, written[i])
      BY <1>8, <1>10, <3>2, <3>3
    <3> QED
      BY <1>2, <1>9, <1>10, <3>1, <3>4, Zenon DEF IsSlice
  <2> QED
    BY <1>11, <2>1, <2>2, <2>3, <2>4, <2>5, <2>6, <2>7, Zenon DEF Flags
<1> QED
  BY <1>10, <1>12, <1>14, <1>15 DEF Inv

(* either of them; both get ahead.                                         *)
LEMMA ReadKeeps ==
  ASSUME Inv, Read
  PROVE  Inv' /\ (count' > count \/ Len(finished') > Len(finished))
<1>1. phase = "read"
  BY DEF Read
<1>2. PICK b : Reading(b)
  BY <1>1, ReadingIs
<1>3. count \in Nat
  BY <1>2, NextIs
<1>4. /\ IsNewPicture \in {"yes", "no"}
      /\ IsNewPicture = "yes" => ~firstSlice
      /\ ~firstSlice /\ IsNewPicture = "no" => ~Starts(written[count + 1])
  BY <1>2, NewPictureIs
<1>5. CASE IsNewPicture = "yes" /\ NewPicture
  BY <1>1, <1>4, <1>5, NewPictureKeeps
<1>6. CASE IsNewPicture # "yes" /\ TakeUnit(IsNewPicture = "fault")
  <2>1. IsNewPicture = "no"
    BY <1>4, <1>6
  <2>2. (IsNewPicture = "fault") = FALSE
    BY <2>1
  <2>3. TakeUnit(FALSE)
    BY <1>6, <2>2, Zenon
  <2>4. Inv' /\ count' = count + 1
    BY <1>2, <1>4, <2>1, <2>3, TakeUnitKeeps
  <2> QED
    BY <1>3, <2>4
<1> QED
  BY <1>5, <1>6 DEF Read

(* Every step.                                                             *)
LEMMA NextKeeps ==
  ASSUME Inv, [Next]_vars
  PROVE  Inv'
<1>1. written \in Seq(Formed)
  BY DEF Inv
<1>2. CASE WriteSlice
  BY <1>1, <1>2, WriteSliceIs, WriteKeeps
<1>3. CASE WriteOther
  BY <1>1, <1>3, WriteOtherIs, WriteKeeps
<1>4. CASE CloseFile
  BY <1>4, CloseKeeps
<1>5. CASE Read
  BY <1>5, ReadKeeps
<1>6. CASE UNCHANGED vars
  <2>1. /\ written' = written /\ file' = file /\ phase' = phase /\ target' = target
        /\ reader' = reader /\ firstSlice' = firstSlice /\ firstInSeq' = firstInSeq
        /\ skipped' = skipped /\ picture' = picture /\ finished' = finished
        /\ count' = count /\ taken' = taken
    BY <1>6 DEF vars, decoder
  <2>2. Ordered'
    BY <2>1 DEF Inv, Ordered, AllFormed
  <2>3. Framed'
    <3>1. PICK b : Laid(b) /\ (phase = "read" => Ahead(b))
      BY DEF Inv, Framed
    <3>2. Laid(b)' /\ (phase' = "read" => Ahead(b)')
      BY <2>1, <3>1 DEF Laid, Code, Data, Ahead, Near
    <3> QED
      BY <3>2 DEF Framed
  <2>4. Flags'
    <3>1. Data(count)' = Data(count)
      BY <2>1 DEF Data
    <3>2. Whole' <=> Whole
      BY <2>1 DEF Whole
    <3>3. Fresh' <=> Fresh
      BY <2>1, Zenon DEF Fresh
    <3>4. Inside' <=> Inside
      BY <2>1, Zenon DEF Inside, InTarget
    <3>5. Flags
      BY DEF Inv
    <3> QED
      BY <2>1, <3>1, <3>2, <3>3, <3>4, <3>5, Zenon DEF Flags
  <2> QED
    BY <2>1, <2>2, <2>3, <2>4 DEF Inv
<1> QED
  BY <1>2, <1>3, <1>4, <1>5, <1>6 DEF Next, Done

(* Written and read in any way, the file is made of whole units in their   *)
(* order, each somewhere in its bytes, and the reader is always at one of  *)
(* them with the flags of the main loop in step with it.                   *)
THEOREM Invariance == Spec => []Inv
<1>1. Init => Inv
  BY InitOk
<1>2. Inv /\ [Next]_vars => Inv'
  BY NextKeeps
<1> QED
  BY <1>1, <1>2, PTL DEF Spec

(* Whatever the units are, and however many: the decoder takes each of     *)
(* them once, in order, as it was before it was escaped and padded, and no *)
(* CHECK of convertPayloadToRBSP fires, in the main loop or in the look-   *)
(* ahead.                                                                  *)
THEOREM UnitsArriveAlways == Spec => []UnitsArrive
<1>1. Inv => UnitsArrive
  <2> SUFFICES ASSUME Flags
               PROVE  UnitsArrive
    BY DEF Inv
  <2> QED
    BY DEF Flags, UnitsArrive
<1> QED
  BY Invariance, <1>1, PTL

(* No round of the main loop is without a unit or a picture: what          *)
(* isNewPicture puts back is less than what was read.                      *)
THEOREM LoopAdvancesAlways == Spec => LoopAdvances
<1>1. Inv /\ [Next]_vars => [phase = "read" => count' > count \/ Len(finished') > Len(finished)]_vars
  <2> SUFFICES ASSUME Inv, Next, phase = "read"
               PROVE  count' > count \/ Len(finished') > Len(finished) \/ UNCHANGED vars
    BY Zenon
  <2> QED
    BY ReadKeeps DEF Next, WriteSlice, WriteOther, CloseFile, Done
<1> QED
  BY Invariance, <1>1, PTL DEF Spec, LoopAdvances

----------------------------------------------------------------------------
(* Where the bytes of a unit are in the file.                              *)

(* As many more members as numbers at most.                                *)
LEMMA Counting ==
  ASSUME NEW S \in SUBSET Nat, NEW p \in Nat, NEW q \in Nat, p <= q
  PROVE  /\ Cardinality(S \cap 1 .. p) \in Nat /\ Cardinality(S \cap 1 .. q) \in Nat
         /\ Cardinality(S \cap p + 1 .. q) \in 0 .. q - p
         /\ Cardinality(S \cap 1 .. q) = Cardinality(S \cap 1 .. p) + Cardinality(S \cap p + 1 .. q)
<1> DEFINE A == S \cap 1 .. p
           B == S \cap p + 1 .. q
<1>1. /\ IsFiniteSet(1 .. p) /\ IsFiniteSet(p + 1 .. q)
      /\ Cardinality(p + 1 .. q) = q - p
  <2>1. IsFiniteSet(1 .. p) /\ IsFiniteSet(p + 1 .. q)
    BY FS_Interval
  <2>2. Cardinality(p + 1 .. q) = IF p + 1 > q THEN 0 ELSE q - (p + 1) + 1
    BY FS_Interval
  <2> QED
    BY <2>1, <2>2
<1>2. /\ IsFiniteSet(A) /\ IsFiniteSet(B) /\ Cardinality(B) <= Cardinality(p + 1 .. q)
  BY <1>1, FS_Subset
<1>3. Cardinality(A) \in Nat /\ Cardinality(B) \in Nat
  BY <1>2, FS_CardinalityType
<1>4. A \cup B = S \cap 1 .. q /\ A \cap B = {}
  OBVIOUS
<1>5. Cardinality(A \cup B) = Cardinality(A) + Cardinality(B) - Cardinality(A \cap B)
  BY <1>2, FS_Union
<1>6. Cardinality({}) = 0
  BY FS_EmptySet
<1> DEFINE a == Cardinality(A)
           b == Cardinality(B)
           c == Cardinality(S \cap 1 .. q)
<1>7. c = a + b - 0
  BY <1>4, <1>5, <1>6
<1>8. b <= q - p
  BY <1>1, <1>2
<1>9. a \in Nat /\ b \in Nat
  BY <1>3
<1> HIDE DEF a, b, c
<1>10. a \in Nat /\ c \in Nat /\ b \in 0 .. q - p /\ c = a + b
  BY <1>7, <1>8, <1>9
<1> QED
  BY <1>10 DEF a, b, c

(* Bytes behind do not make an escape of one before.                       *)
LEMMA EscapesBegun ==
  ASSUME NEW e, NEW d, Begun(e, d)
  PROVE  Escapes(d) \cap 1 .. Len(e) = Escapes(e)
<1>1. /\ Len(e) \in Nat /\ Len(d) \in Nat /\ Len(e) <= Len(d)
      /\ DOMAIN e = 1 .. Len(e) /\ DOMAIN d = 1 .. Len(d)
      /\ \A i \in 1 .. Len(e) : d[i] = e[i]
  BY DEF Begun
<1>2. ASSUME NEW i \in 1 .. Len(e)
      PROVE  AfterTwoZeros(d, i) <=> AfterTwoZeros(e, i)
  <2>1. i > 2 => i - 1 \in 1 .. Len(e) /\ i - 2 \in 1 .. Len(e)
    BY <1>1
  <2> QED
    BY <1>1, <2>1 DEF AfterTwoZeros
<1>3. \A i \in 1 .. Len(e) : i \in DOMAIN d
  BY <1>1
<1> QED
  BY <1>1, <1>2, <1>3, Zenon DEF Escapes

(* What begins the beginning begins the whole.                             *)
LEMMA BegunGoesOn ==
  ASSUME NEW e, NEW d, NEW v, Begun(e, d), Begun(d, v)
  PROVE  Begun(e, v)
<1>1. Len(e) \in Nat /\ Len(d) \in Nat /\ Len(v) \in Nat /\ Len(e) <= Len(d) /\ Len(d) <= Len(v)
  BY DEF Begun
<1>2. \A i \in 1 .. Len(e) : i \in 1 .. Len(d)
  BY <1>1
<1> QED
  BY <1>1, <1>2 DEF Begun

\* byte i of the contents is the p[i]th of the unit
Spread(d, r, z, p) ==
  /\ d \in Seq(Byte) /\ r \in Seq(Byte)
  /\ z[0] = 0 /\ \A i \in 1 .. Len(r) : z[i] = NextZeros(z[i - 1], r[i])
  /\ \A i \in 0 .. Len(r) : /\ z[i] \in 0 .. 2
                            /\ p[i] \in Nat /\ p[i] <= Len(d) /\ p[i] >= 2 + i
                            /\ p[i] \notin Escapes(d)
                            /\ Cardinality(Escapes(d) \cap 1 .. p[i]) + 2 + i = p[i]
  /\ \A i \in 1 .. Len(r) : p[i] = p[i - 1] + (IF z[i - 1] = 2 /\ r[i] <= 3 THEN 2 ELSE 1)

(* A byte is put as it is or with an escape in front.                      *)
LEMMA PutLength ==
  ASSUME NEW z, NEW x \in Byte
  PROVE  Put(z, x) \in Seq(Byte) /\ Len(Put(z, x)) = IF z = 2 /\ x <= 3 THEN 2 ELSE 1
<1>1. 3 \in Byte
  BY DEF Byte
<1>2. <<3, x>> \in Seq(Byte) /\ Len(<<3, x>>) = 2
  BY <1>1
<1>3. <<x>> \in Seq(Byte) /\ Len(<<x>>) = 1
  OBVIOUS
<1> QED
  BY <1>2, <1>3 DEF Put

(* Every unit is spread like that.                                         *)
LEMMA SpreadIs ==
  ASSUME NEW u, WellFormed(u)
  PROVE  \E z, p : Spread(NalData(u), Rbsp(u), z, p)
<1> DEFINE h == NalHeader(u)
           r == Rbsp(u)
           d == NalData(u)
           n == Len(r)
           e(i) == After(h, r, i)
<1>1. /\ r \in Seq(Byte) /\ n \in Nat /\ h \in Seq(Byte) /\ Len(h) = 2 /\ Good(h, 0, h)
      /\ Begun(e(n), d)
  BY RbspOk, HeaderOk, NalDataOk
<1>2. PICK z : z = ZerosOf(r)
  OBVIOUS
<1>3. PICK p : p = [i \in 0 .. n |-> Len(e(i))]
  OBVIOUS
<1>4. /\ Puts(r) \in Seq(Seq(Byte)) /\ Len(Puts(r)) = n
      /\ \A i \in 0 .. n : Good(e(i), z[i], h \o SubSeq(r, 1, i))
  BY <1>1, <1>2, Escaping
<1> HIDE DEF h, r, d, n
<1>5. z[0] = 0 /\ \A i \in 1 .. n : z[i] = NextZeros(z[i - 1], r[i])
  <2>1. IsZeros(z, r, n)
    BY <1>1, <1>2, ZerosExist DEF n
  <2>2. \A i \in 0 .. n : z[i] = IF i = 0 \/ r[i] # 0 THEN 0 ELSE IF z[i - 1] = 1 THEN 2 ELSE 1
    BY <2>1 DEF IsZeros
  <2>3. \A i \in 1 .. n : i \in 0 .. n /\ i # 0
    BY <1>1
  <2>4. 0 \in 0 .. n
    BY <1>1
  <2> QED
    BY <2>2, <2>3, <2>4 DEF NextZeros
<1>6. \A i \in 1 .. n : r[i] \in Byte /\ Puts(r)[i] = Put(z[i - 1], r[i])
  BY <1>1, <1>2 DEF Puts, n
<1>7. ASSUME NEW i \in 1 .. n
      PROVE  e(i) = e(i - 1) \o Put(z[i - 1], r[i])
  <2>1. i - 1 \in 0 .. n /\ i \in 1 .. Len(Puts(r)) /\ i - 1 \in 0 .. Len(Puts(r))
    BY <1>1, <1>4
  <2>2. FrontOf(Puts(r), i) = FrontOf(Puts(r), i - 1) \o Puts(r)[i] /\ FrontOf(Puts(r), i - 1) \in Seq(Byte)
    BY <1>4, <2>1, Fronts
  <2>3. Puts(r)[i] = Put(z[i - 1], r[i]) /\ Put(z[i - 1], r[i]) \in Seq(Byte)
    BY <1>6, PutLength
  <2>4. h \o (FrontOf(Puts(r), i - 1) \o Puts(r)[i]) = (h \o FrontOf(Puts(r), i - 1)) \o Puts(r)[i]
    <3>1. h \in Seq(Byte) /\ FrontOf(Puts(r), i - 1) \in Seq(Byte) /\ Puts(r)[i] \in Seq(Byte)
      BY <1>1, <2>2, <2>3
    <3> QED
      BY <3>1, ByteAssociative, Zenon
  <2>5. e(i) = h \o (FrontOf(Puts(r), i - 1) \o Puts(r)[i]) /\ e(i - 1) = h \o FrontOf(Puts(r), i - 1)
    BY <2>2 DEF After
  <2> QED
    BY <2>3, <2>4, <2>5
<1> HIDE DEF e
<1>8. \A i \in 0 .. n : e(i) \in Seq(Byte) /\ z[i] \in 0 .. 2
  BY <1>4 DEF Good
<1>9. ASSUME NEW i \in 1 .. n
      PROVE  /\ Begun(e(i - 1), e(i))
             /\ Len(e(i)) = Len(e(i - 1)) + (IF z[i - 1] = 2 /\ r[i] <= 3 THEN 2 ELSE 1)
  <2>1. i - 1 \in 0 .. n
    BY <1>1
  <2>2. e(i - 1) \in Seq(Byte)
    BY <1>8, <2>1
  <2>3. Put(z[i - 1], r[i]) \in Seq(Byte) /\ Len(Put(z[i - 1], r[i])) = IF z[i - 1] = 2 /\ r[i] <= 3 THEN 2 ELSE 1
    BY <1>6, PutLength
  <2> DEFINE s == Put(z[i - 1], r[i])
             v == e(i - 1)
  <2> HIDE DEF s, v
  <2>4. Begun(v, v \o s) /\ Len(v \o s) = Len(v) + Len(s)
    BY <2>2, <2>3, BegunConcat, ByteConcat, Zenon DEF s, v
  <2>5. e(i) = v \o s
    BY <1>7 DEF s, v
  <2> QED
    BY <2>3, <2>4, <2>5 DEF s, v
<1>10. \A i \in 0 .. n : Begun(e(i), d)
  <2> DEFINE S == {m \in Nat : m <= n => Begun(e(n - m), d)}
  <2>1. 0 \in S
    BY <1>1
  <2>2. ASSUME NEW m \in S
        PROVE  m + 1 \in S
    <3>1. SUFFICES ASSUME m + 1 <= n
                   PROVE  Begun(e(n - (m + 1)), d)
      BY <2>2
    <3>2. m \in Nat /\ m <= n /\ n - m \in 1 .. n /\ (n - m) - 1 = n - (m + 1)
      BY <1>1, <2>2, <3>1
    <3>3. Begun(e(n - m), d)
      BY <2>2, <3>2
    <3>4. Begun(e((n - m) - 1), e(n - m))
      BY <1>9, <3>2
    <3> QED
      BY <3>2, <3>3, <3>4, BegunGoesOn
  <2>3. S = Nat
    <3> HIDE DEF S
    <3>1. S \in SUBSET Nat
      BY DEF S
    <3> QED
      BY <2>1, <2>2, <3>1, Induction
  <2> TAKE i \in 0 .. n
  <2>4. n - i \in Nat /\ n - i <= n /\ n - (n - i) = i
    BY <1>1
  <2>5. n - i \in S
    BY <2>3, <2>4
  <2> QED
    BY <2>4, <2>5
<1>11. ASSUME NEW i \in 0 .. n
       PROVE  /\ p[i] \in Nat /\ p[i] <= Len(d) /\ p[i] >= 2 + i
              /\ p[i] \notin Escapes(d)
              /\ Cardinality(Escapes(d) \cap 1 .. p[i]) + 2 + i = p[i]
  <2> DEFINE x == e(i)
             k == h \o SubSeq(r, 1, i)
  <2>1. p[i] = Len(x)
    BY <1>3
  <2>2. /\ x \in Seq(Byte) /\ Len(x) >= 2 /\ Len(x) \notin Escapes(x)
        /\ Cardinality(Escapes(x)) + Len(k) = Len(x)
    BY <1>4 DEF Good
  <2>3. Len(k) = 2 + i
    <3>1. SubSeq(r, 1, i) \in Seq(Byte) /\ Len(SubSeq(r, 1, i)) = i
      <4>1. \A j \in 1 .. i : r[j] \in Byte
        BY <1>1, <1>6
      <4>2. i \in Nat
        BY <1>1
      <4> QED
        BY <4>1, <4>2, SubSeqProperties
    <3>2. Len(k) = Len(h) + Len(SubSeq(r, 1, i))
      BY <1>1, <3>1, ByteConcat, Zenon
    <3> QED
      BY <1>1, <3>1, <3>2
  <2>4. Begun(x, d)
    BY <1>10
  <2> HIDE DEF x, k
  <2>5. Escapes(d) \cap 1 .. Len(x) = Escapes(x)
    BY <2>4, EscapesBegun
  <2>6. Len(x) \in Nat /\ Len(x) <= Len(d) /\ Len(x) \in 1 .. Len(x)
    BY <2>2, <2>4 DEF Begun
  <2>7. Cardinality(Escapes(x)) \in Nat
    <3>1. IsFiniteSet(1 .. Len(x))
      BY <2>6, FS_Interval
    <3>2. Escapes(x) \subseteq 1 .. Len(x)
      BY <2>5
    <3> QED
      BY <3>1, <3>2, FS_Subset, FS_CardinalityType
  <2>8. Len(x) \notin Escapes(d)
    BY <2>2, <2>5, <2>6
  <2>9. Cardinality(Escapes(x)) + 2 + i = Len(x) /\ Len(x) >= 2 + i
    <3> DEFINE c == Cardinality(Escapes(x))
    <3>1. c + Len(k) = Len(x) /\ c \in Nat /\ i \in Nat
      BY <1>1, <2>2, <2>7
    <3> HIDE DEF c
    <3>2. c + 2 + i = Len(x) /\ Len(x) >= 2 + i
      BY <2>3, <2>6, <3>1
    <3> QED
      BY <3>2 DEF c
  <2> QED
    BY <2>1, <2>5, <2>6, <2>8, <2>9
<1>12. ASSUME NEW i \in 1 .. n
       PROVE  p[i] = p[i - 1] + (IF z[i - 1] = 2 /\ r[i] <= 3 THEN 2 ELSE 1)
  <2>1. i \in 0 .. n /\ i - 1 \in 0 .. n
    BY <1>1
  <2>2. p[i] = Len(e(i)) /\ p[i - 1] = Len(e(i - 1))
    BY <1>3, <2>1
  <2> QED
    BY <1>9, <2>2
<1>13. d \in Seq(Byte)
  BY <1>1 DEF Begun
<1>14. Spread(d, r, z, p)
  BY <1>1, <1>5, <1>8, <1>11, <1>12, <1>13 DEF Spread, n
<1> QED
  BY <1>14 DEF d, r

----------------------------------------------------------------------------
(* What the sizes in a slice header count.                                 *)

\* where byte j is, with the escapes before it
At(d, p, j) ==
  /\ j \in Nat /\ p[j] \in Nat /\ p[j] >= 2 + j /\ p[j] \notin Escapes(d)
  /\ Cardinality(Escapes(d) \cap 1 .. p[j]) + 2 + j = p[j]

(* The bytes in front of a byte are the escapes, the header and the bytes  *)
(* before it.                                                              *)
LEMMA SpreadAt ==
  ASSUME NEW d, NEW r, NEW z, NEW p, Spread(d, r, z, p)
  PROVE  /\ d \in Seq(Byte) /\ r \in Seq(Byte) /\ Len(r) \in Nat
         /\ \A i \in 0 .. Len(r) : At(d, p, i) /\ z[i] \in 0 .. 2
<1>1. d \in Seq(Byte) /\ r \in Seq(Byte)
  BY DEF Spread
<1>2. Len(r) \in Nat
  BY <1>1
<1>3. \A i \in 0 .. Len(r) : i \in Nat
  BY <1>2
<1>4. \A i \in 0 .. Len(r) : At(d, p, i) /\ z[i] \in 0 .. 2
  BY <1>3, Zenon DEF Spread, At
<1> QED
  BY <1>1, <1>2, <1>4

(* Bytes stay in their order.                                              *)
LEMMA SpreadGrows ==
  ASSUME NEW d, NEW r, NEW z, NEW p, Spread(d, r, z, p), NEW a \in 0 .. Len(r)
  PROVE  \A c \in a .. Len(r) : p[a] <= p[c]
<1> DEFINE S == {m \in Nat : a + m <= Len(r) => p[a] <= p[a + m]}
<1>1. Len(r) \in Nat /\ a \in Nat /\ \A i \in 0 .. Len(r) : p[i] \in Nat
  BY SpreadAt DEF At
<1>2. 0 \in S
  BY <1>1
<1>3. ASSUME NEW m \in S
      PROVE  m + 1 \in S
  <2>1. SUFFICES ASSUME a + (m + 1) <= Len(r)
                 PROVE  p[a] <= p[a + (m + 1)]
    BY <1>3
  <2>2. /\ m \in Nat /\ a + m \in 0 .. Len(r) /\ a + (m + 1) \in 1 .. Len(r) /\ a + (m + 1) \in 0 .. Len(r)
        /\ (a + (m + 1)) - 1 = a + m /\ a + m <= Len(r)
    BY <1>1, <1>3, <2>1
  <2>3. p[a] <= p[a + m]
    BY <1>3, <2>2
  <2>4. p[a + (m + 1)] = p[a + m] + (IF z[a + m] = 2 /\ r[a + (m + 1)] <= 3 THEN 2 ELSE 1)
    BY <2>2 DEF Spread
  <2>5. p[a] \in Nat /\ p[a + m] \in Nat
    BY <1>1, <2>2
  <2>6. PICK x, y : x = p[a] /\ y = p[a + m]
    OBVIOUS
  <2>7. x \in Nat /\ y \in Nat /\ x <= y
    BY <2>3, <2>5, <2>6
  <2>8. x <= y + 1 /\ x <= y + 2
    BY ONLY <2>7
  <2>9. p[a + (m + 1)] = y + 1 \/ p[a + (m + 1)] = y + 2
    BY <2>4, <2>6
  <2> QED
    BY <2>6, <2>8, <2>9
<1>4. S = Nat
  <2> HIDE DEF S
  <2>1. S \in SUBSET Nat
    BY DEF S
  <2> QED
    BY <1>2, <1>3, <2>1, Induction
<1> TAKE c \in a .. Len(r)
<1>5. c - a \in Nat /\ a + (c - a) = c
  BY <1>1
<1>6. c - a \in S
  BY <1>4, <1>5
<1> QED
  BY <1>5, <1>6

(* parseSliceHeader ends where the byte behind the header is put.          *)
LEMMA EndOfHeaderIs ==
  ASSUME NEW d, NEW r, NEW z, NEW p, Spread(d, r, z, p), NEW i \in 0 .. Len(r)
  PROVE  EndOfHeader(d, 2 + i) = p[i]
<1>a. Len(r) \in Nat /\ d \in Seq(Byte) /\ At(d, p, i)
  BY SpreadAt
<1> DEFINE E == Escapes(d)
           n == 2 + i
           y == p[i]
           c == Cardinality(E \cap 1 .. y)
           X == {x \in E : x - 1 < n + Cardinality(E \cap 1 .. x - 1)}
<1>1. /\ d \in Seq(Byte) /\ y \in Nat /\ y >= 2 + i /\ y \notin E /\ c + 2 + i = y
      /\ Len(r) \in Nat /\ i \in Nat /\ n \in Nat
  <2>1. /\ d \in Seq(Byte) /\ y \in Nat /\ y >= 2 + i /\ y \notin E /\ c + 2 + i = y
        /\ Len(r) \in Nat /\ i \in Nat
    BY <1>a, Zenon DEF At
  <2> QED
    BY <2>1
<1>2. E \in SUBSET Nat /\ \A x \in E : x \in Nat /\ x > 0
  <2>1. DOMAIN d = 1 .. Len(d)
    BY <1>1
  <2>2. E \subseteq DOMAIN d
    BY DEF Escapes
  <2> HIDE DEF E
  <2> QED
    BY <2>1, <2>2
<1>3. EndOfHeader(d, n) = n + Cardinality(X)
  BY DEF EndOfHeader
<1>4. c \in Nat /\ c = y - n
  <2>1. c \in Nat
    BY <1>1, <1>2, Counting
  <2> HIDE DEF c
  <2> QED
    BY <1>1, <2>1
<1> HIDE DEF E, n, y, c
<1>5. ASSUME NEW x \in E, x <= y
      PROVE  x - 1 < n + Cardinality(E \cap 1 .. x - 1)
  <2> DEFINE g == Cardinality(E \cap 1 .. x - 1)
             l == Cardinality(E \cap (x - 1) + 1 .. y - 1)
  <2>1. x \in Nat /\ x > 0 /\ x # y /\ x - 1 \in Nat /\ y - 1 \in Nat /\ x - 1 <= y - 1
    BY <1>1, <1>2, <1>5
  <2>2. E \cap 1 .. y = E \cap 1 .. y - 1
    BY <1>1, <1>2
  <2> DEFINE v == x - 1
             w == y - 1
             b == Cardinality(E \cap 1 .. w)
  <2> HIDE DEF v, w
  <2>2a. v \in Nat /\ w \in Nat /\ v <= w
    BY <2>1 DEF v, w
  <2>2b. Cardinality(E \cap 1 .. v) \in Nat /\ Cardinality(E \cap v + 1 .. w) \in 0 .. w - v
         /\ Cardinality(E \cap 1 .. w) = Cardinality(E \cap 1 .. v) + Cardinality(E \cap v + 1 .. w)
    BY <1>2, <2>2a, Counting
  <2>3. c = g + l /\ g \in Nat /\ l \in 0 .. (y - 1) - (x - 1)
    BY <2>2, <2>2b DEF c, v, w
  <2> HIDE DEF g, l
  <2>4. x - 1 < n + g
    BY <1>1, <1>4, <2>1, <2>3
  <2> QED
    BY <2>4 DEF g
<1>6. ASSUME NEW x \in E, ~(x <= y)
      PROVE  ~(x - 1 < n + Cardinality(E \cap 1 .. x - 1))
  <2> DEFINE g == Cardinality(E \cap 1 .. x - 1)
             l == Cardinality(E \cap y + 1 .. x - 1)
  <2>1. x \in Nat /\ x > 0 /\ x - 1 \in Nat /\ y <= x - 1
    BY <1>1, <1>2, <1>6
  <2> DEFINE v == x - 1
  <2> HIDE DEF v
  <2>1a. y \in Nat /\ v \in Nat /\ y <= v
    BY <1>1, <2>1 DEF v
  <2>1b. /\ Cardinality(E \cap y + 1 .. v) \in 0 .. v - y
         /\ Cardinality(E \cap 1 .. v) \in Nat
         /\ Cardinality(E \cap 1 .. v) = Cardinality(E \cap 1 .. y) + Cardinality(E \cap y + 1 .. v)
    BY <1>2, <2>1a, Counting
  <2>2. g = c + l /\ g \in Nat /\ l \in 0 .. (x - 1) - y
    BY <2>1b DEF c, v
  <2> HIDE DEF g, l
  <2>3. ~(x - 1 < n + g)
    BY <1>1, <1>4, <2>1, <2>2
  <2> QED
    BY <2>3 DEF g
<1>7. X = E \cap 1 .. y
  <2>1. \A x \in E : x \in X <=> x <= y
    BY <1>5, <1>6
  <2>2. \A x \in E : x \in 1 .. y <=> x <= y
    BY <1>1, <1>2
  <2>3. X \subseteq E
    OBVIOUS
  <2> HIDE DEF X
  <2> QED
    BY <2>1, <2>2, <2>3
<1>8. Cardinality(X) = c
  BY <1>7 DEF c
<1> QED
  BY <1>1, <1>3, <1>4, <1>8 DEF n, y

(* The escapes between two bytes.                                          *)
LEMMA EscapesWithinIs ==
  ASSUME NEW d, NEW r, NEW z, NEW p, Spread(d, r, z, p), NEW a \in 0 .. Len(r), NEW c \in a .. Len(r)
  PROVE  EscapesWithin(d, p[a], p[c]) = (p[c] - p[a]) - (c - a)
<1> DEFINE E == Escapes(d)
           x == p[a]
           y == p[c]
           k == Cardinality(E \cap 1 .. x)
           l == Cardinality(E \cap 1 .. y)
           m == Cardinality(E \cap x + 1 .. y)
<1>0. Len(r) \in Nat
  BY SpreadAt
<1>1. Len(r) \in Nat /\ c \in 0 .. Len(r) /\ a \in Nat /\ c \in Nat
  BY <1>0
<1>2. /\ d \in Seq(Byte) /\ x \in Nat /\ y \in Nat /\ k + 2 + a = x /\ l + 2 + c = y
  <2>1. d \in Seq(Byte) /\ At(d, p, a) /\ At(d, p, c)
    BY <1>1, SpreadAt
  <2> QED
    BY <2>1, Zenon DEF At
<1>3. x <= y
  BY SpreadGrows
<1>4. E \in SUBSET Nat
  BY <1>2 DEF Escapes
<1>5. EscapesWithin(d, x, y) = m
  <2> HIDE DEF x, y
  <2>1. \A i \in Nat : (x <= i - 1 /\ i - 1 < y) <=> i \in x + 1 .. y
    BY <1>2
  <2>2. {i \in E : x <= i - 1 /\ i - 1 < y} = E \cap x + 1 .. y
    BY <1>4, <2>1
  <2> QED
    BY <2>2 DEF EscapesWithin
<1> HIDE DEF x, y, E
<1>6. k \in Nat /\ l \in Nat /\ m \in Nat /\ l = k + m
  <2>1. /\ Cardinality(E \cap 1 .. x) \in Nat /\ Cardinality(E \cap 1 .. y) \in Nat
        /\ Cardinality(E \cap x + 1 .. y) \in 0 .. y - x
        /\ Cardinality(E \cap 1 .. y) = Cardinality(E \cap 1 .. x) + Cardinality(E \cap x + 1 .. y)
    BY <1>2, <1>3, <1>4, Counting
  <2>2. \A o \in 0 .. y - x : o \in Nat
    BY <1>2
  <2> QED
    BY <2>1, <2>2
<1> HIDE DEF k, l, m
<1>7. m = (y - x) - (c - a)
  BY <1>1, <1>2, <1>6
<1> QED
  BY <1>5, <1>7 DEF x, y

\* countStartCodeEmulations from byte i on, to the last
From(f, s, i) ==
  IF i + 2 > Len(s) THEN 0
  ELSE IF s[i] # 0 \/ s[i + 1] # 0 THEN f[i + 1]
  ELSE f[i + 2] + (IF s[i + 2] <= 3 THEN 1 ELSE 0)
IsFroms(f, s, m) == f = [i \in m .. Len(s) |-> From(f, s, i)]
FromsOf(s) == CHOOSE f : IsFroms(f, s, 1)

(* countStartCodeEmulations, in the terms used here.                       *)
LEMMA CountIs ==
  ASSUME NEW s
  PROVE  CountEmulations(s) = FromsOf(s)[1]
  BY DEF CountEmulations, FromsOf, IsFroms, From

(* It comes from the last byte to the first.                               *)
LEMMA FromsExist ==
  ASSUME NEW s, Len(s) \in Nat
  PROVE  \A i \in 1 .. Len(s) : FromsOf(s)[i] = From(FromsOf(s), s, i)
<1> DEFINE n == Len(s)
           S == {m \in Nat : m <= n => \E f : IsFroms(f, s, n + 1 - m)}
<1>1. n \in Nat
  OBVIOUS
<1> HIDE DEF n
<1>2. 0 \in S
  <2> DEFINE f == [i \in n + 1 .. n |-> 0]
  <2>1. \A i \in n + 1 .. n : From(f, s, i) = 0
    BY <1>1
  <2>2. f = [i \in n + 1 .. n |-> From(f, s, i)]
    BY <2>1, Zenon
  <2>3. n + 1 - 0 = n + 1
    BY <1>1
  <2>4. IsFroms(f, s, n + 1 - 0)
    BY <2>2, <2>3, Zenon DEF IsFroms, n
  <2> QED
    BY <2>4
<1>3. ASSUME NEW m \in S
      PROVE  m + 1 \in S
  <2>1. SUFFICES ASSUME m + 1 <= n
                 PROVE  \E f : IsFroms(f, s, n + 1 - (m + 1))
    BY <1>3
  <2>2. m \in Nat /\ m <= n
    BY <1>1, <1>3, <2>1
  <2>3. PICK f : IsFroms(f, s, n + 1 - m)
    BY <1>3, <2>2
  <2> DEFINE l == n - m
             g == [i \in l .. n |-> IF i = l THEN From(f, s, l) ELSE f[i]]
  <2>4. n + 1 - m = l + 1 /\ n + 1 - (m + 1) = l /\ l \in Nat /\ l <= n
    BY <1>1, <2>1, <2>2
  <2>5. \A i \in l + 1 .. n : f[i] = From(f, s, i)
    BY <2>3, <2>4 DEF IsFroms, n
  <2> HIDE DEF l
  <2>6. \A i \in l + 1 .. n : g[i] = f[i]
    BY <1>1, <2>4
  <2>7. g[l] = From(f, s, l)
    BY <1>1, <2>4
  <2>8. g = [i \in l .. n |-> g[i]]
    OBVIOUS
  <2> HIDE DEF g
  <2>9. ASSUME NEW i \in l .. n
        PROVE  From(g, s, i) = From(f, s, i)
    <3>1. CASE i + 2 > Len(s)
      BY <3>1 DEF From
    <3>2. CASE ~(i + 2 > Len(s))
      <4>1. i + 1 \in l + 1 .. n /\ i + 2 \in l + 1 .. n
        BY <1>1, <2>4, <3>2 DEF n
      <4>2. g[i + 1] = f[i + 1] /\ g[i + 2] = f[i + 2]
        BY <2>6, <4>1
      <4> QED
        BY <4>2 DEF From
    <3> QED
      BY <3>1, <3>2
  <2>10. ASSUME NEW i \in l .. n
         PROVE  g[i] = From(g, s, i)
    <3>1. CASE i = l
      BY <2>7, <2>9, <3>1
    <3>2. CASE i # l
      <4>1. i \in l + 1 .. n
        BY <1>1, <2>4, <3>2
      <4> QED
        BY <2>5, <2>6, <2>9, <4>1
    <3> QED
      BY <3>1, <3>2
  <2>11. g = [i \in l .. n |-> From(g, s, i)]
    BY <2>8, <2>10
  <2>12. IsFroms(g, s, n + 1 - (m + 1))
    BY <2>4, <2>11 DEF IsFroms, n
  <2> QED
    BY <2>12
<1>4. S = Nat
  <2> HIDE DEF S
  <2>1. S \in SUBSET Nat
    BY DEF S
  <2> QED
    BY <1>2, <1>3, <2>1, Induction
<1>5. \E f : IsFroms(f, s, 1)
  <2>0. n + 1 - n = 1 /\ n <= n
    BY <1>1
  <2>1. n \in S
    <3> HIDE DEF S
    <3> QED
      BY <1>1, <1>4
  <2>2. \E f : IsFroms(f, s, n + 1 - n)
    BY <2>0, <2>1, Zenon
  <2> QED
    BY <2>0, <2>2, Zenon
<1> DEFINE f == FromsOf(s)
<1>6. IsFroms(f, s, 1)
  BY <1>5, Zenon DEF FromsOf
<1> HIDE DEF f
<1>7. \A i \in 1 .. Len(s) : f[i] = From(f, s, i)
  BY <1>6 DEF IsFroms
<1> QED
  BY <1>7 DEF f

(* One byte more, seen from zeroCount.                                     *)
LEMMA NextZerosIs ==
  ASSUME NEW z \in 0 .. 2, NEW b \in Byte
  PROVE  /\ b # 0 => NextZeros(z, b) = 0
         /\ b = 0 /\ z = 1 => NextZeros(z, b) = 2
         /\ b = 0 /\ z # 1 => NextZeros(z, b) = 1
  BY DEF NextZeros

(* countStartCodeEmulations counts the escapes put for a substream that    *)
(* begins behind a byte that is not zero.                                  *)
LEMMA CountIsPut ==
  ASSUME NEW d, NEW r, NEW z, NEW p, Spread(d, r, z, p), NEW s \in Seq(Byte), Len(s) > 0,
         NEW a \in Nat, a + Len(s) <= Len(r), z[a] = 0,
         \A i \in 1 .. Len(s) : r[a + i] = s[i]
  PROVE  CountEmulations(s) = (p[a + Len(s)] - p[a]) - Len(s)
<1> DEFINE n == Len(s)
           f == FromsOf(s)
           T(i) == z[a + i] # 2 => f[i] = (p[a + n] - p[a + i]) - (n - i)
           S == {m \in Nat : \A i \in 1 .. n : n - i <= m => T(i)}
<1>1. n \in Nat /\ n > 0 /\ Len(r) \in Nat /\ a + n <= Len(r)
  BY SpreadAt
<1>2. \A i \in 1 .. n : f[i] = From(f, s, i)
  BY <1>1, FromsExist
<1>3. \A i \in 1 .. n : s[i] \in Byte /\ r[a + i] = s[i]
  BY <1>1
<1>4. \A i \in 0 .. n : z[a + i] \in 0 .. 2 /\ p[a + i] \in Nat
  <2>1. \A i \in 0 .. n : a + i \in 0 .. Len(r)
    BY <1>1
  <2> QED
    BY <2>1, SpreadAt DEF At
<1>5. \A i \in 1 .. n : /\ z[a + i] = NextZeros(z[(a + i) - 1], r[a + i])
                        /\ p[a + i] = p[(a + i) - 1] + (IF z[(a + i) - 1] = 2 /\ r[a + i] <= 3 THEN 2 ELSE 1)
  <2>1. \A i \in 1 .. n : a + i \in 1 .. Len(r)
    BY <1>1
  <2> QED
    BY <2>1, Zenon DEF Spread
<1> HIDE DEF n, f
<1>6. ASSUME NEW i \in 0 .. n - 1
      PROVE  /\ z[a + (i + 1)] = NextZeros(z[a + i], s[i + 1])
             /\ p[a + (i + 1)] = p[a + i] + (IF z[a + i] = 2 /\ s[i + 1] <= 3 THEN 2 ELSE 1)
             /\ z[a + i] \in 0 .. 2 /\ p[a + i] \in Nat /\ s[i + 1] \in Byte
  <2>1. i + 1 \in 1 .. n /\ (a + (i + 1)) - 1 = a + i /\ i \in 0 .. n
    BY <1>1
  <2>2. r[a + (i + 1)] = s[i + 1] /\ s[i + 1] \in Byte
    BY <1>3, <2>1
  <2>3. /\ z[a + (i + 1)] = NextZeros(z[(a + (i + 1)) - 1], r[a + (i + 1)])
        /\ p[a + (i + 1)] = p[(a + (i + 1)) - 1] + (IF z[(a + (i + 1)) - 1] = 2 /\ r[a + (i + 1)] <= 3 THEN 2 ELSE 1)
    BY <1>5, <2>1
  <2>4. z[a + i] \in 0 .. 2 /\ p[a + i] \in Nat
    BY <1>4, <2>1
  <2> QED
    BY <2>1, <2>2, <2>3, <2>4
<1>7. ASSUME NEW i \in 1 .. n, \A j \in 1 .. n : j > i => T(j)
      PROVE  T(i)
  <2> DEFINE x == z[a + i]
             y == z[a + (i + 1)]
             b == s[i + 1]
             g == p[a + i]
             h == p[a + (i + 1)]
             w == p[a + n]
  <2>0. w \in Nat /\ i \in Nat /\ f[i] = From(f, s, i) /\ n = Len(s) /\ s[i] \in Byte
    BY <1>1, <1>2, <1>3, <1>4 DEF n
  <2>1. SUFFICES ASSUME x # 2
                 PROVE  f[i] = (w - g) - (n - i)
    OBVIOUS
  <2>2. CASE i = n
    <3>1. f[i] = 0
      BY <2>0, <2>2 DEF From
    <3>2. g = w
      BY <2>2
    <3> QED
      BY <1>1, <2>0, <2>2, <3>1, <3>2
  <2>3. CASE i # n
    <3>1. i \in 0 .. n - 1 /\ i + 1 \in 1 .. n
      BY <1>1, <2>3
    <3>2. /\ y = NextZeros(x, b) /\ h = g + (IF x = 2 /\ b <= 3 THEN 2 ELSE 1)
          /\ x \in 0 .. 2 /\ g \in Nat /\ b \in Byte
      BY <1>6, <3>1
    <3>3. h = g + 1
      BY <2>1, <3>2
    <3>4. y # 2 => f[i + 1] = (w - h) - (n - (i + 1))
      <4>1. i + 1 > i
        BY <2>0
      <4> QED
        BY <1>7, <3>1, <4>1
    <3>5. i - 1 \in 0 .. n - 1 /\ (i - 1) + 1 = i
      BY <1>1
    <3>6. x = NextZeros(z[a + (i - 1)], s[i]) /\ z[a + (i - 1)] \in 0 .. 2
      <4>1. /\ z[a + ((i - 1) + 1)] = NextZeros(z[a + (i - 1)], s[(i - 1) + 1])
            /\ z[a + (i - 1)] \in 0 .. 2
        BY <1>6, <3>5
      <4> QED
        BY <3>5, <4>1
    <3>7. /\ s[i] # 0 => x = 0
          /\ s[i] = 0 => x = 1
      BY <2>0, <2>1, <3>6, NextZerosIs
    <3>8. CASE i + 1 = n
      <4>1. f[i] = 0
        BY <2>0, <3>8 DEF From
      <4>2. h = w
        BY <3>8
      <4> HIDE DEF g, h, w
      <4> QED
        <5>1. w = g + 1 /\ g \in Nat /\ i \in Nat /\ n = i + 1
          BY <2>0, <3>2, <3>3, <3>8, <4>2
        <5>2. (w - g) - (n - i) = 0
          BY <5>1
        <5> QED
          BY <4>1, <5>2
    <3>9. CASE i + 1 # n /\ (s[i] # 0 \/ b # 0)
      <4>1. f[i] = f[i + 1]
        <5>1. ~(i + 2 > Len(s))
          BY <1>1, <2>0, <3>1, <3>9
        <5> QED
          BY <2>0, <3>9, <5>1 DEF From
      <4>2. y # 2
        BY <3>2, <3>7, <3>9, NextZerosIs
      <4>3. f[i + 1] = (w - h) - (n - (i + 1))
        BY <3>4, <4>2
      <4> HIDE DEF g, h, w, x, y, b
      <4> QED
        BY <1>1, <2>0, <3>2, <3>3, <4>1, <4>3
    <3>10. CASE i + 1 # n /\ s[i] = 0 /\ b = 0
      <4> DEFINE c == s[i + 2]
                 v == z[a + (i + 2)]
                 k == p[a + (i + 2)]
      <4>1. i + 1 \in 0 .. n - 1 /\ i + 2 \in 1 .. n /\ (i + 1) + 1 = i + 2 /\ i + 2 > i
        BY <1>1, <3>1, <3>10
      <4>2. f[i] = f[i + 2] + (IF c <= 3 THEN 1 ELSE 0)
        <5>1. ~(i + 2 > Len(s))
          BY <2>0, <4>1
        <5> QED
          BY <2>0, <3>10, <5>1 DEF From
      <4>3. /\ v = NextZeros(y, c) /\ k = h + (IF y = 2 /\ c <= 3 THEN 2 ELSE 1)
            /\ y \in 0 .. 2 /\ h \in Nat /\ c \in Byte
        <5>1. /\ z[a + ((i + 1) + 1)] = NextZeros(z[a + (i + 1)], s[(i + 1) + 1])
              /\ p[a + ((i + 1) + 1)] = p[a + (i + 1)] + (IF z[a + (i + 1)] = 2 /\ s[(i + 1) + 1] <= 3 THEN 2 ELSE 1)
              /\ z[a + (i + 1)] \in 0 .. 2 /\ p[a + (i + 1)] \in Nat /\ s[(i + 1) + 1] \in Byte
          BY <1>6, <4>1
        <5> QED
          BY <4>1, <5>1
      <4>4. y = 2
        BY <3>2, <3>7, <3>10, NextZerosIs
      <4>5. v # 2
        <5>1. c # 0 => v = 0
          BY <4>3, NextZerosIs
        <5>2. c = 0 => v = 1
          BY <4>3, <4>4, NextZerosIs
        <5> QED
          BY <5>1, <5>2
      <4>6. f[i + 2] = (w - k) - (n - (i + 2))
        BY <1>7, <4>1, <4>5
      <4>7. k = h + (IF c <= 3 THEN 2 ELSE 1)
        BY <4>3, <4>4
      <4> HIDE DEF g, h, w, x, y, b, c, v, k
      <4>8. CASE c <= 3
        <5>1. f[i] = f[i + 2] + 1 /\ k = h + 2
          BY <4>2, <4>7, <4>8
        <5> QED
          BY <1>1, <2>0, <3>2, <3>3, <4>3, <4>6, <5>1
      <4>9. CASE ~(c <= 3)
        <5>1. f[i] = f[i + 2] + 0 /\ k = h + 1
          BY <4>2, <4>7, <4>9
        <5> QED
          BY <1>1, <2>0, <3>2, <3>3, <4>3, <4>6, <5>1
      <4> QED
        BY <4>8, <4>9
    <3> QED
      BY <3>8, <3>9, <3>10
  <2> QED
    BY <2>2, <2>3
<1> HIDE DEF T
<1>8. 0 \in S
  <2>1. ASSUME NEW i \in 1 .. n, n - i <= 0
        PROVE  T(i)
    <3>1. \A j \in 1 .. n : ~(j > i)
      BY <1>1, <2>1
    <3> QED
      BY <1>7, <3>1
  <2> QED
    BY <2>1
<1>9. ASSUME NEW m \in S
      PROVE  m + 1 \in S
  <2>1. m \in Nat /\ \A i \in 1 .. n : n - i <= m => T(i)
    BY <1>9
  <2>2. ASSUME NEW i \in 1 .. n, n - i <= m + 1
        PROVE  T(i)
    <3>1. \A j \in 1 .. n : j > i => n - j <= m
      BY <1>1, <2>1, <2>2
    <3> QED
      BY <1>7, <2>1, <3>1
  <2> QED
    BY <2>1, <2>2
<1>10. S = Nat
  <2> HIDE DEF S
  <2>1. S \in SUBSET Nat
    BY DEF S
  <2> QED
    BY <1>8, <1>9, <2>1, Induction
<1>11. T(1)
  <2>1. 1 \in 1 .. n /\ n - 1 <= n
    BY <1>1
  <2>2. n \in S
    <3> HIDE DEF S
    <3> QED
      BY <1>1, <1>10
  <2> QED
    BY <2>1, <2>2
<1>12. /\ z[a + 1] = NextZeros(0, s[1]) /\ p[a + 1] = p[a] + 1
       /\ p[a] \in Nat /\ s[1] \in Byte
  <2>1. 0 \in 0 .. n - 1 /\ 0 + 1 = 1 /\ a + 0 = a
    BY <1>1
  <2>2. /\ z[a + (0 + 1)] = NextZeros(z[a + 0], s[0 + 1])
        /\ p[a + (0 + 1)] = p[a + 0] + (IF z[a + 0] = 2 /\ s[0 + 1] <= 3 THEN 2 ELSE 1)
        /\ z[a + 0] \in 0 .. 2 /\ p[a + 0] \in Nat /\ s[0 + 1] \in Byte
    BY <1>6, <2>1
  <2>3. ~(z[a] = 2)
    OBVIOUS
  <2> QED
    BY <2>1, <2>2, <2>3
<1>13. z[a + 1] # 2
  BY <1>12 DEF NextZeros
<1>14. f[1] = (p[a + n] - p[a + 1]) - (n - 1)
  BY <1>11, <1>13 DEF T
<1>15. n \in 0 .. n
  BY <1>1
<1>16. p[a + n] \in Nat
  BY <1>4, <1>15
<1> DEFINE w == p[a + n]
           g == p[a]
           h == p[a + 1]
<1>17. f[1] = (w - g) - n
  <2>1. w \in Nat /\ g \in Nat /\ h = g + 1 /\ f[1] = (w - h) - (n - 1)
    BY <1>12, <1>14, <1>16
  <2> HIDE DEF w, g, h
  <2> QED
    BY <1>1, <2>1
<1>18. CountEmulations(s) = f[1]
  BY CountIs DEF f
<1> QED
  BY <1>17, <1>18 DEF n

----------------------------------------------------------------------------
(* How a slice is cut.                                                     *)

\* the header and the first k substreams
Until(u, k) == u.head \o FrontOf(u.subs, k)
UntilLen(u, k) == Len(Until(u, k))

\* where the substreams are in the contents of a slice
Cuts(u) ==
  LET ss == u.subs
      r  == Rbsp(u) IN
  /\ Len(ss) \in Nat /\ Len(ss) > 0
  /\ UntilLen(u, 0) = Len(u.head) /\ UntilLen(u, Len(ss)) = Len(r)
  /\ \A k \in 0 .. Len(ss) : /\ UntilLen(u, k) \in Nat /\ UntilLen(u, k) > 0
                             /\ UntilLen(u, k) <= Len(r) /\ r[UntilLen(u, k)] # 0
  /\ \A k \in 1 .. Len(ss) : /\ ss[k] \in Seq(Byte) /\ Len(ss[k]) \in Nat /\ Len(ss[k]) > 0
                             /\ UntilLen(u, k) = UntilLen(u, k - 1) + Len(ss[k])
                             /\ \A j \in 1 .. Len(ss[k]) : r[UntilLen(u, k - 1) + j] = ss[k][j]

(* They are where the substreams before them end.                          *)
LEMMA CutsAre ==
  ASSUME NEW u, WellFormed(u), IsSlice(u)
  PROVE  Cuts(u)
<1> DEFINE ss == u.subs
           m == Len(ss)
           r == Rbsp(u)
           g(k) == Until(u, k)
<1>1. u.head \in Contents /\ ss \in Seq(Contents) /\ ss # << >> /\ ss \in Seq(Seq(Byte))
  BY FlattenContents DEF WellFormed
<1>2. m \in Nat /\ m > 0
  BY <1>1, EmptySeq
<1>3. /\ u.head \in Seq(Byte) /\ FrontOf(ss, 0) = << >>
      /\ \A k \in 1 .. m : FrontOf(ss, k) = FrontOf(ss, k - 1) \o ss[k]
      /\ \A k \in 0 .. m : FrontOf(ss, k) \in Seq(Byte)
      /\ FlattenSeq(ss) = FrontOf(ss, m)
  <2>1. u.head \in Seq(Byte)
    BY <1>1 DEF Contents
  <2> QED
    BY <1>1, <2>1, Fronts
<1>4. \A k \in 1 .. m : ss[k] \in Contents /\ ss[k] \in Seq(Byte)
  <2>1. \A k \in 1 .. m : ss[k] \in Contents
    BY <1>1, ElementOfSeq
  <2> QED
    BY <2>1 DEF Contents
<1> HIDE DEF ss, m
<1>5. g(0) \in Contents /\ g(0) = u.head
  <2>1. g(0) = u.head \o << >>
    BY <1>3 DEF Until, ss
  <2>2. u.head \o << >> = u.head
    BY <1>3, ConcatEmptySeq
  <2> QED
    BY <1>1, <2>1, <2>2
<1>6. ASSUME NEW k \in 1 .. m, g(k - 1) \in Seq(Byte)
      PROVE  /\ g(k) = g(k - 1) \o ss[k] /\ g(k) \in Contents
             /\ Len(g(k)) = Len(g(k - 1)) + Len(ss[k]) /\ Len(ss[k]) > 0
  <2>1. k - 1 \in 0 .. m
    BY <1>2
  <2>2. u.head \o (FrontOf(ss, k - 1) \o ss[k]) = (u.head \o FrontOf(ss, k - 1)) \o ss[k]
    BY <1>3, <1>4, <2>1, ByteAssociative
  <2>3. g(k) = u.head \o (FrontOf(ss, k - 1) \o ss[k]) /\ g(k - 1) = u.head \o FrontOf(ss, k - 1)
    BY <1>3 DEF Until, ss
  <2>4. g(k) = g(k - 1) \o ss[k]
    BY <2>2, <2>3
  <2> DEFINE x == g(k - 1)
             y == ss[k]
  <2>5. x \in Seq(Byte) /\ y \in Contents
    BY <1>4, <1>6
  <2> HIDE DEF x, y
  <2>6. x \o y \in Contents /\ Len(x \o y) = Len(x) + Len(y) /\ Len(y) > 0
    BY <2>5, ContentsConcat
  <2> QED
    BY <2>4, <2>6 DEF x, y
<1> HIDE DEF g
<1>7. \A k \in 0 .. m : g(k) \in Contents
  <2> DEFINE S == {k \in Nat : k <= m => g(k) \in Contents}
  <2>1. 0 \in S
    BY <1>5
  <2>2. ASSUME NEW k \in S
        PROVE  k + 1 \in S
    <3>1. SUFFICES ASSUME k + 1 <= m
                   PROVE  g(k + 1) \in Contents
      BY <2>2
    <3>2. k \in Nat /\ k + 1 \in 1 .. m /\ (k + 1) - 1 = k /\ k <= m
      BY <1>2, <2>2, <3>1
    <3>3. g(k) \in Contents
      BY <2>2, <3>2
    <3>4. g((k + 1) - 1) \in Seq(Byte)
      BY <3>2, <3>3 DEF Contents
    <3> QED
      BY <1>6, <3>2, <3>4
  <2>3. S = Nat
    <3> HIDE DEF S
    <3>1. S \in SUBSET Nat
      BY DEF S
    <3> QED
      BY <2>1, <2>2, <3>1, Induction
  <2> QED
    BY <1>2, <2>3
<1>8. \A k \in 0 .. m : /\ g(k) \in Seq(Byte) /\ Len(g(k)) \in Nat /\ Len(g(k)) > 0
                        /\ g(k)[Len(g(k))] # 0
  <2> TAKE k \in 0 .. m
  <2> DEFINE x == g(k)
  <2>1. x \in Contents
    BY <1>7
  <2> HIDE DEF x
  <2>2. x \in Seq(Byte) /\ x # << >> /\ x[Len(x)] # 0
    BY <2>1 DEF Contents, EndsNonZero, Last
  <2>3. Len(x) \in Nat /\ Len(x) > 0
    BY <2>2, EmptySeq
  <2> QED
    BY <2>2, <2>3 DEF x
<1>9. ASSUME NEW k \in 1 .. m
      PROVE  /\ g(k) = g(k - 1) \o ss[k] /\ k - 1 \in 0 .. m /\ k \in 0 .. m
             /\ Len(g(k)) = Len(g(k - 1)) + Len(ss[k]) /\ Len(ss[k]) > 0
             /\ Begun(g(k - 1), g(k))
             /\ \A j \in 1 .. Len(ss[k]) : g(k)[Len(g(k - 1)) + j] = ss[k][j]
  <2>1. k - 1 \in 0 .. m /\ k \in 0 .. m
    BY <1>2
  <2>2. g(k - 1) \in Seq(Byte) /\ ss[k] \in Seq(Byte)
    BY <1>4, <1>8, <2>1
  <2>3. /\ g(k) = g(k - 1) \o ss[k]
        /\ Len(g(k)) = Len(g(k - 1)) + Len(ss[k]) /\ Len(ss[k]) > 0
    BY <1>6, <2>2
  <2> DEFINE x == g(k - 1)
             y == ss[k]
             v == g(k)
  <2>4. x \in Seq(Byte) /\ y \in Seq(Byte) /\ v = x \o y
    BY <2>2, <2>3
  <2> HIDE DEF x, y, v
  <2>5. Begun(x, x \o y) /\ \A j \in 1 .. Len(y) : (x \o y)[Len(x) + j] = y[j]
    BY <2>4, BegunConcat, ByteConcat, Zenon
  <2>6. Begun(x, v) /\ \A j \in 1 .. Len(y) : v[Len(x) + j] = y[j]
    BY <2>4, <2>5
  <2> QED
    BY <2>1, <2>3, <2>6 DEF x, y, v
<1>10. r = g(m) /\ m \in 0 .. m
  BY <1>2, <1>3 DEF Rbsp, g, Until, ss
<1> HIDE DEF r
<1>11. \A k \in 0 .. m : Begun(g(k), r)
  <2> DEFINE S == {i \in Nat : i <= m => Begun(g(m - i), r)}
  <2>1. 0 \in S
    <3>1. Begun(g(m), g(m))
      BY <1>8, <1>10 DEF Begun
    <3>2. m - 0 = m
      BY <1>2
    <3> QED
      BY <1>10, <3>1, <3>2
  <2>2. ASSUME NEW i \in S
        PROVE  i + 1 \in S
    <3>1. SUFFICES ASSUME i + 1 <= m
                   PROVE  Begun(g(m - (i + 1)), r)
      BY <2>2
    <3>2. i \in Nat /\ i <= m /\ m - i \in 1 .. m /\ (m - i) - 1 = m - (i + 1)
      BY <1>2, <2>2, <3>1
    <3>3. Begun(g(m - i), r)
      BY <2>2, <3>2
    <3>4. Begun(g((m - i) - 1), g(m - i))
      BY <1>9, <3>2
    <3> QED
      BY <3>2, <3>3, <3>4, BegunGoesOn
  <2>3. S = Nat
    <3> HIDE DEF S
    <3>1. S \in SUBSET Nat
      BY DEF S
    <3> QED
      BY <2>1, <2>2, <3>1, Induction
  <2> TAKE k \in 0 .. m
  <2>4. m - k \in Nat /\ m - k <= m /\ m - (m - k) = k
    BY <1>2
  <2>5. m - k \in S
    BY <2>3, <2>4
  <2> QED
    BY <2>4, <2>5
<1>12. \A k \in 0 .. m : UntilLen(u, k) = Len(g(k))
  BY DEF UntilLen, g
<1>13. ASSUME NEW k \in 0 .. m
       PROVE  /\ UntilLen(u, k) \in Nat /\ UntilLen(u, k) > 0
              /\ UntilLen(u, k) <= Len(r) /\ r[UntilLen(u, k)] # 0
  <2> DEFINE x == g(k)
  <2>1. x \in Seq(Byte) /\ Len(x) \in Nat /\ Len(x) > 0 /\ x[Len(x)] # 0 /\ Begun(x, r) /\ UntilLen(u, k) = Len(x)
    BY <1>8, <1>11, <1>12
  <2> HIDE DEF x
  <2>2. Len(x) \in 1 .. Len(x)
    BY <2>1
  <2>3. r[Len(x)] = x[Len(x)] /\ Len(x) <= Len(r)
    BY <2>1, <2>2 DEF Begun
  <2> QED
    BY <2>1, <2>3
<1>14. ASSUME NEW k \in 1 .. m
       PROVE  /\ ss[k] \in Seq(Byte) /\ Len(ss[k]) \in Nat /\ Len(ss[k]) > 0
              /\ UntilLen(u, k) = UntilLen(u, k - 1) + Len(ss[k])
              /\ \A j \in 1 .. Len(ss[k]) : r[UntilLen(u, k - 1) + j] = ss[k][j]
  <2> DEFINE x == g(k - 1)
             y == ss[k]
             v == g(k)
  <2>1. /\ Len(v) = Len(x) + Len(y) /\ Len(y) > 0
        /\ \A j \in 1 .. Len(y) : v[Len(x) + j] = y[j]
        /\ UntilLen(u, k) = Len(v) /\ UntilLen(u, k - 1) = Len(x)
        /\ x \in Seq(Byte) /\ Begun(v, r)
    BY <1>8, <1>9, <1>11, <1>12
  <2>2. y \in Seq(Byte)
    BY <1>4
  <2> HIDE DEF x, y, v
  <2>3. Len(y) \in Nat /\ Len(x) \in Nat
    BY <2>1, <2>2
  <2>4. \A j \in 1 .. Len(y) : Len(x) + j \in 1 .. Len(v)
    BY <2>1, <2>3
  <2>5. \A j \in 1 .. Len(y) : r[Len(x) + j] = y[j]
    BY <2>1, <2>4 DEF Begun
  <2> QED
    BY <2>1, <2>2, <2>3, <2>5 DEF y
<1>15. UntilLen(u, 0) = Len(u.head) /\ UntilLen(u, m) = Len(r)
  BY <1>2, <1>5, <1>10, <1>12
<1> QED
  BY <1>2, <1>13, <1>14, <1>15, Zenon DEF Cuts, ss, m, r

\* DecSlice's additions, from x on
IsBorder(f, x, offs) == f = [k \in 0 .. Len(offs) |-> IF k = 0 THEN x ELSE f[k - 1] + offs[k]]
BorderOf(x, offs) == CHOOSE f : IsBorder(f, x, offs)

\* extractSubstream's
IsBegin(f, n, sizes) ==
  f = [k \in 1 .. Len(sizes) + 1 |-> IF k = 1 THEN n ELSE f[k - 1] + sizes[k - 1]]
BeginOf(n, sizes) == CHOOSE f : IsBegin(f, n, sizes)

(* The sizes and the pieces, in the terms used here.                       *)
LEMMA SizesAre ==
  ASSUME NEW d, NEW n, NEW offs
  PROVE  SubstreamSizes(d, n, offs) =
           [k \in DOMAIN offs |-> offs[k] - EscapesWithin(d, BorderOf(EndOfHeader(d, n), offs)[k - 1],
                                                             BorderOf(EndOfHeader(d, n), offs)[k])]
  BY DEF SubstreamSizes, BorderOf, IsBorder

\* a byte of what is cut
ByteOf(nal, i) == IF i <= Len(nal) THEN nal[i] ELSE 0

(* The pieces.                                                             *)
LEMMA PiecesAre ==
  ASSUME NEW nal, NEW n, NEW sizes
  PROVE  Extracted(nal, n, sizes) =
           [k \in 1 .. Len(sizes) + 1 |->
              IF k > Len(sizes) THEN SubSeq(nal, BeginOf(n, sizes)[k] + 1, Len(nal))
              ELSE [j \in 1 .. sizes[k] |-> ByteOf(nal, BeginOf(n, sizes)[k] + j)]]
  BY DEF Extracted, BeginOf, IsBegin, ByteOf

(* Sizes added up are the places they are the differences of: DecSlice's   *)
(* borders                                                                 *)
LEMMA BorderIs ==
  ASSUME NEW offs, NEW l \in Nat, Len(offs) = l, NEW w,
         \A k \in 0 .. l : w[k] \in Nat,
         \A k \in 1 .. l : offs[k] = w[k] - w[k - 1]
  PROVE  \A k \in 0 .. l : BorderOf(w[0], offs)[k] = w[k]
<1> DEFINE v == [k \in 0 .. l |-> w[k]]
           x == w[0]
           f == BorderOf(x, offs)
<1>1. IsBorder(v, x, offs)
  <2>1. ASSUME NEW k \in 0 .. l
        PROVE  w[k] = IF k = 0 THEN x ELSE v[k - 1] + offs[k]
    <3>1. CASE k = 0
      BY <3>1
    <3>2. CASE k # 0
      <4>1. k \in 1 .. l /\ k - 1 \in 0 .. l
        BY <3>2
      <4>2. v[k - 1] = w[k - 1] /\ w[k] \in Nat /\ w[k - 1] \in Nat /\ offs[k] = w[k] - w[k - 1]
        BY <4>1
      <4> HIDE DEF v
      <4> QED
        BY <3>2, <4>2
    <3> QED
      BY <3>1, <3>2
  <2>2. v = [k \in 0 .. l |-> IF k = 0 THEN x ELSE v[k - 1] + offs[k]]
    BY <2>1
  <2> HIDE DEF v
  <2> QED
    BY <2>2 DEF IsBorder
<1>2. IsBorder(f, x, offs)
  <2> HIDE DEF v
  <2>1. \E g : IsBorder(g, x, offs)
    BY <1>1
  <2> QED
    BY <2>1, Zenon DEF BorderOf
<1> HIDE DEF f, x, v
<1>3. \A k \in 0 .. l : f[k] = IF k = 0 THEN x ELSE f[k - 1] + offs[k]
  BY <1>2 DEF IsBorder
<1> DEFINE S == {k \in Nat : k <= l => f[k] = w[k]}
<1>4. 0 \in S
  BY <1>3 DEF x
<1>5. ASSUME NEW k \in S
      PROVE  k + 1 \in S
  <2>1. SUFFICES ASSUME k + 1 <= l
                 PROVE  f[k + 1] = w[k + 1]
    BY <1>5
  <2>2. k \in Nat /\ k <= l /\ k \in 0 .. l /\ k + 1 \in 1 .. l /\ k + 1 \in 0 .. l /\ (k + 1) - 1 = k /\ k + 1 # 0
    BY <1>5, <2>1
  <2>3. f[k + 1] = f[k] + offs[k + 1] /\ offs[k + 1] = w[k + 1] - w[k] /\ f[k] = w[k]
    BY <1>3, <1>5, <2>2
  <2>4. w[k] \in Nat /\ w[k + 1] \in Nat
    BY <2>2
  <2> QED
    BY <2>3, <2>4
<1>6. S = Nat
  <2> HIDE DEF S
  <2>1. S \in SUBSET Nat
    BY DEF S
  <2> QED
    BY <1>4, <1>5, <2>1, Induction
<1>7. \A k \in 0 .. l : f[k] = w[k]
  BY <1>6, SMTT(30)
<1> QED
  BY <1>7 DEF f, x

(* and extractSubstream's.                                                 *)
LEMMA BeginIs ==
  ASSUME NEW sizes, NEW l \in Nat, Len(sizes) = l, NEW w,
         \A k \in 0 .. l : w[k] \in Nat,
         \A k \in 1 .. l : sizes[k] = w[k] - w[k - 1]
  PROVE  \A k \in 1 .. l + 1 : BeginOf(w[0], sizes)[k] = w[k - 1]
<1> DEFINE v == [k \in 1 .. l + 1 |-> w[k - 1]]
           x == w[0]
           f == BeginOf(x, sizes)
<1>1. IsBegin(v, x, sizes)
  <2>1. ASSUME NEW k \in 1 .. l + 1
        PROVE  w[k - 1] = IF k = 1 THEN x ELSE v[k - 1] + sizes[k - 1]
    <3>1. CASE k = 1
      BY <3>1
    <3>2. CASE k # 1
      <4>1. k - 1 \in 1 .. l /\ k - 1 \in 0 .. l /\ (k - 1) - 1 \in 0 .. l /\ k - 1 \in 1 .. l + 1
        BY <3>2
      <4>2. v[k - 1] = w[(k - 1) - 1] /\ w[k - 1] \in Nat /\ w[(k - 1) - 1] \in Nat
            /\ sizes[k - 1] = w[k - 1] - w[(k - 1) - 1]
        BY <4>1
      <4> HIDE DEF v
      <4> QED
        BY <3>2, <4>2
    <3> QED
      BY <3>1, <3>2
  <2>2. v = [k \in 1 .. l + 1 |-> IF k = 1 THEN x ELSE v[k - 1] + sizes[k - 1]]
    BY <2>1
  <2> HIDE DEF v
  <2> QED
    BY <2>2 DEF IsBegin
<1>2. IsBegin(f, x, sizes)
  <2> HIDE DEF v
  <2>1. \E g : IsBegin(g, x, sizes)
    BY <1>1
  <2> QED
    BY <2>1, Zenon DEF BeginOf
<1> HIDE DEF f, x, v
<1>3. \A k \in 1 .. l + 1 : f[k] = IF k = 1 THEN x ELSE f[k - 1] + sizes[k - 1]
  BY <1>2 DEF IsBegin
<1> DEFINE S == {k \in Nat : k <= l => f[k + 1] = w[k]}
<1>4. 0 \in S
  <2>1. 1 \in 1 .. l + 1 /\ 0 + 1 = 1
    OBVIOUS
  <2>2. f[1] = w[0]
    BY <1>3, <2>1 DEF x
  <2> QED
    BY <2>1, <2>2
<1>5. ASSUME NEW k \in S
      PROVE  k + 1 \in S
  <2>1. SUFFICES ASSUME k + 1 <= l
                 PROVE  f[(k + 1) + 1] = w[k + 1]
    BY <1>5
  <2>2. /\ k \in Nat /\ k <= l /\ k \in 0 .. l /\ k + 1 \in 1 .. l /\ k + 1 \in 0 .. l /\ (k + 1) - 1 = k
        /\ (k + 1) + 1 \in 1 .. l + 1 /\ (k + 1) + 1 # 1 /\ ((k + 1) + 1) - 1 = k + 1
    BY <1>5, <2>1
  <2>3. f[(k + 1) + 1] = f[k + 1] + sizes[k + 1] /\ sizes[k + 1] = w[k + 1] - w[k] /\ f[k + 1] = w[k]
    BY <1>3, <1>5, <2>2
  <2>4. w[k] \in Nat /\ w[k + 1] \in Nat
    BY <2>2
  <2> QED
    BY <2>3, <2>4
<1>6. S = Nat
  <2> HIDE DEF S
  <2>1. S \in SUBSET Nat
    BY DEF S
  <2> QED
    BY <1>4, <1>5, <2>1, Induction
<1>7. ASSUME NEW k \in 1 .. l + 1
      PROVE  f[k] = w[k - 1]
  <2>1. k - 1 \in Nat /\ k - 1 <= l /\ (k - 1) + 1 = k
    OBVIOUS
  <2>2. k - 1 \in S
    BY <1>6, <2>1
  <2> QED
    BY <2>1, <2>2
<1> QED
  BY <1>7 DEF f, x

(* A unit is cut into the substreams it was put together from.             *)
LEMMA CutAsPut ==
  ASSUME NEW u, WellFormed(u), IsSlice(u)
  PROVE  Substreamed(NalData(u), u) = u.subs
<1>1. PICK d : d = NalData(u)
  OBVIOUS
<1>2. PICK r : r = Rbsp(u)
  OBVIOUS
<1>3. PICK ss : ss = u.subs
  OBVIOUS
<1>4. PICK m : m = Len(ss)
  OBVIOUS
<1>5. PICK z, p : Spread(d, r, z, p)
  BY <1>1, <1>2, SpreadIs
<1>6. PICK A : A = [k \in 0 .. m |-> UntilLen(u, k)]
  OBVIOUS
<1>7. /\ m \in Nat /\ m > 0
      /\ A[0] = Len(u.head) /\ A[m] = Len(r)
      /\ \A k \in 0 .. m : A[k] \in Nat /\ A[k] > 0 /\ A[k] <= Len(r) /\ r[A[k]] # 0
      /\ \A k \in 1 .. m : /\ ss[k] \in Seq(Byte) /\ Len(ss[k]) \in Nat /\ Len(ss[k]) > 0
                           /\ A[k] = A[k - 1] + Len(ss[k])
                           /\ \A j \in 1 .. Len(ss[k]) : r[A[k - 1] + j] = ss[k][j]
  <2>1. Cuts(u)
    BY CutsAre
  <2>2. m \in Nat /\ m > 0
    BY <1>3, <1>4, <2>1 DEF Cuts
  <2>3. \A k \in 0 .. m : A[k] = UntilLen(u, k)
    BY <1>6
  <2>4. 0 \in 0 .. m /\ m \in 0 .. m /\ \A k \in 1 .. m : k \in 0 .. m /\ k - 1 \in 0 .. m
    BY <2>2
  <2>5. /\ UntilLen(u, 0) = Len(u.head) /\ UntilLen(u, m) = Len(r)
        /\ \A k \in 0 .. m : /\ UntilLen(u, k) \in Nat /\ UntilLen(u, k) > 0
                             /\ UntilLen(u, k) <= Len(r) /\ r[UntilLen(u, k)] # 0
        /\ \A k \in 1 .. m : /\ ss[k] \in Seq(Byte) /\ Len(ss[k]) \in Nat /\ Len(ss[k]) > 0
                             /\ UntilLen(u, k) = UntilLen(u, k - 1) + Len(ss[k])
                             /\ \A j \in 1 .. Len(ss[k]) : r[UntilLen(u, k - 1) + j] = ss[k][j]
    BY <1>2, <1>3, <1>4, <2>1, Zenon DEF Cuts
  <2> QED
    BY <2>2, <2>3, <2>4, <2>5, SMTT(30)
<1>8. /\ r \in Seq(Byte) /\ Len(r) \in Nat
      /\ \A i \in 0 .. Len(r) : p[i] \in Nat /\ z[i] \in 0 .. 2
      /\ \A i \in 1 .. Len(r) : z[i] = NextZeros(z[i - 1], r[i])
  <2>1. r \in Seq(Byte) /\ Len(r) \in Nat /\ \A i \in 0 .. Len(r) : p[i] \in Nat /\ z[i] \in 0 .. 2
    BY <1>5, SpreadAt DEF At
  <2>2. \A i \in 1 .. Len(r) : z[i] = NextZeros(z[i - 1], r[i])
    BY <1>5, Zenon DEF Spread
  <2> QED
    BY <2>1, <2>2
<1>9. ASSUME NEW k \in 0 .. m
      PROVE  z[A[k]] = 0 /\ A[k] \in 0 .. Len(r) /\ p[A[k]] \in Nat
  <2>1. A[k] \in Nat /\ A[k] > 0 /\ A[k] <= Len(r) /\ r[A[k]] # 0
    BY <1>7
  <2>2. A[k] \in 1 .. Len(r) /\ A[k] \in 0 .. Len(r)
    BY <1>8, <2>1
  <2>3. z[A[k]] = NextZeros(z[A[k] - 1], r[A[k]])
    BY <1>8, <2>2
  <2> QED
    BY <1>8, <2>1, <2>2, <2>3 DEF NextZeros
<1>10. ASSUME NEW k \in 1 .. m
       PROVE  /\ k - 1 \in 0 .. m /\ k \in 0 .. m /\ A[k] \in A[k - 1] .. Len(r)
              /\ Len(ss[k]) + CountEmulations(ss[k]) = p[A[k]] - p[A[k - 1]]
  <2>1. k - 1 \in 0 .. m /\ k \in 0 .. m
    BY <1>7
  <2> DEFINE s == ss[k]
             a == A[k - 1]
  <2>2. /\ s \in Seq(Byte) /\ Len(s) \in Nat /\ Len(s) > 0 /\ A[k] = a + Len(s)
        /\ \A j \in 1 .. Len(s) : r[a + j] = s[j]
    BY <1>7
  <2>3. a \in Nat /\ z[a] = 0 /\ A[k] <= Len(r) /\ p[a] \in Nat /\ p[A[k]] \in Nat
    BY <1>7, <1>9, <2>1
  <2> HIDE DEF s, a
  <2>4. CountEmulations(s) = (p[a + Len(s)] - p[a]) - Len(s)
    <3>1. a + Len(s) <= Len(r) /\ a \in Nat /\ z[a] = 0 /\ s \in Seq(Byte) /\ Len(s) > 0
      BY <2>2, <2>3
    <3>2. \A j \in 1 .. Len(s) : r[a + j] = s[j]
      BY <2>2
    <3> QED
      BY ONLY <1>5, <3>1, <3>2, CountIsPut
  <2>5. p[a + Len(s)] = p[A[k]]
    BY <2>2
  <2> DEFINE x == p[A[k]]
             y == p[a]
             c == CountEmulations(s)
  <2>6. c = (x - y) - Len(s) /\ x \in Nat /\ y \in Nat
    BY <2>3, <2>4, <2>5
  <2> HIDE DEF x, y, c
  <2>7. Len(s) + c = x - y
    BY <2>2, <2>6
  <2>8. A[k] \in a .. Len(r)
    BY <1>8, <2>2, <2>3
  <2> QED
    BY <2>1, <2>7, <2>8 DEF s, a, c, x, y
<1>11. PICK l : l = m - 1
  OBVIOUS
<1>12. PICK offs : offs = [k \in 1 .. l |-> Len(ss[k]) + CountEmulations(ss[k])]
  OBVIOUS
<1>13. l \in Nat /\ (\A k \in 1 .. l : k \in 1 .. m) /\ (\A k \in 0 .. l : k \in 0 .. m) /\ l + 1 = m
  BY <1>7, <1>11
<1>14. EntryPoints(u) = offs
  BY <1>3, <1>4, <1>11, <1>12 DEF EntryPoints
<1>15. offs = [k \in 1 .. l |-> offs[k]] /\ \A k \in 1 .. l : offs[k] = p[A[k]] - p[A[k - 1]]
  <2>1. \A k \in 1 .. l : offs[k] = Len(ss[k]) + CountEmulations(ss[k])
    BY <1>12
  <2>2. offs = [k \in 1 .. l |-> offs[k]]
    BY <1>12
  <2> QED
    BY <1>10, <1>13, <2>1, <2>2
<1>16. Len(offs) = l /\ DOMAIN offs = 1 .. l
  <2>1. \A k \in 1 .. l : offs[k] \in Int
    <3> TAKE k \in 1 .. l
    <3>1. offs[k] = p[A[k]] - p[A[k - 1]] /\ p[A[k]] \in Nat /\ p[A[k - 1]] \in Nat
      BY <1>9, <1>10, <1>13, <1>15
    <3> QED
      BY <3>1
  <2>2. Len(offs) = l
    BY <1>13, <1>15, <2>1, MadeOf
  <2>3. DOMAIN offs = 1 .. l
    BY <1>12
  <2> QED
    BY <2>2, <2>3
<1>17. PICK n : n = 2 + Len(u.head)
  OBVIOUS
<1>18. EndOfHeader(d, n) = p[A[0]]
  <2>1. A[0] \in 0 .. Len(r) /\ n = 2 + A[0]
    BY <1>7, <1>9, <1>17
  <2> QED
    BY <1>5, <2>1, EndOfHeaderIs
<1>19. \A k \in 0 .. l : BorderOf(EndOfHeader(d, n), offs)[k] = p[A[k]]
  <2>1. PICK w : w = [k \in 0 .. l |-> p[A[k]]]
    OBVIOUS
  <2>2. 0 \in 0 .. l /\ \A k \in 1 .. l : k \in 0 .. l /\ k - 1 \in 0 .. l
    BY <1>13
  <2>3. (\A k \in 0 .. l : w[k] \in Nat) /\ (\A k \in 1 .. l : offs[k] = w[k] - w[k - 1]) /\ w[0] = p[A[0]]
    BY <1>9, <1>13, <1>15, <2>1, <2>2
  <2>4. \A k \in 0 .. l : BorderOf(w[0], offs)[k] = w[k]
    <3>1. l \in Nat /\ Len(offs) = l
      BY <1>13, <1>16
    <3>2. \A k \in 0 .. l : w[k] \in Nat
      BY <2>3
    <3>3. \A k \in 1 .. l : offs[k] = w[k] - w[k - 1]
      BY <2>3
    <3> QED
      BY ONLY <3>1, <3>2, <3>3, BorderIs
  <2> QED
    BY <1>18, <2>1, <2>3, <2>4
<1>20. PICK sizes : sizes = SubstreamSizes(d, n, offs)
  OBVIOUS
<1>21. sizes = [k \in 1 .. l |-> sizes[k]] /\ \A k \in 1 .. l : sizes[k] = Len(ss[k])
  <2> DEFINE B == BorderOf(EndOfHeader(d, n), offs)
  <2>1. sizes = [k \in 1 .. l |-> offs[k] - EscapesWithin(d, B[k - 1], B[k])]
    BY <1>16, <1>20, SizesAre
  <2> HIDE DEF B
  <2>2. ASSUME NEW k \in 1 .. l
        PROVE  sizes[k] = Len(ss[k])
    <3>1. k - 1 \in 0 .. l /\ k \in 0 .. l /\ k \in 1 .. m
      BY <1>13
    <3>2. B[k - 1] = p[A[k - 1]] /\ B[k] = p[A[k]]
      BY <1>19, <3>1 DEF B
    <3>3. /\ k - 1 \in 0 .. m /\ k \in 0 .. m /\ A[k] \in A[k - 1] .. Len(r)
      BY <1>10, <3>1
    <3>4. A[k - 1] \in 0 .. Len(r) /\ p[A[k]] \in Nat /\ p[A[k - 1]] \in Nat
      BY <1>9, <3>3
    <3>5. EscapesWithin(d, p[A[k - 1]], p[A[k]]) = (p[A[k]] - p[A[k - 1]]) - (A[k] - A[k - 1])
      BY <1>5, <3>3, <3>4, EscapesWithinIs, SMTT(30)
    <3>6. sizes[k] = (p[A[k]] - p[A[k - 1]]) - ((p[A[k]] - p[A[k - 1]]) - (A[k] - A[k - 1]))
      BY <1>15, <2>1, <3>2, <3>5
    <3>7. A[k] = A[k - 1] + Len(ss[k]) /\ Len(ss[k]) \in Nat /\ A[k - 1] \in Nat
      BY <1>7, <3>1, <3>3
    <3> DEFINE x == p[A[k]]
               y == p[A[k - 1]]
               a == A[k - 1]
               c == Len(ss[k])
    <3>8. sizes[k] = (x - y) - ((x - y) - ((a + c) - a)) /\ x \in Nat /\ y \in Nat /\ a \in Nat /\ c \in Nat
      BY <3>4, <3>6, <3>7
    <3> HIDE DEF x, y, a, c
    <3>9. sizes[k] = c
      BY <3>8
    <3> QED
      BY <3>9 DEF c
  <2> QED
    BY <2>1, <2>2
<1>22. Len(sizes) = l
  <2>1. \A k \in 1 .. l : sizes[k] \in Nat
    BY <1>7, <1>13, <1>21
  <2> QED
    BY <1>13, <1>21, <2>1, MadeOf
<1>23. \A k \in 1 .. m : BeginOf(n, sizes)[k] = 2 + A[k - 1]
  <2>1. PICK w : w = [k \in 0 .. l |-> 2 + A[k]]
    OBVIOUS
  <2>2. 0 \in 0 .. l /\ \A k \in 1 .. l : k \in 0 .. l /\ k - 1 \in 0 .. l /\ k \in 1 .. m
    BY <1>13
  <2>3. (\A k \in 0 .. l : w[k] \in Nat /\ w[k] = 2 + A[k]) /\ w[0] = n
    BY <1>7, <1>13, <1>17, <2>1, <2>2, SMTT(30)
  <2>4. ASSUME NEW k \in 1 .. l
        PROVE  sizes[k] = w[k] - w[k - 1]
    <3>1. w[k] = 2 + A[k] /\ w[k - 1] = 2 + A[k - 1] /\ sizes[k] = Len(ss[k])
      BY <1>21, <2>2, <2>3
    <3>2. A[k] = A[k - 1] + Len(ss[k]) /\ Len(ss[k]) \in Nat /\ A[k - 1] \in Nat
      BY <1>7, <1>10, <2>2
    <3>3. PICK x, y : x = A[k - 1] /\ y = Len(ss[k])
      OBVIOUS
    <3>4. w[k] = 2 + (x + y) /\ w[k - 1] = 2 + x /\ sizes[k] = y /\ x \in Nat /\ y \in Nat
      BY <3>1, <3>2, <3>3
    <3>5. (2 + (x + y)) - (2 + x) = y
      BY ONLY <3>4
    <3> QED
      BY <3>4, <3>5
  <2>5. \A k \in 1 .. l + 1 : BeginOf(w[0], sizes)[k] = w[k - 1]
    BY <1>13, <1>22, <2>3, <2>4, BeginIs, SMTT(30)
  <2>6. \A k \in 1 .. m : k \in 1 .. l + 1 /\ k - 1 \in 0 .. l
    BY <1>13
  <2> QED
    BY <2>3, <2>5, <2>6
<1>24. PICK q : q = NalHeader(u) \o r
  OBVIOUS
<1>25. /\ q \in Seq(Byte) /\ Len(q) = 2 + Len(r)
       /\ \A i \in 1 .. Len(r) : q[2 + i] = r[i]
  <2>1. PICK h : h = NalHeader(u)
    OBVIOUS
  <2>2. h \in Seq(Byte) /\ Len(h) = 2
    BY <2>1, HeaderOk
  <2>3. h \o r \in Seq(Byte) /\ Len(h \o r) = Len(h) + Len(r) /\ \A i \in 1 .. Len(r) : (h \o r)[Len(h) + i] = r[i]
    BY <1>8, <2>2, ByteConcat, Zenon
  <2> QED
    BY <1>24, <2>1, <2>2, <2>3
<1>26. Converted(d) = q
  BY <1>1, <1>2, <1>24, NalDataOk DEF Coded
<1>27. Substreamed(d, u) = Extracted(q, n, sizes)
  BY <1>14, <1>17, <1>20, <1>26 DEF Substreamed
<1>28. PICK piece : piece = [k \in 1 .. m |->
                               IF k > l THEN SubSeq(q, BeginOf(n, sizes)[k] + 1, Len(q))
                               ELSE [j \in 1 .. sizes[k] |-> ByteOf(q, BeginOf(n, sizes)[k] + j)]]
  OBVIOUS
<1>29. Extracted(q, n, sizes) = piece
  BY <1>13, <1>22, <1>28, PiecesAre
<1>30. ASSUME NEW k \in 1 .. m
       PROVE  piece[k] = ss[k]
  <2>1. PICK s, a : s = ss[k] /\ a = A[k - 1]
    OBVIOUS
  <2>2. /\ s \in Seq(Byte) /\ Len(s) \in Nat /\ A[k] = a + Len(s)
        /\ \A j \in 1 .. Len(s) : r[a + j] = s[j]
    BY <1>7, <2>1
  <2>3. a \in Nat /\ A[k] <= Len(r) /\ BeginOf(n, sizes)[k] = 2 + a
    BY <1>7, <1>10, <1>23, <2>1
  <2>4. ASSUME NEW j \in 1 .. Len(s)
        PROVE  q[(2 + a) + j] = s[j] /\ (2 + a) + j <= Len(q)
    <3>1. a + j \in 1 .. Len(r) /\ 2 + (a + j) = (2 + a) + j
      BY <1>8, <2>2, <2>3
    <3>2. q[2 + (a + j)] = r[a + j]
      BY <1>25, <3>1
    <3>3. (2 + a) + j <= Len(q)
      BY <1>8, <1>25, <2>3, <3>1
    <3> QED
      BY <2>2, <3>1, <3>2, <3>3
  <2>5. CASE k > l
    <3>1. k = m
      BY <1>13, <2>5
    <3>2. Len(q) = (2 + a) + Len(s)
      BY <1>7, <1>25, <2>2, <2>3, <3>1
    <3>3. piece[k] = SubSeq(q, (2 + a) + 1, Len(q))
      BY <1>28, <2>3, <2>5
    <3>4. PICK o : o = SubSeq(q, (2 + a) + 1, Len(q))
      OBVIOUS
    <3>5. /\ o \in Seq(Byte) /\ Len(o) = Len(s)
          /\ \A j \in 1 .. Len(s) : o[j] = q[(2 + a) + j]
      <4>1. PICK x, y : x = (2 + a) + 1 /\ y = Len(q)
        OBVIOUS
      <4>2. x \in Nat /\ y \in Nat /\ x >= 1 /\ x <= y + 1 /\ (y - x) + 1 = Len(s)
        BY <2>2, <2>3, <3>2, <4>1
      <4>3. \A j \in x .. y : q[j] \in Byte
        BY <1>25, <4>1, <4>2
      <4>4. /\ SubSeq(q, x, y) \in Seq(Byte)
            /\ Len(SubSeq(q, x, y)) = (IF x <= y THEN (y - x) + 1 ELSE 0)
            /\ \A j \in 1 .. (y - x) + 1 : SubSeq(q, x, y)[j] = q[x + j - 1]
        BY <4>2, <4>3, SubSeqProperties
      <4>5. Len(o) = Len(s)
        BY <2>2, <3>4, <4>1, <4>2, <4>4
      <4>6. \A j \in 1 .. Len(s) : x + j - 1 = (2 + a) + j
        BY <2>2, <2>3, <4>1
      <4> QED
        BY <3>4, <4>1, <4>2, <4>4, <4>5, <4>6
    <3>6. \A j \in 1 .. Len(s) : o[j] = s[j]
      BY <2>4, <3>5
    <3>7. o = s
      BY <2>2, <3>5, <3>6, SeqEqual
    <3> QED
      BY <2>1, <3>3, <3>4, <3>7
  <2>6. CASE ~(k > l)
    <3>1. k \in 1 .. l /\ sizes[k] = Len(s)
      BY <1>13, <1>21, <2>1, <2>6
    <3>2. piece[k] = [j \in 1 .. Len(s) |-> ByteOf(q, (2 + a) + j)]
      BY <1>28, <2>3, <2>6, <3>1
    <3>3. \A j \in 1 .. Len(s) : ByteOf(q, (2 + a) + j) = s[j]
      BY <2>4 DEF ByteOf
    <3>4. s = [j \in 1 .. Len(s) |-> s[j]]
      BY <2>2
    <3>5. piece[k] = [j \in 1 .. Len(s) |-> s[j]]
      BY <3>2, <3>3
    <3> QED
      BY <2>1, <3>4, <3>5
  <2> QED
    BY <2>5, <2>6
<1>31. ss = [k \in 1 .. m |-> ss[k]]
  <2>1. ss \in Seq(Contents)
    BY <1>3 DEF WellFormed
  <2> QED
    BY <1>4, <2>1
<1>32. piece = [k \in 1 .. m |-> piece[k]]
  BY <1>28
<1>33. piece = ss
  BY <1>30, <1>31, <1>32
<1> QED
  BY <1>1, <1>3, <1>27, <1>29, <1>33

(* Whatever the substreams hold, the offsets counted before they were      *)
(* escaped cut the slice where they began, the escapes taken out again.    *)
THEOREM SubstreamsArriveAlways == Spec => []SubstreamsArrive
<1>1. Inv => SubstreamsArrive
  <2> SUFFICES ASSUME Inv, count > 0, IsSlice(written[count])
               PROVE  taken.subs = written[count].subs
    BY DEF SubstreamsArrive
  <2>1. Flags /\ written \in Seq(Formed)
    BY DEF Inv
  <2>2. taken.subs = Substreamed(Data(count), written[count]) /\ count \in Nat /\ count <= Len(written)
    BY <2>1 DEF Flags
  <2>3. count \in 1 .. Len(written)
    BY <2>2
  <2>4. written[count] \in Formed
    BY <2>1, <2>3, ElementOfSeq
  <2>5. WellFormed(written[count])
    BY <2>4, FormedIs
  <2> QED
    BY <2>2, <2>5, CutAsPut DEF Data
<1> QED
  BY Invariance, <1>1, PTL

----------------------------------------------------------------------------
(* The pictures.                                                           *)

\* the access unit of unit n
Au(n) == Cardinality({j \in 1 .. n : written[j].first})

(* A unit is of the access unit of the one before or of the next.          *)
LEMMA AuIs ==
  ASSUME Len(written) \in Nat
  PROVE  /\ Au(0) = 0
         /\ \A p \in 0 .. Len(written) : Au(p) \in 0 .. p
         /\ \A p, q \in 0 .. Len(written) : p <= q => Au(p) <= Au(q)
         /\ \A p \in 1 .. Len(written) : Au(p) = Au(p - 1) + (IF written[p].first THEN 1 ELSE 0)
<1> DEFINE S == {j \in 1 .. Len(written) : written[j].first}
<1>1. S \in SUBSET Nat
  OBVIOUS
<1>2. ASSUME NEW p \in 0 .. Len(written)
      PROVE  Au(p) = Cardinality(S \cap 1 .. p)
  <2>1. S \cap 1 .. p = {j \in 1 .. p : written[j].first}
    OBVIOUS
  <2> QED
    BY <2>1 DEF Au
<1>3. S \cap 1 .. 0 = {} /\ Cardinality({}) = 0
  BY FS_EmptySet
<1> HIDE DEF S
<1>4. Au(0) = 0
  BY <1>2, <1>3
<1>5. ASSUME NEW p \in 0 .. Len(written), NEW q \in 0 .. Len(written), p <= q
      PROVE  /\ Au(p) \in Nat /\ Cardinality(S \cap p + 1 .. q) \in 0 .. q - p
             /\ Au(q) = Au(p) + Cardinality(S \cap p + 1 .. q)
  <2>1. p \in Nat /\ q \in Nat
    OBVIOUS
  <2>2. /\ Cardinality(S \cap 1 .. p) \in Nat
        /\ Cardinality(S \cap p + 1 .. q) \in 0 .. q - p
        /\ Cardinality(S \cap 1 .. q) = Cardinality(S \cap 1 .. p) + Cardinality(S \cap p + 1 .. q)
    BY <1>1, <1>5, <2>1, Counting, ZenonT(40)
  <2> QED
    BY <1>2, <2>2
<1>6. \A p \in 0 .. Len(written) : Au(p) \in 0 .. p
  <2> TAKE p \in 0 .. Len(written)
  <2>1. 0 \in 0 .. Len(written) /\ 0 <= p /\ p - 0 = p
    OBVIOUS
  <2>2. PICK c : c = Cardinality(S \cap 0 + 1 .. p)
    OBVIOUS
  <2>3. c \in 0 .. p - 0 /\ Au(p) = 0 + c
    BY <1>4, <1>5, <2>1, <2>2
  <2> QED
    BY <2>1, <2>3
<1>7. \A p, q \in 0 .. Len(written) : p <= q => Au(p) <= Au(q)
  <2> TAKE p, q \in 0 .. Len(written)
  <2> HAVE p <= q
  <2>1. PICK c, x : c = Cardinality(S \cap p + 1 .. q) /\ x = Au(p)
    OBVIOUS
  <2>2. x \in Nat /\ c \in Nat /\ Au(q) = x + c
    BY <1>5, <2>1
  <2> QED
    BY <2>1, <2>2
<1>8. ASSUME NEW p \in 1 .. Len(written)
      PROVE  Au(p) = Au(p - 1) + (IF written[p].first THEN 1 ELSE 0)
  <2>1. p - 1 \in 0 .. Len(written) /\ p \in 0 .. Len(written) /\ p - 1 <= p /\ (p - 1) + 1 = p
    OBVIOUS
  <2>2. Au(p) = Au(p - 1) + Cardinality(S \cap p .. p)
    BY <1>5, <2>1
  <2>3. p .. p = {p} /\ (p \in S <=> written[p].first)
    BY DEF S
  <2>4. CASE written[p].first
    <3>1. S \cap p .. p = {p}
      BY <2>3, <2>4
    <3>2. Cardinality({p}) = 1
      BY FS_Singleton
    <3> QED
      BY <2>2, <2>4, <3>1, <3>2
  <2>5. CASE ~written[p].first
    <3>1. S \cap p .. p = {}
      BY <2>3, <2>5
    <3> QED
      BY <1>3, <2>2, <2>5, <3>1
  <2> QED
    BY <2>4, <2>5
<1> QED
  BY <1>4, <1>6, <1>7, <1>8

\* the pictures up to an access unit
IsShown(f, m) ==
  f = [a \in 0 .. m |-> IF a = 0 THEN <<>>
                        ELSE IF UnitsOfPicture(a) = {} THEN f[a - 1]
                        ELSE Append(f[a - 1], UnitsOfPicture(a))]
Shown == CHOOSE f : IsShown(f, Len(written))

(* The pictures, in the terms used here.                                   *)
LEMMA PicturesIs ==
  Pictures = Shown[Len(written)]
  BY DEF Pictures, Shown, IsShown

(* They come one access unit after the other.                              *)
LEMMA ShownExists ==
  ASSUME Len(written) \in Nat
  PROVE  IsShown(Shown, Len(written))
<1> DEFINE S == {m \in Nat : \E f : IsShown(f, m)}
           G(f, a) == IF a = 0 THEN <<>>
                      ELSE IF UnitsOfPicture(a) = {} THEN f[a - 1]
                      ELSE Append(f[a - 1], UnitsOfPicture(a))
<1>1. 0 \in S
  <2> DEFINE f == [a \in 0 .. 0 |-> <<>>]
  <2>1. f = [a \in 0 .. 0 |-> G(f, a)]
    <3>1. \A a \in 0 .. 0 : a = 0
      OBVIOUS
    <3> QED
      BY <3>1
  <2> QED
    BY <2>1 DEF IsShown
<1>2. ASSUME NEW m \in S
      PROVE  m + 1 \in S
  <2>1. PICK f : IsShown(f, m)
    BY <1>2
  <2> DEFINE g == [a \in 0 .. m + 1 |-> IF a <= m THEN f[a] ELSE G(f, a)]
  <2>2. m \in Nat
    BY <1>2
  <2>3. \A a \in 0 .. m : f[a] = G(f, a)
    BY <2>1 DEF IsShown
  <2>4. ASSUME NEW a \in 0 .. m + 1
        PROVE  g[a] = G(g, a)
    <3>1. /\ a # 0 => a - 1 \in 0 .. m + 1 /\ a - 1 <= m
          /\ a <= m => a \in 0 .. m
      BY <2>2
    <3>2. g[a] = G(f, a)
      BY <2>3, <3>1
    <3>3. a # 0 => g[a - 1] = f[a - 1]
      BY <3>1
    <3> HIDE DEF g
    <3>4. G(f, a) = G(g, a)
      BY <3>3
    <3> QED
      BY <3>2, <3>4
  <2>5. g = [a \in 0 .. m + 1 |-> g[a]]
    OBVIOUS
  <2> HIDE DEF g, G
  <2>6. g = [a \in 0 .. m + 1 |-> G(g, a)]
    BY <2>4, <2>5
  <2>7. IsShown(g, m + 1)
    BY <2>6 DEF IsShown, G
  <2> QED
    BY <2>2, <2>7
<1> HIDE DEF G
<1>3. S = Nat
  <2> HIDE DEF S
  <2>1. S \in SUBSET Nat
    BY DEF S
  <2> QED
    BY <1>1, <1>2, <2>1, Induction
<1>4. \E f : IsShown(f, Len(written))
  BY <1>3
<1> QED
  BY <1>4, Zenon DEF Shown

(* An access unit with a picture in the target adds it.                    *)
LEMMA ShownIs ==
  ASSUME Len(written) \in Nat, DOMAIN written = 1 .. Len(written)
  PROVE  /\ Shown[0] = <<>>
         /\ \A a \in 1 .. Len(written) :
              /\ UnitsOfPicture(a) = {} => Shown[a] = Shown[a - 1]
              /\ UnitsOfPicture(a) # {} => Shown[a] = Append(Shown[a - 1], UnitsOfPicture(a))
         /\ \A a : UnitsOfPicture(a) \in SUBSET (1 .. Len(written))
         /\ \A a \in 0 .. Len(written) : Shown[a] \in Seq(SUBSET Nat)
<1>1. \A a \in 0 .. Len(written) :
        Shown[a] = IF a = 0 THEN <<>>
                   ELSE IF UnitsOfPicture(a) = {} THEN Shown[a - 1]
                   ELSE Append(Shown[a - 1], UnitsOfPicture(a))
  BY ShownExists DEF IsShown
<1>2. Shown[0] = <<>>
  BY <1>1
<1>3. \A a \in 1 .. Len(written) :
        /\ UnitsOfPicture(a) = {} => Shown[a] = Shown[a - 1]
        /\ UnitsOfPicture(a) # {} => Shown[a] = Append(Shown[a - 1], UnitsOfPicture(a))
  <2> TAKE a \in 1 .. Len(written)
  <2>1. a \in 0 .. Len(written) /\ a # 0
    OBVIOUS
  <2>2. Shown[a] = IF a = 0 THEN <<>>
                   ELSE IF UnitsOfPicture(a) = {} THEN Shown[a - 1]
                   ELSE Append(Shown[a - 1], UnitsOfPicture(a))
    BY <1>1, <2>1
  <2> QED
    BY <2>1, <2>2, Zenon
<1>4. \A a : UnitsOfPicture(a) \in SUBSET (1 .. Len(written))
  BY DEF UnitsOfPicture
<1>5. \A a : UnitsOfPicture(a) \in SUBSET Nat
  BY <1>4
<1> DEFINE S == {a \in Nat : a <= Len(written) => Shown[a] \in Seq(SUBSET Nat)}
<1>6. 0 \in S
  <2>1. <<>> \in Seq(SUBSET Nat)
    OBVIOUS
  <2> QED
    BY <1>2, <2>1
<1>7. ASSUME NEW a \in S
      PROVE  a + 1 \in S
  <2>1. SUFFICES ASSUME a + 1 <= Len(written)
                 PROVE  Shown[a + 1] \in Seq(SUBSET Nat)
    BY <1>7
  <2>2. a \in Nat /\ a <= Len(written) /\ a + 1 \in 1 .. Len(written) /\ (a + 1) - 1 = a
    BY <1>7, <2>1
  <2>3. Shown[a] \in Seq(SUBSET Nat) /\ UnitsOfPicture(a + 1) \in SUBSET Nat
    BY <1>5, <1>7, <2>2
  <2>4. Append(Shown[a], UnitsOfPicture(a + 1)) \in Seq(SUBSET Nat)
    BY <2>3, AppendProperties
  <2> QED
    BY <1>3, <2>2, <2>3, <2>4
<1>8. S = Nat
  <2> HIDE DEF S
  <2>1. S \in SUBSET Nat
    BY DEF S
  <2> QED
    BY <1>6, <1>7, <2>1, Induction
<1>9. \A a \in 0 .. Len(written) : Shown[a] \in Seq(SUBSET Nat)
  <2> TAKE a \in 0 .. Len(written)
  <2>1. a \in S /\ a <= Len(written)
    BY <1>8
  <2> QED
    BY <2>1
<1> QED
  BY <1>2, <1>3, <1>4, <1>9

(* What is shown up to an access unit begins what is shown up to a later.  *)
LEMMA ShownBegins ==
  ASSUME Len(written) \in Nat, DOMAIN written = 1 .. Len(written),
         NEW a \in 0 .. Len(written), NEW b \in 0 .. Len(written), a <= b
  PROVE  /\ Len(Shown[a]) <= Len(Shown[b])
         /\ \A k \in 1 .. Len(Shown[a]) : Shown[b][k] = Shown[a][k]
<1> DEFINE P(x) == /\ Len(Shown[a]) <= Len(Shown[x])
                   /\ \A k \in 1 .. Len(Shown[a]) : Shown[x][k] = Shown[a][k]
           S == {m \in Nat : a + m <= Len(written) => P(a + m)}
<1>1. \A x \in 0 .. Len(written) : Shown[x] \in Seq(SUBSET Nat) /\ Len(Shown[x]) \in Nat
  BY ShownIs
<1>2. 0 \in S
  <2>1. a + 0 = a
    OBVIOUS
  <2>2. P(a)
    BY <1>1
  <2> QED
    BY <2>1, <2>2
<1>3. ASSUME NEW m \in S
      PROVE  m + 1 \in S
  <2>1. PICK x : x = a + m
    OBVIOUS
  <2>2. m \in Nat /\ a + (m + 1) = x + 1
    BY <1>3, <2>1
  <2>3. SUFFICES ASSUME x + 1 <= Len(written)
                 PROVE  P(x + 1)
    BY <2>2
  <2>4. x \in 0 .. Len(written) /\ x + 1 \in 1 .. Len(written) /\ (x + 1) - 1 = x /\ x + 1 \in 0 .. Len(written)
    <3>1. PICK n : n = Len(written)
      OBVIOUS
    <3>2. n \in Nat /\ a \in Nat /\ m \in Nat /\ x = a + m /\ x + 1 <= n
      BY <2>1, <2>2, <2>3, <3>1
    <3>3. x \in 0 .. n /\ x + 1 \in 1 .. n /\ (x + 1) - 1 = x /\ x + 1 \in 0 .. n
      BY ONLY <3>2
    <3> QED
      BY <3>1, <3>3
  <2>5. P(x)
    BY <1>3, <2>1, <2>4
  <2>6. CASE UnitsOfPicture(x + 1) = {}
    <3>1. Shown[x + 1] = Shown[x]
      BY <2>4, <2>6, ShownIs
    <3> QED
      BY <2>5, <3>1
  <2>7. CASE UnitsOfPicture(x + 1) # {}
    <3>1. PICK v : v = UnitsOfPicture(x + 1)
      OBVIOUS
    <3>2. Shown[x + 1] = Append(Shown[x], v)
      BY <2>4, <2>7, <3>1, ShownIs
    <3>3. v \in SUBSET Nat
      BY <3>1, ShownIs
    <3>4. /\ Len(Shown[x + 1]) = Len(Shown[x]) + 1
          /\ \A k \in 1 .. Len(Shown[x]) : Shown[x + 1][k] = Shown[x][k]
      BY <1>1, <2>4, <3>2, <3>3, AppendProperties
    <3>5. PICK y, z : y = Len(Shown[a]) /\ z = Len(Shown[x])
      OBVIOUS
    <3>6. y \in Nat /\ z \in Nat /\ y <= z
      BY <1>1, <2>4, <2>5, <3>5
    <3>7. y <= z + 1 /\ \A k \in 1 .. y : k \in 1 .. z
      BY ONLY <3>6
    <3> QED
      BY <2>5, <3>4, <3>5, <3>7
  <2> QED
    BY <2>6, <2>7
<1>4. S = Nat
  <2> HIDE DEF S
  <2>1. S \in SUBSET Nat
    BY DEF S
  <2> QED
    BY <1>2, <1>3, <2>1, Induction
<1>5. b - a \in Nat /\ a + (b - a) = b /\ b <= Len(written)
  OBVIOUS
<1>6. b - a \in S
  BY <1>4, <1>5
<1>7. P(a + (b - a))
  BY <1>5, <1>6
<1> QED
  BY <1>5, <1>7

(* Each of the pictures is that of one of the access units.                *)
LEMMA ShownAre ==
  ASSUME Len(written) \in Nat, DOMAIN written = 1 .. Len(written), NEW a \in 0 .. Len(written)
  PROVE  \A k \in 1 .. Len(Shown[a]) : \E c \in 1 .. a : Shown[a][k] = UnitsOfPicture(c)
<1> DEFINE P(x) == \A k \in 1 .. Len(Shown[x]) : \E c \in 1 .. x : Shown[x][k] = UnitsOfPicture(c)
           S == {x \in Nat : x <= Len(written) => P(x)}
<1>1. 0 \in S
  <2>1. Shown[0] = <<>>
    BY ShownIs
  <2>2. P(0)
    BY <2>1
  <2> QED
    BY <2>2
<1>2. ASSUME NEW x \in S
      PROVE  x + 1 \in S
  <2>1. SUFFICES ASSUME x + 1 <= Len(written)
                 PROVE  P(x + 1)
    BY <1>2
  <2>2. /\ x \in Nat /\ x \in 0 .. Len(written) /\ x + 1 \in 1 .. Len(written) /\ (x + 1) - 1 = x
        /\ x + 1 \in 1 .. x + 1 /\ \A c \in 1 .. x : c \in 1 .. x + 1
    BY <1>2, <2>1
  <2>3. P(x)
    BY <1>2, <2>2
  <2>4. CASE UnitsOfPicture(x + 1) = {}
    <3>1. Shown[x + 1] = Shown[x]
      BY <2>2, <2>4, ShownIs
    <3> QED
      BY <2>2, <2>3, <3>1
  <2>5. CASE UnitsOfPicture(x + 1) # {}
    <3>1. PICK v : v = UnitsOfPicture(x + 1)
      OBVIOUS
    <3>2. Shown[x + 1] = Append(Shown[x], v)
      BY <2>2, <2>5, <3>1, ShownIs
    <3>3. v \in SUBSET Nat /\ Shown[x] \in Seq(SUBSET Nat) /\ Len(Shown[x]) \in Nat
      BY <2>2, <3>1, ShownIs
    <3>4. /\ Len(Shown[x + 1]) = Len(Shown[x]) + 1
          /\ \A k \in 1 .. Len(Shown[x]) : Shown[x + 1][k] = Shown[x][k]
          /\ Shown[x + 1][Len(Shown[x]) + 1] = v
      BY <3>2, <3>3, AppendProperties
    <3>5. ASSUME NEW k \in 1 .. Len(Shown[x + 1])
          PROVE  \E c \in 1 .. x + 1 : Shown[x + 1][k] = UnitsOfPicture(c)
      <4>1. k \in 1 .. Len(Shown[x]) \/ k = Len(Shown[x]) + 1
        BY <3>3, <3>4
      <4>2. CASE k \in 1 .. Len(Shown[x])
        BY <2>2, <2>3, <3>4, <4>2
      <4>3. CASE k = Len(Shown[x]) + 1
        BY <2>2, <3>1, <3>4, <4>3
      <4> QED
        BY <4>1, <4>2, <4>3
    <3> QED
      BY <3>5
  <2> QED
    BY <2>4, <2>5
<1>3. S = Nat
  <2> HIDE DEF S
  <2>1. S \in SUBSET Nat
    BY DEF S
  <2> QED
    BY <1>1, <1>2, <2>1, Induction
<1>4. a \in S /\ a <= Len(written)
  BY <1>3
<1>5. P(a)
  BY <1>4
<1> QED
  BY <1>5

\* those of an access unit among the first n units
Seen(a, n) == UnitsOfPicture(a) \cap 1 .. n

\* the decoder, which finished the pictures fin, is through with the access
\* unit of unit n, or has met none of its picture, or is amid that
Through(n, fin) == fin = Shown[Au(n)] /\ (n < Len(written) => written[n + 1].first)
Before(n, fin)  == Au(n) > 0 /\ fin = Shown[Au(n) - 1] /\ Seen(Au(n), n) = {}
Ready(n, fin)   == Through(n, fin) \/ Before(n, fin)
Amid(n, fin, pic) == Au(n) > 0 /\ fin = Shown[Au(n) - 1] /\ pic = Seen(Au(n), n)

\* a unit that is decoded as part of a picture
Shows(u) == Rank(u.type) >= 6 /\ InTarget(u.tid)

(* One unit more.                                                          *)
LEMMA SeenNext ==
  ASSUME written \in Seq(Formed), NEW n \in 0 .. Len(written), NEW i \in 1 .. Len(written), i = n + 1
  PROVE  /\ Au(n) \in Nat /\ Au(i) \in Nat
         /\ written[i].first => Au(i) = Au(n) + 1 /\ Seen(Au(i), n) = {}
         /\ ~written[i].first => Au(i) = Au(n)
         /\ Shows(written[i]) => Seen(Au(i), i) = Seen(Au(i), n) \cup {i}
         /\ ~Shows(written[i]) => Seen(Au(i), i) = Seen(Au(i), n)
<1>1. Len(written) \in Nat /\ DOMAIN written = 1 .. Len(written) /\ n \in Nat /\ n <= Len(written)
  OBVIOUS
<1>2. /\ \A p \in 0 .. Len(written) : Au(p) \in 0 .. p
      /\ \A p, q \in 0 .. Len(written) : p <= q => Au(p) <= Au(q)
      /\ \A p \in 1 .. Len(written) : Au(p) = Au(p - 1) + (IF written[p].first THEN 1 ELSE 0)
  BY <1>1, AuIs
<1>3. i \in 0 .. Len(written) /\ i - 1 = n
  BY <1>1
<1>4. PICK x, y : x = Au(n) /\ y = Au(i)
  OBVIOUS
<1>5. x \in Nat /\ y \in Nat
  BY <1>2, <1>3, <1>4
<1>6. y = x + (IF written[i].first THEN 1 ELSE 0)
  BY <1>2, <1>3, <1>4
<1>7. \A j : j \in UnitsOfPicture(y) <=> j \in 1 .. Len(written) /\ Shows(written[j]) /\ Au(j) = y
  BY <1>1 DEF UnitsOfPicture, Shows, Au
<1>8. ASSUME written[i].first
      PROVE  y = x + 1 /\ Seen(y, n) = {}
  <2>1. y = x + 1
    BY <1>6, <1>8
  <2>2. ASSUME NEW j \in Seen(y, n)
        PROVE  FALSE
    <3>1. j \in 1 .. n /\ Au(j) = y
      BY <1>7, <2>2 DEF Seen
    <3>2. j \in 0 .. Len(written) /\ j <= n
      BY <1>1, <3>1
    <3>3. y <= x
      BY <1>2, <1>4, <3>1, <3>2
    <3> QED
      BY <1>5, <2>1, <3>3
  <2> QED
    BY <2>1, <2>2
<1>9. ~written[i].first => y = x
  BY <1>5, <1>6
<1>10. \A j : j \in 1 .. i <=> j \in 1 .. n \/ j = i
  BY <1>1
<1>11. ASSUME Shows(written[i])
       PROVE  Seen(y, i) = Seen(y, n) \cup {i}
  <2>1. i \in UnitsOfPicture(y)
    BY <1>4, <1>7, <1>11
  <2> QED
    BY <1>10, <2>1 DEF Seen
<1>12. ASSUME ~Shows(written[i])
       PROVE  Seen(y, i) = Seen(y, n)
  <2>1. i \notin UnitsOfPicture(y)
    BY <1>7, <1>12
  <2> QED
    BY <1>10, <2>1 DEF Seen
<1> QED
  BY <1>4, <1>5, <1>8, <1>9, <1>11, <1>12

(* All of an access unit, if another begins behind it.                     *)
LEMMA SeenAll ==
  ASSUME written \in Seq(Formed), NEW n \in 1 .. Len(written), n < Len(written) => written[n + 1].first
  PROVE  Seen(Au(n), n) = UnitsOfPicture(Au(n))
<1>1. Len(written) \in Nat /\ DOMAIN written = 1 .. Len(written) /\ n \in Nat /\ n <= Len(written)
  OBVIOUS
<1>2. /\ \A p \in 0 .. Len(written) : Au(p) \in 0 .. p
      /\ \A p, q \in 0 .. Len(written) : p <= q => Au(p) <= Au(q)
      /\ \A p \in 1 .. Len(written) : Au(p) = Au(p - 1) + (IF written[p].first THEN 1 ELSE 0)
  BY <1>1, AuIs
<1>3. PICK x : x = Au(n)
  OBVIOUS
<1>4. \A j : j \in UnitsOfPicture(x) <=> j \in 1 .. Len(written) /\ Shows(written[j]) /\ Au(j) = x
  BY <1>1 DEF UnitsOfPicture, Shows, Au
<1>5. ASSUME NEW j \in UnitsOfPicture(x), j \notin 1 .. n
      PROVE  FALSE
  <2>1. j \in 1 .. Len(written) /\ Au(j) = x
    BY <1>4, <1>5
  <2>2. n + 1 <= j /\ n < Len(written) /\ n + 1 \in 1 .. Len(written) /\ (n + 1) - 1 = n
    BY <1>1, <1>5, <2>1
  <2>3. /\ j \in 0 .. Len(written) /\ n + 1 \in 0 .. Len(written) /\ n \in 0 .. Len(written)
    BY <1>1, <2>1, <2>2
  <2>4. x \in Nat /\ Au(n + 1) = x + 1
    BY <1>2, <1>3, <2>2, <2>3
  <2>5. Au(n + 1) <= Au(j)
    BY <1>2, <2>2, <2>3
  <2> QED
    BY <2>1, <2>4, <2>5
<1> QED
  BY <1>3, <1>5 DEF Seen

(* The next unit after a picture is finished.                              *)
LEMMA ReadyNext ==
  ASSUME written \in Seq(Formed), NEW n \in 0 .. Len(written), NEW i \in 1 .. Len(written), i = n + 1,
         NEW fin, Ready(n, fin)
  PROVE  Au(i) > 0 /\ fin = Shown[Au(i) - 1] /\ Seen(Au(i), n) = {}
<1>1. PICK x, y : x = Au(n) /\ y = Au(i)
  OBVIOUS
<1>2. /\ x \in Nat /\ y \in Nat
      /\ written[i].first => y = x + 1 /\ Seen(y, n) = {}
      /\ ~written[i].first => y = x
  BY <1>1, SeenNext
<1>3. n < Len(written) /\ n + 1 = i
  OBVIOUS
<1>4. CASE Through(n, fin)
  <2>1. written[i].first /\ fin = Shown[x]
    BY <1>1, <1>3, <1>4 DEF Through
  <2>2. y > 0 /\ y - 1 = x
    BY <1>2, <2>1
  <2> QED
    BY <1>1, <1>2, <2>1, <2>2
<1>5. CASE Before(n, fin) /\ ~written[i].first
  BY <1>1, <1>2, <1>5 DEF Before
<1>6. CASE Before(n, fin) /\ written[i].first
  <2>1. x > 0 /\ fin = Shown[x - 1] /\ Seen(x, n) = {}
    BY <1>1, <1>6 DEF Before
  <2>2. y = x + 1 /\ y - 1 = x /\ y > 0
    BY <1>2, <1>6
  <2>3. n > 0
    <3>1. n = 0 => x = 0
      BY <1>1, AuIs
    <3> QED
      BY <2>1, <3>1
  <2>4. Seen(x, n) = UnitsOfPicture(x)
    BY <1>1, <1>3, <1>6, <2>3, SeenAll
  <2>5. x \in 1 .. Len(written)
    <3>1. x \in 0 .. n
      BY <1>1, AuIs
    <3> QED
      BY <2>1, <3>1
  <2>6. Shown[x] = Shown[x - 1]
    BY <2>1, <2>4, <2>5, ShownIs
  <2> QED
    BY <1>1, <1>2, <1>6, <2>1, <2>2, <2>6
<1> QED
  BY <1>4, <1>5, <1>6 DEF Ready

(* A unit that is left out, or is not of a picture, begins none,           *)
LEMMA ReadyLeft ==
  ASSUME written \in Seq(Formed), NEW n \in 0 .. Len(written), NEW i \in 1 .. Len(written), i = n + 1,
         NEW fin, Ready(n, fin), ~Shows(written[i])
  PROVE  Ready(i, fin)
<1>1. Seen(Au(i), i) = Seen(Au(i), n)
  BY SeenNext
<1> QED
  BY <1>1, ReadyNext DEF Ready, Before

(* a slice does,                                                           *)
LEMMA ReadySlice ==
  ASSUME written \in Seq(Formed), NEW n \in 0 .. Len(written), NEW i \in 1 .. Len(written), i = n + 1,
         NEW fin, Ready(n, fin), Shows(written[i])
  PROVE  Amid(i, fin, {i})
<1>1. Seen(Au(i), i) = Seen(Au(i), n) \cup {i}
  BY SeenNext
<1> QED
  BY <1>1, ReadyNext DEF Amid

(* and suffix SEI stand behind one.                                        *)
LEMMA ReadyNoSuffix ==
  ASSUME written \in Seq(Formed), Ordered, NEW n \in 0 .. Len(written), NEW i \in 1 .. Len(written), i = n + 1,
         NEW fin, Ready(n, fin), Shows(written[i])
  PROVE  written[i].type # SuffixSEI
<1> SUFFICES ASSUME written[i].type = SuffixSEI
             PROVE  FALSE
  OBVIOUS
<1>1. i - 1 = n /\ n < Len(written) /\ n + 1 = i
  OBVIOUS
<1>2. ~written[i].first
  BY DEF Ordered, Begins
<1>3. i > 1 /\ Follows(written[n], written[i])
  BY <1>1, <1>2 DEF Ordered
<1>4. n \in 1 .. Len(written) /\ n - 1 \in 0 .. Len(written) /\ n = (n - 1) + 1
  BY <1>1, <1>3
<1>5. Shows(written[n])
  BY <1>3 DEF Follows, Shows
<1>6. ~Through(n, fin)
  BY <1>1, <1>2 DEF Through
<1>7. Seen(Au(n), n) = {}
  BY <1>6 DEF Ready, Before
<1>8. Seen(Au(n), n) = Seen(Au(n), n - 1) \cup {n}
  BY <1>4, <1>5, SeenNext
<1> QED
  BY <1>7, <1>8

(* The picture goes on with slices and suffix SEI                          *)
LEMMA AmidNext ==
  ASSUME written \in Seq(Formed), NEW n \in 0 .. Len(written), NEW i \in 1 .. Len(written), i = n + 1,
         NEW fin, NEW pic, Amid(n, fin, pic), Shows(written[i]), ~written[i].first
  PROVE  Amid(i, fin, pic \cup {i})
<1>1. Seen(Au(i), i) = Seen(Au(i), n) \cup {i} /\ Au(i) = Au(n)
  BY SeenNext
<1> QED
  BY <1>1 DEF Amid

(* and ends with the access unit.                                          *)
LEMMA AmidEnds ==
  ASSUME written \in Seq(Formed), NEW n \in 1 .. Len(written), NEW fin, NEW pic, Amid(n, fin, pic),
         Shows(written[n]), n < Len(written) => written[n + 1].first
  PROVE  Through(n, Append(fin, pic))
<1>1. PICK x : x = Au(n)
  OBVIOUS
<1>2. x > 0 /\ fin = Shown[x - 1] /\ pic = UnitsOfPicture(x)
  BY <1>1, SeenAll DEF Amid
<1>3. x \in 0 .. n
  BY <1>1, AuIs
<1>4. x \in 1 .. Len(written)
  BY <1>2, <1>3
<1>5. pic # {}
  <2>1. n - 1 \in 0 .. Len(written) /\ n = (n - 1) + 1
    OBVIOUS
  <2>2. Seen(Au(n), n) = Seen(Au(n), n - 1) \cup {n}
    BY <2>1, SeenNext
  <2>3. pic = Seen(Au(n), n - 1) \cup {n}
    BY <2>2 DEF Amid
  <2>4. n \in pic
    BY <2>3, Zenon
  <2> QED
    BY <2>4, Zenon
<1>6. Append(fin, pic) = Shown[x]
  <2>1. Len(written) \in Nat /\ DOMAIN written = 1 .. Len(written)
    OBVIOUS
  <2>2. UnitsOfPicture(x) # {} => Shown[x] = Append(Shown[x - 1], UnitsOfPicture(x))
    BY <1>4, <2>1, ShownIs, Zenon
  <2> QED
    BY <1>2, <1>5, <2>2, Zenon
<1> QED
  BY <1>1, <1>6 DEF Through

(* A picture is followed by slices and suffix SEI of the access unit or by *)
(* the start of another.                                                   *)
LEMMA StartsFirst ==
  ASSUME Ordered, NEW n \in 1 .. Len(written), NEW i \in 1 .. Len(written), i = n + 1,
         Rank(written[n].type) >= 6
  PROVE  Starts(written[i]) <=> written[i].first
<1> DEFINE v == written[n]
           u == written[i]
<1>1. i - 1 = n /\ i > 1
  OBVIOUS
<1>2. v.type \in WrittenTypes /\ u.type \in WrittenTypes
  BY DEF Ordered, AllFormed, WellFormed
<1>3. /\ u.first => Begins(u)
      /\ ~u.first => Follows(v, u)
  BY <1>1 DEF Ordered
<1>4. /\ Rank(v.type) \in 1 .. 7 /\ Rank(u.type) \in 1 .. 7 /\ Rank(v.type) >= 6
      /\ (Rank(u.type) = 6 <=> u.type \in SliceTypes) /\ (Rank(u.type) = 7 <=> u.type = SuffixSEI)
      /\ (Rank(v.type) = 6 <=> v.type \in SliceTypes) /\ (v.type = PH <=> Rank(v.type) = 5)
      /\ (u.type = PH <=> Rank(u.type) = 5)
  BY <1>2, RankIs
<1> HIDE DEF v, u
<1>5. ASSUME u.first
      PROVE  Starts(u)
  <2>1. Rank(u.type) # 7 /\ (u.type \in SliceTypes => WithPictureHeader(u))
    BY <1>3, <1>4, <1>5 DEF Begins, IsSlice
  <2>2. Rank(u.type) < 6 \/ Rank(u.type) = 6
    BY <1>4, <2>1
  <2> QED
    BY <1>4, <2>1, <2>2 DEF Starts, IsSlice
<1>6. ASSUME ~u.first
      PROVE  ~Starts(u)
  <2>1. Follows(v, u)
    BY <1>3, <1>6
  <2>2. Rank(u.type) >= 6
    <3>1. Rank(v.type) < Rank(u.type) \/ v.type = u.type
      BY <2>1 DEF Follows
    <3> QED
      BY <1>4, <3>1
  <2>3. u.type \in SliceTypes => v.type \in SliceTypes
    <3>1. Rank(v.type) < Rank(u.type) \/ v.type = u.type
      BY <2>1 DEF Follows
    <3>2. Rank(v.type) < Rank(u.type) /\ Rank(u.type) = 6 => FALSE
      BY <1>4
    <3> QED
      BY <1>4, <3>1, <3>2
  <2>4. u.type \in SliceTypes => ~WithPictureHeader(u)
    BY <2>1, <2>3 DEF Follows, IsSlice
  <2>5. ~(Rank(u.type) < 6)
    BY <1>4, <2>2
  <2> QED
    BY <2>4, <2>5 DEF Starts, IsSlice
<1> QED
  BY <1>5, <1>6 DEF u

----------------------------------------------------------------------------
(* The pictures the decoder finishes.                                      *)

\* where it is in them
Bordered ==
  /\ firstSlice => picture = {} /\ Ready(count, finished)
  /\ ~firstSlice => Amid(count, finished, picture)

Borders == phase # "write" => Bordered /\ (phase = "done" => firstSlice)

(* The pictures are of the file and the target alone.                      *)
LEMMA SameBorders ==
  ASSUME written' = written, target' = target
  PROVE  /\ \A n, fin : Ready(n, fin)' <=> Ready(n, fin)
         /\ \A n, fin, pic : Amid(n, fin, pic)' <=> Amid(n, fin, pic)
<1>1. \A a : UnitsOfPicture(a)' = UnitsOfPicture(a)
  BY DEF UnitsOfPicture, InTarget
<1>2. \A f, m : IsShown(f, m)' <=> IsShown(f, m)
  BY <1>1 DEF IsShown
<1>3. Shown' = Shown
  BY <1>2 DEF Shown
<1>4. \A n : Au(n)' = Au(n)
  BY DEF Au
<1>5. \A a, n : Seen(a, n)' = Seen(a, n)
  BY <1>1 DEF Seen
<1>6. \A n, fin : Ready(n, fin)' <=> Ready(n, fin)
  BY <1>3, <1>4, <1>5 DEF Ready, Through, Before
<1>7. \A n, fin, pic : Amid(n, fin, pic)' <=> Amid(n, fin, pic)
  BY <1>3, <1>4, <1>5 DEF Amid
<1> QED
  BY <1>6, <1>7

(* A unit that is decoded goes to the picture it is of.                    *)
LEMMA RoundBorders ==
  ASSUME Inv, NEW b, Reading(b), Bordered, ~firstSlice => ~Starts(written[count + 1]),
         NEW e, e <=> count + 1 = Len(written),
         count' = count + 1, written' = written, target' = target,
         Round(written[count + 1].type \in SliceTypes,
               ~InTarget(TemporalId(written[count + 1])), e)
  PROVE  Bordered' /\ (e => firstSlice')
<1> DEFINE n == count
           i == count + 1
           u == written[i]
           slice == u.type \in SliceTypes
           left  == ~InTarget(TemporalId(u))
           units == IF (slice /\ ~left) \/ (~left /\ ~firstSlice) THEN picture \cup {count'} ELSE picture
<1>1. /\ firstInSeq' = (firstInSeq /\ ~(slice /\ ~left))
      /\ skipped' = (left \/ (skipped /\ ~slice))
      /\ IF e /\ ~firstInSeq' /\ ~skipped'
         THEN finished' = Append(finished, units) /\ picture' = {} /\ firstSlice' = TRUE
         ELSE /\ picture' = units
              /\ firstSlice' = ((firstSlice /\ ~(slice /\ ~left)) \/ (e /\ firstInSeq'))
              /\ finished' = finished
  BY Zenon DEF Round, Finish, SkippedAfter
<1>2. /\ Flags /\ Ordered /\ Whole /\ written \in Seq(Formed) /\ i \in 1 .. Len(written) /\ WellFormed(u)
      /\ count \in Nat /\ Len(written) \in Nat
  BY NextIs DEF Inv
<1>3. n \in 0 .. Len(written) /\ i = n + 1
  BY <1>2
<1>4. /\ Rank(u.type) \in 1 .. 7
      /\ Rank(u.type) = 6 <=> slice
      /\ Rank(u.type) = 7 <=> u.type = SuffixSEI
  BY <1>2, RankIs DEF WellFormed
<1>5. Rank(u.type) >= 6 => TemporalId(u) = u.tid
  <2>0. \A t : t \in ParameterSets => t # SuffixSEI /\ t \notin SliceTypes
    BY DEF ParameterSets, SuffixSEI, SliceTypes
  <2>1. u.type \in ParameterSets => u.type # SuffixSEI /\ ~slice
    BY <2>0
  <2> HIDE DEF u, slice
  <2>2. Rank(u.type) >= 6 => u.type = SuffixSEI \/ slice
    BY <1>4
  <2> QED
    BY <2>1, <2>2 DEF TemporalId
<1>6. /\ Shows(u) <=> Rank(u.type) >= 6 /\ ~left
      /\ slice => Rank(u.type) >= 6
  BY <1>4, <1>5 DEF Shows
<1>7. /\ Ready(count, finished)' <=> Ready(i, finished')
      /\ Amid(count, finished, picture)' <=> Amid(i, finished', picture')
  BY SameBorders
<1>8. CASE firstSlice /\ ~(slice /\ ~left)
  <2>1. picture = {} /\ Ready(n, finished)
    BY <1>8 DEF Bordered
  <2>2. ~Shows(u)
    <3> SUFFICES ASSUME Shows(u)
                 PROVE  FALSE
      OBVIOUS
    <3>1. u.type # SuffixSEI
      BY <1>2, <1>3, <2>1, ReadyNoSuffix
    <3>2. ~slice /\ Rank(u.type) >= 6
      BY <1>6, <1>8
    <3> QED
      BY <1>4, <3>1, <3>2
  <2>3. Ready(i, finished)
    BY <1>2, <1>3, <2>1, <2>2, ReadyLeft
  <2>4. units = {}
    BY <1>8, <2>1
  <2>5. e => skipped'
    <3> SUFFICES ASSUME e
                 PROVE  left
      BY <1>1
    <3>0. i = Len(written) /\ Rank(written[Len(written)].type) >= 6
      BY <1>2 DEF Whole
    <3>1. Rank(u.type) >= 6
      BY <3>0
    <3> QED
      BY <1>6, <2>2, <3>1
  <2>6. firstSlice = TRUE
    BY <1>2, <1>8, Zenon DEF Flags
  <2>7. picture' = {} /\ finished' = finished /\ firstSlice'
    BY <1>1, <1>8, <2>4, <2>5, <2>6, Zenon
  <2> QED
    BY <1>7, <2>3, <2>7 DEF Bordered
<1>9. CASE firstSlice => slice /\ ~left
  <2>1. Shows(u) /\ Amid(i, finished, units) /\ ~firstInSeq' /\ ~skipped'
    <3>1. CASE firstSlice
      <4>1. slice /\ ~left
        BY <1>9, <3>1
      <4>2. Shows(u) /\ picture = {} /\ Ready(n, finished)
        BY <1>6, <3>1, <4>1 DEF Bordered
      <4>3. units = {i}
        BY <4>1, <4>2
      <4>4. Amid(i, finished, {i})
        BY <1>2, <1>3, <4>2, ReadySlice
      <4>5. ~firstInSeq' /\ ~skipped'
        BY <1>1, <4>1, Zenon
      <4> QED
        BY <4>2, <4>3, <4>4, <4>5
    <3>2. CASE ~firstSlice
      <4>1. ~Starts(u) /\ Amid(n, finished, picture)
        BY <3>2 DEF Bordered
      <4>2. /\ ~firstInSeq /\ ~skipped /\ count > 0
            /\ Rank(written[count].type) >= 6 /\ InTarget(written[count].tid)
        <5>1. firstSlice = FALSE
          BY <1>2, <3>2, Zenon DEF Flags
        <5> QED
          BY <1>2, <5>1, Zenon DEF Flags, Inside
      <4>3. n \in 1 .. Len(written)
        BY <1>2, <4>2
      <4>4. ~u.first
        BY <1>2, <1>3, <4>1, <4>2, <4>3, StartsFirst
      <4>5. Rank(u.type) >= 6
        BY <1>4, <4>1 DEF Starts
      <4>6. u.tid = written[n].tid
        <5>1. i - 1 = n
          BY <1>2
        <5>2. Follows(written[i - 1], u)
          BY <1>2, <4>4 DEF Ordered
        <5> QED
          BY <5>1, <5>2 DEF Follows
      <4>7. ~left
        BY <1>5, <4>2, <4>5, <4>6
      <4>8. Shows(u)
        BY <1>6, <4>5, <4>7
      <4>9. units = picture \cup {i}
        BY <3>2, <4>7
      <4>10. Amid(i, finished, picture \cup {i})
        BY <1>2, <1>3, <4>1, <4>4, <4>8, AmidNext
      <4>11. ~firstInSeq' /\ ~skipped'
        BY <1>1, <4>2, <4>7, Zenon
      <4> QED
        BY <4>8, <4>9, <4>10, <4>11
    <3> QED
      BY <3>1, <3>2
  <2> HIDE DEF units
  <2>2. CASE e
    <3>1. finished' = Append(finished, units) /\ picture' = {} /\ firstSlice' = TRUE
      BY <1>1, <2>1, <2>2, Zenon
    <3>2. i = Len(written)
      BY <2>2
    <3>3. Through(i, finished')
      BY <1>2, <2>1, <3>1, <3>2, AmidEnds
    <3> QED
      BY <1>7, <3>1, <3>3 DEF Bordered, Ready
  <2>3. CASE ~e
    <3>1. finished' = finished /\ picture' = units /\ ~firstSlice'
      BY <1>1, <1>9, <2>1, <2>3, Zenon
    <3> QED
      BY <1>7, <2>1, <2>3, <3>1, Zenon DEF Bordered
  <2> QED
    BY <2>2, <2>3, Zenon
<1> QED
  BY <1>8, <1>9, Zenon

(* A picture is finished in front of the next access unit,                 *)
LEMMA NewPictureBorders ==
  ASSUME Inv, phase = "read", Bordered, ~firstSlice, IsNewPicture = "yes", NewPicture
  PROVE  Bordered'
<1>1. PICK b : Reading(b)
  BY ReadingIs
<1>2. /\ Flags /\ Ordered /\ written \in Seq(Formed) /\ count + 1 \in 1 .. Len(written)
      /\ count \in Nat /\ Len(written) \in Nat
  BY <1>1, NextIs DEF Inv
<1>3. /\ ~firstInSeq /\ ~skipped /\ count > 0
      /\ Rank(written[count].type) >= 6 /\ InTarget(written[count].tid)
  <2>1. firstSlice = FALSE
    BY <1>2, Zenon DEF Flags
  <2> QED
    BY <1>2, <2>1, Zenon DEF Flags, Inside
<1>4. /\ finished' = Append(finished, picture) /\ picture' = {} /\ firstSlice' = TRUE
      /\ written' = written /\ target' = target /\ count' = count
  BY <1>3 DEF NewPicture, Finish, writer
<1>5. PICK n, i : n = count /\ i = count + 1
  OBVIOUS
<1>6. n \in 1 .. Len(written) /\ i \in 1 .. Len(written) /\ i = n + 1
  BY <1>2, <1>3, <1>5
<1>7. written[i].first
  <2>1. ~(Rank(written[i].type) >= 6 /\ ~Starts(written[i]))
    BY <1>1, <1>5, NewPictureIs
  <2>2. Rank(written[i].type) \in 1 .. 7
    BY <1>2, <1>6, RankIs DEF Ordered, AllFormed, WellFormed
  <2>3. Starts(written[i])
    BY <2>1, <2>2 DEF Starts
  <2> QED
    BY <1>2, <1>3, <1>5, <1>6, <2>3, StartsFirst
<1>8. Through(n, Append(finished, picture))
  <2>1. Amid(n, finished, picture) /\ Shows(written[n])
    BY <1>3, <1>5 DEF Bordered, Shows
  <2> QED
    BY <1>2, <1>6, <1>7, <2>1, AmidEnds
<1>9. Ready(count, finished)' <=> Ready(count', finished')
  BY <1>4, SameBorders
<1>10. firstSlice' /\ picture' = {}
  BY <1>4
<1> QED
  BY <1>4, <1>5, <1>8, <1>9, <1>10 DEF Bordered, Ready

(* or at the end of the file, or goes on.                                  *)
LEMMA TakeUnitBorders ==
  ASSUME Inv, phase = "read", NEW b, Reading(b), Bordered,
         ~firstSlice => ~Starts(written[count + 1]), TakeUnit(FALSE)
  PROVE  Bordered' /\ (phase' = "done" => firstSlice')
<1>1. PICK i : i = count + 1
  OBVIOUS
<1>2. PICK u : u = written[i]
  OBVIOUS
<1>3. PICK q : q = NalHeader(u) \o Rbsp(u)
  OBVIOUS
<1>4. PICK r : r = NextUnit(PutBack)
  OBVIOUS
<1>5. /\ i \in 1 .. Len(written) /\ WellFormed(u) /\ AllFormed /\ Ordered /\ Whole
  BY <1>1, <1>2, NextIs
<1>6. IsUnit(b, i, r)
  BY <1>1, <1>4, <1>5, PutBackIs, NextUnitHere DEF Reading
<1>7. /\ Convertible(r.unit) /\ r.unit # << >>
      /\ Converted(r.unit) = q
  BY <1>2, <1>3, <1>5, <1>6, LookHere DEF Reading, IsUnit
<1>8. TypeOf(q) = u.type /\ TidOf(q) = TemporalId(u)
  BY <1>3, <1>5, NalOk
<1>9. /\ phase' = IF r.eof THEN "done" ELSE "read"
      /\ Take(r.unit, q) /\ Round(TypeOf(q) \in SliceTypes, ~InTarget(TidOf(q)), r.eof)
      /\ written' = written /\ target' = target
  <2>1. /\ phase' = IF FALSE \/ (r.unit # <<>> /\ ~Convertible(r.unit)) THEN "failed"
                    ELSE IF r.eof THEN "done" ELSE "read"
        /\ IF phase' = "failed" THEN UNCHANGED <<decoder, count, taken>>
           ELSE IF r.unit = <<>>
           THEN UNCHANGED <<count, taken>> /\ Round(FALSE, FALSE, r.eof)
           ELSE Take(r.unit, q) /\ Round(TypeOf(q) \in SliceTypes, ~InTarget(TidOf(q)), r.eof)
        /\ UNCHANGED <<writer, target>>
    BY <1>4, <1>7 DEF TakeUnit
  <2>2. phase' = IF r.eof THEN "done" ELSE "read"
    BY <1>7, <2>1
  <2>3. phase' # "failed"
    BY <2>2
  <2>4. Take(r.unit, q) /\ Round(TypeOf(q) \in SliceTypes, ~InTarget(TidOf(q)), r.eof)
    BY <1>7, <2>1, <2>3
  <2> QED
    BY <2>1, <2>2, <2>4 DEF writer
<1>10. count' = count + 1
  BY <1>9 DEF Take
<1>11. r.eof <=> i = Len(written)
  BY <1>6 DEF IsUnit
<1>12. Round(written[count + 1].type \in SliceTypes, ~InTarget(TemporalId(written[count + 1])), r.eof)
  BY <1>1, <1>2, <1>8, <1>9
<1>13. phase' = "done" <=> r.eof
  BY <1>9
<1> QED
  BY <1>1, <1>9, <1>10, <1>11, <1>12, <1>13, RoundBorders

(* Nothing is finished before the first unit is taken.                     *)
LEMMA ReadyFirst ==
  /\ Inv /\ count = 0 /\ finished = <<>> => Ready(count, finished)
  /\ (Inv /\ count = 0 /\ finished = <<>> => Ready(count, finished))'
<1>1. Inv /\ count = 0 /\ finished = <<>> => Ready(count, finished)
  <2> SUFFICES ASSUME Inv, count = 0, finished = <<>>
               PROVE  Ready(count, finished)
    OBVIOUS
  <2>1. Ordered /\ Len(written) \in Nat /\ DOMAIN written = 1 .. Len(written)
    BY DEF Inv
  <2>2. 0 < Len(written) => written[1].first
    <3> SUFFICES ASSUME 0 < Len(written), ~written[1].first
                 PROVE  FALSE
      OBVIOUS
    <3>1. 1 \in 1 .. Len(written)
      BY <2>1
    <3> QED
      BY <2>1, <3>1 DEF Ordered
  <2>3. Shown[0] = <<>> /\ Au(0) = 0
    BY <2>1, ShownIs, AuIs
  <2>4. Through(0, <<>>)
    BY <2>2, <2>3 DEF Through
  <2> QED
    BY <2>4 DEF Ready
<1> QED
  BY <1>1, PTL

(* Every step keeps it.                                                    *)
LEMMA BordersKept ==
  ASSUME Inv, Borders, [Next]_vars
  PROVE  Borders'
<1>1. Flags /\ written \in Seq(Formed)
  BY DEF Inv
<1>2. CASE WriteSlice \/ WriteOther
  <2>1. phase = "write" /\ \E u : Write(u)
    BY <1>1, <1>2, WriteSliceIs, WriteOtherIs
  <2>2. phase' = "write"
    BY <2>1 DEF Write
  <2> QED
    BY <2>2 DEF Borders
<1>3. CASE CloseFile
  <2>1. /\ phase = "write" /\ phase' = "read"
        /\ firstSlice' = firstSlice /\ picture' = picture /\ finished' = finished
        /\ count' = count
    BY <1>3 DEF CloseFile, decoder
  <2>2. Fresh
    BY <1>1, <2>1 DEF Flags
  <2>3. count = 0 /\ firstSlice = TRUE /\ picture = {} /\ finished = <<>>
    BY <2>2 DEF Fresh
  <2>4. firstSlice' /\ picture' = {} /\ finished' = <<>> /\ count' = 0
    BY <2>1, <2>3
  <2>5. Ready(count, finished)'
    BY <1>3, <2>4, CloseKeeps, ReadyFirst
  <2> QED
    BY <2>1, <2>4, <2>5 DEF Borders, Bordered
<1>4. CASE Read
  <2>1. phase = "read"
    BY <1>4 DEF Read
  <2>2. PICK b : Reading(b)
    BY <2>1, ReadingIs
  <2>3. Bordered
    BY <2>1 DEF Borders
  <2>4. /\ IsNewPicture \in {"yes", "no"}
        /\ IsNewPicture = "yes" => ~firstSlice
        /\ ~firstSlice /\ IsNewPicture = "no" => ~Starts(written[count + 1])
    BY <2>2, NewPictureIs
  <2>5. CASE IsNewPicture = "yes" /\ NewPicture
    <3>1. Bordered'
      BY <2>1, <2>3, <2>4, <2>5, NewPictureBorders
    <3>2. phase' = "read"
      BY <2>1, <2>5 DEF NewPicture
    <3> QED
      BY <3>1, <3>2 DEF Borders
  <2>6. CASE IsNewPicture # "yes" /\ TakeUnit(IsNewPicture = "fault")
    <3>1. IsNewPicture = "no"
      BY <2>4, <2>6
    <3>2. (IsNewPicture = "fault") = FALSE
      BY <3>1
    <3>3. TakeUnit(FALSE)
      BY <2>6, <3>2, Zenon
    <3>4. Bordered' /\ (phase' = "done" => firstSlice')
      BY <2>1, <2>2, <2>3, <2>4, <3>1, <3>3, TakeUnitBorders
    <3> QED
      BY <3>4 DEF Borders
  <2> QED
    BY <1>4, <2>5, <2>6 DEF Read
<1>5. CASE UNCHANGED vars
  <2>1. /\ written' = written /\ phase' = phase /\ target' = target /\ firstSlice' = firstSlice
        /\ picture' = picture /\ finished' = finished /\ count' = count
    BY <1>5 DEF vars, decoder
  <2>2. /\ Ready(count, finished)' <=> Ready(count', finished')
        /\ Amid(count, finished, picture)' <=> Amid(count', finished', picture')
    BY <2>1, SameBorders
  <2>3. Bordered' <=> Bordered
    BY <2>1, <2>2, Zenon DEF Bordered
  <2> QED
    BY <2>1, <2>3, Zenon DEF Borders
<1> QED
  BY <1>2, <1>3, <1>4, <1>5 DEF Next, Done

(* A sequence that begins another.                                         *)
LEMMA PrefixIs ==
  ASSUME NEW X, NEW s \in Seq(X), NEW t \in Seq(X), Len(s) <= Len(t),
         \A k \in 1 .. Len(s) : t[k] = s[k]
  PROVE  IsPrefix(s, t)
<1>1. Len(s) \in Nat /\ Len(t) \in Nat
  OBVIOUS
<1>2. PICK m : m = Len(s)
  OBVIOUS
<1>3. m \in Nat /\ m <= Len(s) /\ m <= Len(t)
  BY <1>1, <1>2
<1>4. /\ SubSeq(s, 1, m) = [k \in 1 .. m |-> s[k]]
      /\ SubSeq(t, 1, m) = [k \in 1 .. m |-> t[k]]
  BY <1>1, <1>3
<1> QED
  BY <1>2, <1>4 DEF IsPrefix

(* After the last access unit nothing is shown.                            *)
LEMMA ShownEnds ==
  ASSUME written \in Seq(Formed)
  PROVE  Au(Len(written)) \in 0 .. Len(written) /\ Shown[Len(written)] = Shown[Au(Len(written))]
<1> DEFINE n == Len(written)
           x == Au(n)
           S == {m \in Nat : x + m <= n => Shown[x + m] = Shown[x]}
<1>1. n \in Nat /\ DOMAIN written = 1 .. n
  OBVIOUS
<1>2. /\ \A p \in 0 .. Len(written) : Au(p) \in 0 .. p
      /\ \A p, q \in 0 .. Len(written) : p <= q => Au(p) <= Au(q)
  BY <1>1, AuIs
<1>3. x \in 0 .. n
  BY <1>1, <1>2
<1>4. ASSUME NEW a \in Nat, a > x
      PROVE  UnitsOfPicture(a) = {}
  <2> SUFFICES ASSUME NEW j \in UnitsOfPicture(a)
               PROVE  FALSE
    OBVIOUS
  <2>1. j \in 1 .. n /\ Au(j) = a
    BY <1>1 DEF UnitsOfPicture, Au
  <2>2. j \in 0 .. n /\ j <= n /\ n \in 0 .. n
    BY <1>1, <2>1
  <2>3. Au(j) <= Au(n)
    BY <1>2, <2>2
  <2> HIDE DEF x, n
  <2>4. a <= x
    BY <2>1, <2>3 DEF x
  <2> QED
    BY <1>3, <1>4, <2>4
<1> HIDE DEF x
<1>5. 0 \in S
  BY <1>3
<1>6. ASSUME NEW m \in S
      PROVE  m + 1 \in S
  <2>1. PICK y : y = x + m
    OBVIOUS
  <2>2. m \in Nat /\ x \in Nat /\ y \in Nat /\ x + (m + 1) = y + 1 /\ y + 1 > x /\ (y + 1) - 1 = y
    BY <1>3, <1>6, <2>1
  <2>3. SUFFICES ASSUME y + 1 <= n
                 PROVE  Shown[y + 1] = Shown[x]
    BY <2>2
  <2>4. y <= n /\ y + 1 \in 1 .. n
    BY <1>1, <2>2, <2>3
  <2>5. Shown[y] = Shown[x]
    BY <1>6, <2>1, <2>4
  <2>6. UnitsOfPicture(y + 1) = {}
    BY <1>4, <2>2
  <2>7. Shown[y + 1] = Shown[y]
    BY <1>1, <2>2, <2>4, <2>6, ShownIs
  <2> QED
    BY <2>5, <2>7
<1>7. S = Nat
  <2> HIDE DEF S
  <2>1. S \in SUBSET Nat
    BY DEF S
  <2> QED
    BY <1>5, <1>6, <2>1, Induction
<1>8. PICK m : m = n
  OBVIOUS
<1>9. m \in Nat /\ x \in 0 .. m
  BY <1>1, <1>3, <1>8
<1>10. m - x \in Nat /\ x + (m - x) = m /\ m <= m
  BY ONLY <1>9
<1>11. x + (m - x) <= n => Shown[x + (m - x)] = Shown[x]
  BY <1>7, <1>10
<1>12. Shown[n] = Shown[x]
  BY <1>8, <1>10, <1>11
<1> QED
  BY <1>3, <1>12 DEF x

(* What is finished is what is shown up to the access unit before, or that *)
(* of the last unit taken.                                                 *)
LEMMA FinishedIs ==
  ASSUME Inv, Borders, phase # "write"
  PROVE  /\ Au(count) \in 0 .. Len(written)
         /\ \E a \in 0 .. Len(written) : finished = Shown[a]
         /\ phase = "done" => finished = Shown[Len(written)]
         /\ picture # {} => Amid(count, finished, picture)
<1>1. /\ Flags /\ written \in Seq(Formed) /\ Bordered /\ (phase = "done" => firstSlice)
      /\ Len(written) \in Nat /\ DOMAIN written = 1 .. Len(written)
  BY DEF Inv, Borders
<1>2. /\ count \in Nat /\ count <= Len(written) /\ count \in 0 .. Len(written)
      /\ phase = "done" => count = Len(written)
  <2>1. count \in Nat /\ count <= Len(written) /\ (phase = "done" => count = Len(written))
    BY <1>1, Zenon DEF Flags
  <2>2. PICK n, c : n = Len(written) /\ c = count
    OBVIOUS
  <2>3. n \in Nat /\ c \in Nat /\ c <= n
    BY <1>1, <2>1, <2>2, Zenon
  <2>4. c \in 0 .. n
    BY ONLY <2>3
  <2> QED
    BY <2>1, <2>2, <2>4, Zenon
<1>3. PICK x : x = Au(count)
  OBVIOUS
<1>4. x \in 0 .. Len(written) /\ x \in Nat
  <2>1. \A p \in 0 .. Len(written) : Au(p) \in 0 .. p
    BY <1>1, AuIs
  <2>2. x \in 0 .. count
    BY <1>2, <1>3, <2>1
  <2> QED
    <3>1. PICK n, c : n = Len(written) /\ c = count
      OBVIOUS
    <3>2. n \in Nat /\ c \in Nat /\ c <= n /\ x \in 0 .. c
      BY <1>1, <1>2, <2>2, <3>1, Zenon
    <3>3. x \in 0 .. n /\ x \in Nat
      BY ONLY <3>2
    <3> QED
      BY <3>1, <3>3, Zenon
<1>5. x > 0 => x - 1 \in 0 .. Len(written) /\ x \in 1 .. Len(written)
  BY <1>1, <1>4
<1>6. \/ finished = Shown[x]
      \/ x > 0 /\ finished = Shown[x - 1]
  BY <1>1, <1>3, Zenon DEF Bordered, Ready, Through, Before, Amid
<1>7. \E a \in 0 .. Len(written) : finished = Shown[a]
  BY <1>4, <1>5, <1>6
<1>8. picture # {} => Amid(count, finished, picture)
  BY <1>1, Zenon DEF Bordered
<1>9. ASSUME phase = "done"
      PROVE  finished = Shown[Len(written)]
  <2>1. Ready(count, finished) /\ count = Len(written)
    BY <1>1, <1>2, <1>9, Zenon DEF Bordered
  <2>2. Shown[Len(written)] = Shown[x]
    BY <1>1, <1>3, <2>1, ShownEnds
  <2>3. CASE finished = Shown[x]
    BY <2>2, <2>3
  <2>4. CASE Before(count, finished)
    <3>1. x > 0 /\ finished = Shown[x - 1] /\ Seen(x, count) = {}
      BY <1>3, <2>4 DEF Before
    <3>2. UnitsOfPicture(x) = Seen(x, count)
      BY <1>1, <2>1, ShownIs DEF Seen
    <3>3. Shown[x] = Shown[x - 1]
      BY <1>1, <1>5, <3>1, <3>2, ShownIs
    <3> QED
      BY <2>2, <3>1, <3>3
  <2> QED
    BY <1>3, <2>1, <2>3, <2>4 DEF Ready, Through
<1> QED
  BY <1>3, <1>4, <1>7, <1>8, <1>9

(* So the pictures come whole and in order.                                *)
LEMMA Delimiting ==
  ASSUME Inv, Borders
  PROVE  PicturesDelimited
<1> DEFINE P == Shown[Len(written)]
           Q == [k \in DOMAIN P |-> P[k] \cap 1 .. count]
<1>1. /\ Flags /\ written \in Seq(Formed) /\ Len(written) \in Nat /\ DOMAIN written = 1 .. Len(written)
      /\ count \in Nat /\ count <= Len(written)
  BY DEF Inv, Flags
<1>2. /\ \A a \in 0 .. Len(written) : Shown[a] \in Seq(SUBSET Nat) /\ Len(Shown[a]) \in Nat
      /\ \A a : UnitsOfPicture(a) \in SUBSET Nat
  BY <1>1, ShownIs
<1>3. Len(written) \in 0 .. Len(written) /\ P \in Seq(SUBSET Nat)
  BY <1>1, <1>2
<1>4. P = Pictures
  BY PicturesIs
<1>5. ASSUME NEW a \in 0 .. Len(written)
      PROVE  IsPrefix(Shown[a], P)
  <2>1. a <= Len(written)
    BY <1>1
  <2>2. /\ Len(Shown[a]) <= Len(P)
        /\ \A k \in 1 .. Len(Shown[a]) : P[k] = Shown[a][k]
    BY <1>1, <1>3, <2>1, ShownBegins
  <2>3. Shown[a] \in Seq(SUBSET Nat)
    BY <1>2
  <2> HIDE DEF P
  <2> QED
    BY <1>3, <2>2, <2>3, PrefixIs
<1>6. CASE phase = "write"
  <2>1. finished = <<>> /\ picture = {} /\ phase # "done"
    BY <1>1, <1>6 DEF Flags, Fresh
  <2>2. Shown[0] = <<>> /\ 0 \in 0 .. Len(written)
    BY <1>1, ShownIs
  <2>3. IsPrefix(finished, P)
    BY <1>5, <2>1, <2>2
  <2> HIDE DEF P
  <2> QED
    BY <1>4, <2>1, <2>3 DEF PicturesDelimited
<1>7. CASE phase # "write"
  <2>1. /\ Au(count) \in 0 .. Len(written)
        /\ \E a \in 0 .. Len(written) : finished = Shown[a]
        /\ phase = "done" => finished = P
        /\ picture # {} => Amid(count, finished, picture)
    BY <1>7, FinishedIs
  <2>2. IsPrefix(finished, P)
    BY <1>5, <2>1
  <2>3. ASSUME picture # {}
        PROVE  IsPrefix(Append(finished, picture), Q)
    <3>1. PICK x : x = Au(count)
      OBVIOUS
    <3>2. x > 0 /\ finished = Shown[x - 1] /\ picture = Seen(x, count)
      BY <2>1, <2>3, <3>1 DEF Amid
    <3>3. x \in 1 .. Len(written) /\ x - 1 \in 0 .. Len(written) /\ x \in 0 .. Len(written) /\ x \in Nat
      BY <1>1, <2>1, <3>1, <3>2
    <3>4. UnitsOfPicture(x) # {}
      BY <2>3, <3>2 DEF Seen
    <3>5. Shown[x] = Append(finished, UnitsOfPicture(x))
      BY <1>1, <3>2, <3>3, <3>4, ShownIs
    <3>6. /\ finished \in Seq(SUBSET Nat) /\ Len(finished) \in Nat
          /\ picture \in SUBSET Nat /\ UnitsOfPicture(x) \in SUBSET Nat
      <4>1. finished \in Seq(SUBSET Nat) /\ picture \in SUBSET Nat
        BY <1>1, Zenon DEF Flags
      <4> QED
        BY <1>2, <4>1
    <3>7. PICK m : m = Len(finished)
      OBVIOUS
    <3>8. PICK s : s = Append(finished, picture)
      OBVIOUS
    <3>9. /\ s \in Seq(SUBSET Nat) /\ Len(s) = m + 1 /\ m \in Nat
          /\ s[m + 1] = picture
          /\ \A k \in 1 .. m : s[k] = finished[k]
      BY <3>6, <3>7, <3>8, AppendProperties
    <3>10. /\ Len(Shown[x]) = m + 1
           /\ Shown[x][m + 1] = UnitsOfPicture(x)
           /\ \A k \in 1 .. m : Shown[x][k] = finished[k]
      BY <3>5, <3>6, <3>7, AppendProperties
    <3>11. x <= Len(written)
      BY <1>1, <3>3
    <3>12. /\ Len(Shown[x]) <= Len(P)
           /\ \A k \in 1 .. Len(Shown[x]) : P[k] = Shown[x][k]
      BY <1>1, <1>3, <3>3, <3>11, ShownBegins
    <3> HIDE DEF P
    <3>13. PICK l : l = Len(P)
      OBVIOUS
    <3>14. l \in Nat /\ m + 1 <= l /\ DOMAIN P = 1 .. l
      BY <1>3, <3>10, <3>12, <3>13
    <3>15. Q \in Seq(SUBSET Nat) /\ Len(Q) = l /\ \A k \in 1 .. l : Q[k] = P[k] \cap 1 .. count
      <4>1. Q = [k \in 1 .. l |-> P[k] \cap 1 .. count]
        BY <3>14
      <4>2. \A k \in 1 .. l : P[k] \cap 1 .. count \in SUBSET Nat
        OBVIOUS
      <4> HIDE DEF Q
      <4>3. DOMAIN Q = 1 .. l /\ \A k \in 1 .. l : Q[k] = P[k] \cap 1 .. count
        BY <4>1
      <4>4. Q \in [1 .. l -> SUBSET Nat]
        BY <4>1, <4>2
      <4> QED
        BY <3>14, <4>3, <4>4
    <3> HIDE DEF Q
    <3>16. ASSUME NEW k \in 1 .. Len(s)
           PROVE  Q[k] = s[k]
      <4>1. k \in 1 .. l /\ k \in 1 .. m + 1 /\ (k \in 1 .. m \/ k = m + 1)
        BY <3>9, <3>14
      <4>2. Q[k] = Shown[x][k] \cap 1 .. count
        BY <3>10, <3>12, <3>15, <4>1
      <4>3. CASE k = m + 1
        BY <3>2, <3>9, <3>10, <4>2, <4>3 DEF Seen
      <4>4. CASE k \in 1 .. m
        <5>1. Q[k] = finished[k] \cap 1 .. count /\ s[k] = finished[k]
          BY <3>9, <3>10, <4>2, <4>4
        <5>2. PICK c \in 1 .. x - 1 : finished[k] = UnitsOfPicture(c)
          BY <1>1, <3>2, <3>3, <3>7, <4>4, ShownAre
        <5>3. ASSUME NEW j \in UnitsOfPicture(c)
              PROVE  j \in 1 .. count
          <6>1. j \in 1 .. Len(written) /\ Au(j) = c
            BY <1>1, <5>3 DEF UnitsOfPicture, Au
          <6>2. j \in 0 .. Len(written) /\ count \in 0 .. Len(written)
            BY <1>1, <6>1
          <6>3. count <= j => x <= c
            BY <1>1, <3>1, <6>1, <6>2, AuIs
          <6>4. c < x
            BY <3>3
          <6> QED
            BY <1>1, <3>3, <6>1, <6>3, <6>4
        <5> QED
          BY <5>1, <5>2, <5>3
      <4> QED
        BY <4>1, <4>3, <4>4
    <3>17. Len(s) <= Len(Q)
      BY <3>9, <3>14, <3>15
    <3>18. IsPrefix(s, Q)
      BY <3>9, <3>15, <3>16, <3>17, PrefixIs
    <3> QED
      BY <3>8, <3>18
  <2>4. Q = [k \in DOMAIN Pictures |-> Pictures[k] \cap 1 .. count]
    BY <1>4
  <2> HIDE DEF P, Q
  <2> QED
    BY <1>4, <2>1, <2>2, <2>3, <2>4 DEF PicturesDelimited
<1> QED
  BY <1>6, <1>7

(* However many access units there are, whatever they hold and whichever   *)
(* are left out, the decoder finishes each picture whole before the first  *)
(* unit of the next, each once, in order, and the last at the end of the   *)
(* file.                                                                   *)
THEOREM PicturesDelimitedAlways == Spec => []PicturesDelimited
<1>1. Init => Borders
  BY DEF Init, Borders
<1>2. Inv /\ Borders /\ [Next]_vars => Borders'
  BY BordersKept
<1>3. Inv /\ Borders => PicturesDelimited
  BY Delimiting
<1> QED
  BY Invariance, <1>1, <1>2, <1>3, PTL DEF Spec
=============================================================================
