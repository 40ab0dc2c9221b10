-------------------------- MODULE SliceCodingProofs --------------------------
(***************************************************************************)
(* The three loops over a slice's CTUs agree without telling each other    *)
(* anything: whatever picture, however it is cut into tiles and slices,    *)
(* with and without WPP and entry points.  What they share is a history of *)
(* the slice, a mark after every CTU, which the encoder's substreams are   *)
(* written by (EncAt), the header's entry points cut (Extracted, Layout)   *)
(* and the decoder's state reads off (DecAt).  A picture has at least as   *)
(* many substreams as a slice has cuts (CutsFit), and in a slice of one    *)
(* tile both predict a QP from the same CTU (Predicted).                   *)
(***************************************************************************)
EXTENDS SliceCoding, FiniteSetTheorems, SequenceTheorems, WellFoundedInduction, TLAPS

----------------------------------------------------------------------------
(* Numbers.                                                                *)

(* A set of numbers that is not empty has a least one.                     *)
LEMMA Least ==
  ASSUME NEW T \in SUBSET Nat, T # {}
  PROVE  \E n \in T : \A m \in T : n <= m
<1> DEFINE R == OpToRel(<, Nat)
<1>1. IsWellFoundedOn(R, Nat)
  BY NatLessThanWellFounded, Zenon
<1>2. \A x, y \in Nat : y < x => <<y, x>> \in R
  BY DEF OpToRel
<1> HIDE DEF R
<1>3. PICK x \in T : \A y \in T : <<y, x>> \notin R
  BY <1>1, WFMin, Zenon
<1>4. ASSUME NEW y \in T
      PROVE  x <= y
  <2>1. x \in Nat /\ y \in Nat /\ ~(y < x)
    BY <1>2, <1>3
  <2> QED
    BY <2>1
<1> QED
  BY <1>4

(* A set that holds 0 and every successor holds all numbers.               *)
LEMMA Induction ==
  ASSUME NEW S \in SUBSET Nat, 0 \in S, \A n \in S : n + 1 \in S
  PROVE  S = Nat
<1>1. ASSUME Nat \ S # {}
      PROVE  FALSE
  <2>1. PICK n \in Nat \ S : \A m \in Nat \ S : n <= m
    BY <1>1, Least
  <2>2. n # 0 /\ n - 1 \in Nat /\ n - 1 \in S
    BY <2>1
  <2> QED
    BY <2>1, <2>2
<1> QED
  BY <1>1

(* The boundary at or before a column (or row), among boundaries that begin with 0. *)
LEMMA MaxBelow ==
  ASSUME NEW S \in SUBSET Nat, 0 \in S, NEW x \in Nat
  PROVE  LET m == Max({c \in S : c <= x}) IN m \in S /\ m <= x /\ \A c \in S : c <= x => c <= m
<1> DEFINE T == {n \in 0 .. x : x - n \in S}
           B == {c \in S : c <= x}
<1>1. x \in T
  OBVIOUS
<1>2. PICK n \in T : \A m \in T : n <= m
  <2> HIDE DEF T
  <2>1. T \in SUBSET Nat /\ T # {}
    BY <1>1 DEF T
  <2> QED
    BY <2>1, Least
<1>3. x - n \in B
  BY <1>2
<1>4. ASSUME NEW c \in B
      PROVE  x - n >= c
  <2>1. c \in Nat /\ c <= x /\ c \in S
    OBVIOUS
  <2>2. x - c \in T
    <3>1. x - c \in 0 .. x /\ x - (x - c) = c
      BY <2>1
    <3> QED
      BY <2>1, <3>1
  <2>3. n <= x - c /\ n \in Nat
    <3>1. n \in 0 .. x
      BY <1>2
    <3> HIDE DEF T
    <3> QED
      BY <1>2, <2>2, <3>1
  <2> QED
    BY <2>1, <2>3
<1> DEFINE m == CHOOSE y \in B : \A c \in B : y >= c
<1> HIDE DEF B
<1>5. m \in B /\ \A c \in B : m >= c
  BY <1>3, <1>4
<1>6. Max(B) = m
  BY DEF Max
<1> HIDE DEF m
<1>7. m \in S /\ m <= x /\ \A c \in S : c <= x => m >= c
  BY <1>5 DEF B
<1>8. m \in Nat /\ \A c \in S : c \in Nat
  BY <1>7
<1> QED
  BY <1>6, <1>7, <1>8 DEF B

(* The next boundary, or the end.                                          *)
LEMMA MinAbove ==
  ASSUME NEW S \in SUBSET Nat, NEW x \in Nat, \E c \in S : c > x
  PROVE  LET m == Min({c \in S : c > x}) IN m \in S /\ m > x /\ \A c \in S : c > x => m <= c
<1> DEFINE B == {c \in S : c > x}
<1>1. B \in SUBSET Nat /\ B # {}
  OBVIOUS
<1> DEFINE m == CHOOSE y \in B : \A c \in B : y =< c
<1>2. Min(B) = m
  BY DEF Min
<1> HIDE DEF B
<1>3. \E y \in B : \A c \in B : y <= c
  BY <1>1, Least
<1>4. m \in B /\ \A c \in B : m <= c
  BY <1>3
<1> HIDE DEF m
<1> QED
  BY <1>2, <1>4 DEF B

(* The larger of two.                                                      *)
LEMMA MaxOfTwo ==
  ASSUME NEW x \in Nat, NEW y \in Nat
  PROVE  Max({x, y}) \in Nat /\ x <= Max({x, y}) /\ y <= Max({x, y})
<1> DEFINE B == {x, y}
           m == CHOOSE a \in B : \A b \in B : a >= b
<1>1. \E a \in B : \A b \in B : a >= b
  <2>1. CASE x >= y
    BY <2>1
  <2>2. CASE y >= x
    BY <2>2
  <2> QED
    BY <2>1, <2>2
<1>2. Max(B) = m
  BY DEF Max
<1> HIDE DEF B
<1>3. m \in B /\ \A b \in B : m >= b
  BY <1>1
<1> HIDE DEF m
<1> QED
  BY <1>2, <1>3 DEF B

----------------------------------------------------------------------------
(* Grids.                                                                  *)

Addrs(g) == 0 .. g.width * g.height - 1

(* An address is its column and its row.                                   *)
LEMMA Place ==
  ASSUME NEW g, IsGrid(g), NEW a \in Addrs(g)
  PROVE  /\ X(g, a) \in 0 .. g.width - 1 /\ Y(g, a) \in 0 .. g.height - 1
         /\ a = g.width * Y(g, a) + X(g, a)
<1> DEFINE w == g.width
           h == g.height
           x == a % w
           y == a \div w
<1>1. w \in Nat /\ w >= 1 /\ h \in Nat /\ h >= 1 /\ a \in Nat /\ a < w * h
  <2>1. w \in Nat /\ w >= 1 /\ h \in Nat /\ h >= 1
    BY DEF IsGrid
  <2>2. a \in 0 .. w * h - 1
    BY DEF Addrs
  <2> HIDE DEF w, h
  <2>3. w * h \in Nat
    BY <2>1
  <2> QED
    BY <2>1, <2>2, <2>3
<1> HIDE DEF w, h
<1>2. x \in Nat /\ x <= w - 1 /\ y \in Int /\ a = w * y + x
  BY <1>1
<1>3. X(g, a) = x /\ Y(g, a) = y
  BY DEF X, Y, w
<1> HIDE DEF x, y
<1>4. y >= 0
  <2>1. CASE y <= -1
    <3>1. w * y <= w * (-1)
      BY <1>1, <1>2, <2>1
    <3> QED
      BY <3>1, <1>1, <1>2
  <2> QED
    BY <2>1, <1>2
<1>5. y <= h - 1
  <2>1. CASE y >= h
    <3>1. w * y >= w * h /\ w * y \in Int
      BY <1>1, <1>2, <2>1
    <3> QED
      BY <3>1, <1>1, <1>2
  <2> QED
    BY <2>1, <1>1, <1>2
<1> QED
  BY <1>1, <1>2, <1>3, <1>4, <1>5 DEF w, h

(* What columns and rows have in common: the boundary before and after.    *)
LEMMA ColumnBounds ==
  ASSUME NEW g, IsGrid(g), NEW x \in 0 .. g.width - 1
  PROVE  /\ TileColBd(g, x) \in g.cols /\ TileColBd(g, x) <= x
         /\ \A c \in g.cols : c <= x => c <= TileColBd(g, x)
         /\ TileColEnd(g, x) \in g.cols \cup {g.width} /\ TileColEnd(g, x) > x
         /\ \A c \in g.cols \cup {g.width} : c > x => TileColEnd(g, x) <= c
<1>1. g.cols \in SUBSET Nat /\ 0 \in g.cols /\ g.width \in Nat /\ x \in Nat /\ x < g.width
  BY DEF IsGrid
<1>2. /\ TileColBd(g, x) \in g.cols /\ TileColBd(g, x) <= x
      /\ \A c \in g.cols : c <= x => c <= TileColBd(g, x)
  <2> DEFINE S == g.cols
  <2>1. S \in SUBSET Nat /\ 0 \in S /\ x \in Nat /\ TileColBd(g, x) = Max({c \in S : c <= x})
    BY <1>1 DEF TileColBd
  <2> HIDE DEF S
  <2>2. LET m == Max({c \in S : c <= x}) IN m \in S /\ m <= x /\ \A c \in S : c <= x => c <= m
    BY <2>1, MaxBelow
  <2> QED
    BY <2>1, <2>2 DEF S
<1>3. /\ TileColEnd(g, x) \in g.cols \cup {g.width} /\ TileColEnd(g, x) > x
      /\ \A c \in g.cols \cup {g.width} : c > x => TileColEnd(g, x) <= c
  <2> DEFINE S == g.cols \cup {g.width}
  <2>1. /\ S \in SUBSET Nat /\ x \in Nat /\ g.width \in S /\ g.width > x
        /\ TileColEnd(g, x) = Min({c \in S : c > x})
    BY <1>1 DEF TileColEnd
  <2> HIDE DEF S
  <2>2. LET m == Min({c \in S : c > x}) IN m \in S /\ m > x /\ \A c \in S : c > x => m <= c
    BY <2>1, MinAbove
  <2> QED
    BY <2>1, <2>2 DEF S
<1> QED
  BY <1>2, <1>3

(* The same for rows.                                                      *)
LEMMA RowBounds ==
  ASSUME NEW g, IsGrid(g), NEW y \in 0 .. g.height - 1
  PROVE  /\ TileRowBd(g, y) \in g.rows /\ TileRowBd(g, y) <= y
         /\ \A r \in g.rows : r <= y => r <= TileRowBd(g, y)
         /\ TileRowEnd(g, y) \in g.rows \cup {g.height} /\ TileRowEnd(g, y) > y
         /\ \A r \in g.rows \cup {g.height} : r > y => TileRowEnd(g, y) <= r
<1>1. g.rows \in SUBSET Nat /\ 0 \in g.rows /\ g.height \in Nat /\ y \in Nat /\ y < g.height
  BY DEF IsGrid
<1>2. /\ TileRowBd(g, y) \in g.rows /\ TileRowBd(g, y) <= y
      /\ \A r \in g.rows : r <= y => r <= TileRowBd(g, y)
  <2> DEFINE S == g.rows
  <2>1. S \in SUBSET Nat /\ 0 \in S /\ y \in Nat /\ TileRowBd(g, y) = Max({r \in S : r <= y})
    BY <1>1 DEF TileRowBd
  <2> HIDE DEF S
  <2>2. LET m == Max({r \in S : r <= y}) IN m \in S /\ m <= y /\ \A r \in S : r <= y => r <= m
    BY <2>1, MaxBelow
  <2> QED
    BY <2>1, <2>2 DEF S
<1>3. /\ TileRowEnd(g, y) \in g.rows \cup {g.height} /\ TileRowEnd(g, y) > y
      /\ \A r \in g.rows \cup {g.height} : r > y => TileRowEnd(g, y) <= r
  <2> DEFINE S == g.rows \cup {g.height}
  <2>1. /\ S \in SUBSET Nat /\ y \in Nat /\ g.height \in S /\ g.height > y
        /\ TileRowEnd(g, y) = Min({r \in S : r > y})
    BY <1>1 DEF TileRowEnd
  <2> HIDE DEF S
  <2>2. LET m == Min({r \in S : r > y}) IN m \in S /\ m > y /\ \A r \in S : r > y => m <= r
    BY <2>1, MinAbove
  <2> QED
    BY <2>1, <2>2 DEF S
<1> QED
  BY <1>2, <1>3

----------------------------------------------------------------------------
(* The next CTU of a slice.                                                *)

TileStart(g, a) == IsTileColBd(g, a) /\ IsTileRowBd(g, a)

(* What lies within a tile is not its boundary, and the other way round.   *)
LEMMA NextColumn ==
  ASSUME NEW g, IsGrid(g), NEW x \in 0 .. g.width - 1, x + 1 \in 0 .. g.width - 1
  PROVE  TileColBd(g, x + 1) = TileColBd(g, x) => x + 1 \notin g.cols /\ x + 1 # TileColEnd(g, x)
<1>1. x \in Int /\ g.width \in Int
  BY DEF IsGrid
<1>2. TileColBd(g, x) <= x /\ TileColBd(g, x) \in Int
  BY ColumnBounds DEF IsGrid
<1>3. x + 1 \in g.cols => x + 1 <= TileColBd(g, x + 1)
  BY <1>1, ColumnBounds
<1>4. x + 1 = TileColEnd(g, x) => x + 1 \in g.cols
  <2>1. TileColEnd(g, x) \in g.cols \cup {g.width}
    BY ColumnBounds
  <2>2. x + 1 # g.width
    BY <1>1
  <2> QED
    BY <2>1, <2>2
<1> QED
  BY <1>1, <1>2, <1>3, <1>4

(* The same for rows.                                                      *)
LEMMA NextRow ==
  ASSUME NEW g, IsGrid(g), NEW y \in 0 .. g.height - 1, y + 1 \in 0 .. g.height - 1
  PROVE  TileRowBd(g, y + 1) = TileRowBd(g, y) => y + 1 \notin g.rows /\ y + 1 # TileRowEnd(g, y)
<1>1. y \in Int /\ g.height \in Int
  BY DEF IsGrid
<1>2. TileRowBd(g, y) <= y /\ TileRowBd(g, y) \in Int
  BY RowBounds DEF IsGrid
<1>3. y + 1 \in g.rows => y + 1 <= TileRowBd(g, y + 1)
  BY <1>1, RowBounds
<1>4. y + 1 = TileRowEnd(g, y) => y + 1 \in g.rows
  <2>1. TileRowEnd(g, y) \in g.rows \cup {g.height}
    BY RowBounds
  <2>2. y + 1 # g.height
    BY <1>1
  <2> QED
    BY <2>1, <2>2
<1> QED
  BY <1>1, <1>2, <1>3, <1>4

(* Every test of the two coders asks the same of the next CTU.             *)
LEMMA NextCtu ==
  ASSUME NEW g, IsGrid(g), NEW a \in Addrs(g), NEW b \in Addrs(g), Follows(g, a, b)
  PROVE  /\ TileOf(g, b) # TileOf(g, a) => /\ TileStart(g, b) /\ X(g, a) + 1 = TileColEnd(g, X(g, a))
                                           /\ Y(g, a) + 1 = TileRowEnd(g, Y(g, a))
         /\ TileOf(g, b) = TileOf(g, a) =>
              /\ ~TileStart(g, b)
              /\ IsTileColBd(g, b) => /\ X(g, a) + 1 = TileColEnd(g, X(g, a)) /\ Y(g, b) = Y(g, a) + 1
                                      /\ Y(g, a) + 1 # TileRowEnd(g, Y(g, a))
              /\ ~IsTileColBd(g, b) => /\ X(g, a) + 1 # TileColEnd(g, X(g, a)) /\ Y(g, b) = Y(g, a)
                                       /\ X(g, b) = X(g, a) + 1
<1>1. /\ X(g, a) \in 0 .. g.width - 1 /\ Y(g, a) \in 0 .. g.height - 1
      /\ X(g, b) \in 0 .. g.width - 1 /\ Y(g, b) \in 0 .. g.height - 1
  BY Place
<1>2. CASE TileOf(g, b) = TileOf(g, a) /\ Y(g, b) = Y(g, a) /\ X(g, b) = X(g, a) + 1
  <2>1. TileColBd(g, X(g, b)) = TileColBd(g, X(g, a))
    BY <1>2 DEF TileOf
  <2>2. X(g, b) \notin g.cols /\ X(g, a) + 1 # TileColEnd(g, X(g, a))
    BY <1>1, <1>2, <2>1, NextColumn
  <2> QED
    BY <1>2, <2>2 DEF IsTileColBd, TileStart
<1>3. CASE X(g, a) + 1 = TileColEnd(g, X(g, a)) /\ IsTileColBd(g, b)
           /\ TileOf(g, b) = TileOf(g, a) /\ Y(g, b) = Y(g, a) + 1
  <2>1. TileRowBd(g, Y(g, b)) = TileRowBd(g, Y(g, a))
    BY <1>3 DEF TileOf
  <2>2. Y(g, b) \notin g.rows /\ Y(g, a) + 1 # TileRowEnd(g, Y(g, a))
    BY <1>1, <1>3, <2>1, NextRow
  <2> QED
    BY <1>3, <2>2 DEF IsTileRowBd, TileStart
<1>4. CASE X(g, a) + 1 = TileColEnd(g, X(g, a)) /\ IsTileColBd(g, b)
           /\ TileOf(g, b) # TileOf(g, a) /\ IsTileRowBd(g, b) /\ Y(g, a) + 1 = TileRowEnd(g, Y(g, a))
  BY <1>4 DEF TileStart
<1> QED
  BY <1>2, <1>3, <1>4 DEF Follows

----------------------------------------------------------------------------
(* Where substreams end.                                                   *)

\* WPP begins a row of a tile
RowStart(p, a) == ~TileStart(p.grid, a) /\ IsTileColBd(p.grid, a) /\ p.wpp

\* a substream ends after the first j CTUs of the slice and another begins
Cut(p, s, j) ==
  \/ TileOf(p.grid, s[j + 1]) # TileOf(p.grid, s[j])
  \/ p.wpp /\ IsTileColBd(p.grid, s[j + 1])

(* encodeSlice, decompressSlice, the set-up of contexts and                *)
(* setNumEntryPoints see a cut in the same places.                         *)
LEMMA CutTests ==
  ASSUME NEW p, IsGrid(p.grid), p.wpp \in BOOLEAN, NEW s, IsSlice(p.grid, s), NEW j \in 1 .. Len(s) - 1
  PROVE  /\ s[j] \in Addrs(p.grid) /\ s[j + 1] \in Addrs(p.grid)
         /\ Cut(p, s, j) <=> /\ X(p.grid, s[j]) + 1 = TileColEnd(p.grid, X(p.grid, s[j]))
                             /\ Y(p.grid, s[j]) + 1 = TileRowEnd(p.grid, Y(p.grid, s[j])) \/ p.wpp
         /\ Cut(p, s, j) <=> TileStart(p.grid, s[j + 1]) \/ RowStart(p, s[j + 1])
         /\ Cut(p, s, j) <=> \/ TileOf(p.grid, s[j + 1]) # TileOf(p.grid, s[j])
                             \/ p.wpp /\ Y(p.grid, s[j + 1]) # Y(p.grid, s[j])
<1> DEFINE g == p.grid
           a == s[j]
           b == s[j + 1]
<1>1. a \in Addrs(g) /\ b \in Addrs(g) /\ Follows(g, a, b)
  <2>1. s \in Seq(Addrs(g)) /\ j \in 1 .. Len(s) /\ j + 1 \in 1 .. Len(s)
    BY DEF IsSlice, Addrs
  <2> QED
    BY <2>1 DEF IsSlice
<1>2. Y(g, a) \in Int /\ (Y(g, b) = Y(g, a) + 1 => Y(g, b) # Y(g, a))
  BY <1>1, Place
<1> HIDE DEF g, a, b
<1>3. IsGrid(g)
  BY DEF g
<1>4. CASE TileOf(g, b) # TileOf(g, a)
  <2>1. TileStart(g, b) /\ X(g, a) + 1 = TileColEnd(g, X(g, a)) /\ Y(g, a) + 1 = TileRowEnd(g, Y(g, a))
    BY <1>1, <1>3, <1>4, NextCtu
  <2>2. Cut(p, s, j)
    BY <1>4 DEF Cut, g, a, b
  <2>3. TileStart(p.grid, s[j + 1]) \/ RowStart(p, s[j + 1])
    BY <2>1 DEF g, b
  <2> QED
    BY <1>1, <1>4, <2>1, <2>2, <2>3 DEF g, a, b
<1>5. CASE TileOf(g, b) = TileOf(g, a)
  <2>1. ~TileStart(g, b)
    BY <1>1, <1>3, <1>5, NextCtu
  <2>2. CASE IsTileColBd(g, b)
    <3>1. /\ X(g, a) + 1 = TileColEnd(g, X(g, a)) /\ Y(g, b) # Y(g, a)
          /\ Y(g, a) + 1 # TileRowEnd(g, Y(g, a))
      BY <1>1, <1>2, <1>3, <1>5, <2>2, NextCtu
    <3> QED
      BY <1>1, <1>5, <2>1, <2>2, <3>1 DEF Cut, RowStart, g, a, b
  <2>3. CASE ~IsTileColBd(g, b)
    <3>1. X(g, a) + 1 # TileColEnd(g, X(g, a)) /\ Y(g, b) = Y(g, a)
      BY <1>1, <1>3, <1>5, <2>3, NextCtu
    <3> QED
      BY <1>1, <1>5, <2>1, <2>3, <3>1 DEF Cut, RowStart, g, a, b
  <2> QED
    BY <2>2, <2>3
<1> QED
  BY <1>4, <1>5

----------------------------------------------------------------------------
(* Sequences of sequences.                                                 *)

\* FlattenSeq's recursion
IsFlat(f, ss, m) == f = [i \in 1 .. m |-> IF i = 1 THEN ss[i] ELSE f[i - 1] \o ss[i]]
FlatOf(ss) == CHOOSE f : IsFlat(f, ss, Len(ss))

\* how many elements are in front of the k-th sequence
Offsets(off, ss) ==
  /\ off \in [1 .. Len(ss) + 1 -> Nat] /\ off[1] = 0
  /\ \A k \in 1 .. Len(ss) : off[k + 1] = off[k] + Len(ss[k])

(* It is a choice,                                                         *)
LEMMA FlattenIs ==
  ASSUME NEW ss, Len(ss) # 0
  PROVE  FlattenSeq(ss) = FlatOf(ss)[Len(ss)]
  BY DEF FlattenSeq, FlatOf, IsFlat

(* and there is what it chooses.                                           *)
LEMMA FlatExists ==
  ASSUME NEW ss, Len(ss) \in Nat
  PROVE  IsFlat(FlatOf(ss), ss, Len(ss))
<1> DEFINE S == {m \in Nat : \E f : IsFlat(f, ss, m)}
<1>1. 0 \in S
  <2> DEFINE f == [i \in 1 .. 0 |-> ss[i]]
  <2>1. IsFlat(f, ss, 0)
    BY DEF IsFlat
  <2> QED
    BY <2>1
<1>2. ASSUME NEW m \in S
      PROVE  m + 1 \in S
  <2>1. PICK f : IsFlat(f, ss, m)
    BY <1>2
  <2> DEFINE g == [i \in 1 .. m + 1 |-> IF i <= m THEN f[i] ELSE IF i = 1 THEN ss[i] ELSE f[m] \o ss[i]]
  <2>2. m \in Nat
    BY <1>2
  <2>3. \A i \in 1 .. m : f[i] = IF i = 1 THEN ss[i] ELSE f[i - 1] \o ss[i]
    BY <2>1 DEF IsFlat
  <2>4. ASSUME NEW i \in 1 .. m + 1
        PROVE  g[i] = IF i = 1 THEN ss[i] ELSE g[i - 1] \o ss[i]
    <3>1. CASE i <= m
      <4>1. i \in 1 .. m /\ (i # 1 => i - 1 \in 1 .. m + 1 /\ i - 1 <= m)
        BY <2>2, <3>1
      <4>2. g[i] = f[i] /\ (i # 1 => g[i - 1] = f[i - 1])
        BY <3>1, <4>1
      <4> HIDE DEF g
      <4> QED
        BY <2>3, <4>1, <4>2
    <3>2. CASE ~(i <= m)
      <4>1. i - 1 = m /\ (i # 1 => i - 1 \in 1 .. m + 1 /\ i - 1 <= m)
        BY <2>2, <3>2
      <4>2. g[i] = (IF i = 1 THEN ss[i] ELSE f[m] \o ss[i]) /\ (i # 1 => g[i - 1] = f[m])
        BY <3>2, <4>1, <2>2
      <4> HIDE DEF g
      <4> QED
        BY <4>2
    <3> QED
      BY <3>1, <3>2
  <2>5. g = [i \in 1 .. m + 1 |-> g[i]]
    OBVIOUS
  <2> HIDE DEF g
  <2>6. g = [i \in 1 .. m + 1 |-> IF i = 1 THEN ss[i] ELSE g[i - 1] \o ss[i]]
    BY <2>4, <2>5
  <2>7. IsFlat(g, ss, m + 1)
    BY <2>6 DEF IsFlat
  <2> QED
    BY <2>2, <2>7
<1>3. S = Nat
  <2> HIDE DEF S
  <2>1. S \in SUBSET Nat
    BY DEF S
  <2> QED
    BY <1>1, <1>2, <2>1, Induction
<1>4. \E f : IsFlat(f, ss, Len(ss))
  BY <1>3
<1> QED
  BY <1>4, Zenon DEF FlatOf

\* the first k sequences in one
FlatOk(T, ss, off, k) ==
  /\ FlatOf(ss)[k] \in Seq(T) /\ Len(FlatOf(ss)[k]) = off[k + 1]
  /\ \A l \in 1 .. k : /\ off[l + 1] <= off[k + 1]
                       /\ \A q \in 1 .. Len(ss[l]) : FlatOf(ss)[k][off[l] + q] = ss[l][q]

(* Every element is where the offsets say.                                 *)
LEMMA FlatElements ==
  ASSUME NEW T, NEW ss \in Seq(Seq(T)), NEW off, Offsets(off, ss), NEW k \in 1 .. Len(ss)
  PROVE  FlatOk(T, ss, off, k)
<1> DEFINE f == FlatOf(ss)
           P(m) == /\ f[m] \in Seq(T) /\ Len(f[m]) = off[m + 1]
                   /\ \A l \in 1 .. m : /\ off[l + 1] <= off[m + 1]
                                        /\ \A q \in 1 .. Len(ss[l]) : f[m][off[l] + q] = ss[l][q]
           S == {m \in Nat : m \in 1 .. Len(ss) => P(m)}
<1>1. Len(ss) \in Nat /\ \A l \in 1 .. Len(ss) : ss[l] \in Seq(T) /\ Len(ss[l]) \in Nat
  OBVIOUS
<1>2. /\ off[1] = 0 /\ \A l \in 1 .. Len(ss) + 1 : off[l] \in Nat
      /\ \A l \in 1 .. Len(ss) : off[l + 1] = off[l] + Len(ss[l])
  BY DEF Offsets
<1>3. \A i \in 1 .. Len(ss) : f[i] = IF i = 1 THEN ss[i] ELSE f[i - 1] \o ss[i]
  <2>1. IsFlat(f, ss, Len(ss))
    BY <1>1, FlatExists
  <2> HIDE DEF f
  <2> QED
    BY <2>1 DEF IsFlat
<1> HIDE DEF f
<1>4. 0 \in S
  OBVIOUS
<1>5. ASSUME NEW m \in S
      PROVE  m + 1 \in S
  <2>1. SUFFICES ASSUME m + 1 \in 1 .. Len(ss)
                 PROVE  P(m + 1)
    BY <1>5
  <2>2. m \in Nat /\ m + 1 <= Len(ss)
    BY <1>1, <1>5, <2>1
  <2>3. CASE m = 0
    <3>1. f[1] = ss[1] /\ ss[1] \in Seq(T) /\ off[2] = Len(ss[1]) /\ Len(ss[1]) \in Nat
      BY <1>1, <1>2, <1>3, <2>1, <2>3
    <3>2. f[m + 1] \in Seq(T) /\ Len(f[m + 1]) = off[m + 1 + 1]
      BY <2>3, <3>1
    <3>3. ASSUME NEW l \in 1 .. m + 1
          PROVE  /\ off[l + 1] <= off[m + 1 + 1]
                 /\ \A q \in 1 .. Len(ss[l]) : f[m + 1][off[l] + q] = ss[l][q]
      <4>1. l = 1
        BY <2>3
      <4> QED
        BY <2>3, <3>1, <4>1, <1>2
    <3> QED
      BY <3>2, <3>3
  <2>4. CASE m # 0
    <3>1. m \in 1 .. Len(ss) /\ m + 1 \in 1 .. Len(ss) /\ m + 1 # 1 /\ (m + 1) - 1 = m
      BY <2>2, <2>4
    <3>2. P(m)
      BY <1>5, <3>1
    <3>3. f[m + 1] = f[m] \o ss[m + 1]
      BY <1>3, <3>1
    <3> DEFINE a == f[m]
               b == ss[m + 1]
               x == off[m + 1]
    <3>4. a \in Seq(T) /\ b \in Seq(T) /\ Len(a) = x /\ x \in Nat /\ Len(b) \in Nat
          /\ off[m + 1 + 1] = x + Len(b)
      BY <1>1, <1>2, <3>1, <3>2, SMTT(30)
    <3>5. \A l \in 1 .. m : off[l + 1] <= x /\ \A q \in 1 .. Len(ss[l]) : a[off[l] + q] = ss[l][q]
      BY <3>2
    <3>6. f[m + 1] = a \o b
      BY <3>3
    <3> HIDE DEF a, b, x
    <3>7. /\ a \o b \in Seq(T) /\ Len(a \o b) = x + Len(b)
          /\ \A i \in 1 .. x : (a \o b)[i] = a[i]
          /\ \A i \in 1 .. Len(b) : (a \o b)[x + i] = b[i]
      BY <3>4, SMTT(30)
    <3>8. ASSUME NEW l \in 1 .. m + 1
          PROVE  /\ off[l + 1] <= off[m + 1 + 1]
                 /\ \A q \in 1 .. Len(ss[l]) : f[m + 1][off[l] + q] = ss[l][q]
      <4>1. CASE l = m + 1
        <5>1. off[l] = x /\ ss[l] = b
          BY <4>1 DEF x, b
        <5> QED
          BY <3>4, <3>6, <3>7, <4>1, <5>1, SMTT(30)
      <4>2. CASE l # m + 1
        <5>1. l \in 1 .. m /\ l \in 1 .. Len(ss) /\ l + 1 \in 1 .. Len(ss) + 1
          BY <2>2, <4>2, SMTT(30)
        <5>2. off[l] \in Nat /\ off[l + 1] = off[l] + Len(ss[l]) /\ Len(ss[l]) \in Nat /\ off[l + 1] <= x
          BY <1>1, <1>2, <3>5, <5>1, SMTT(30)
        <5>3. \A q \in 1 .. Len(ss[l]) : off[l] + q \in 1 .. x
          <6> DEFINE ol == off[l]
                     n  == Len(ss[l])
          <6>1. ol \in Nat /\ n \in Nat /\ ol + n <= x
            BY <5>2
          <6> HIDE DEF ol, n
          <6>2. \A q \in 1 .. n : ol + q \in 1 .. x
            BY <6>1, <3>4
          <6> QED
            BY <6>2 DEF ol, n
        <5>4. \A q \in 1 .. Len(ss[l]) : (a \o b)[off[l] + q] = ss[l][q]
          BY <3>5, <3>7, <5>1, <5>3
        <5>5. off[l + 1] <= off[m + 1 + 1]
          <6> DEFINE y == off[l + 1]
          <6>1. y \in Nat /\ y <= x
            BY <5>2, SMTT(30)
          <6> HIDE DEF y
          <6>2. y <= x + Len(b)
            BY <6>1, <3>4
          <6> QED
            BY <6>2, <3>4 DEF y
        <5> QED
          BY <3>6, <5>4, <5>5
      <4> QED
        BY <4>1, <4>2
    <3> QED
      BY <3>4, <3>6, <3>7, <3>8
  <2> QED
    BY <2>3, <2>4
<1>6. S = Nat
  <2> HIDE DEF S
  <2>1. S \in SUBSET Nat
    BY DEF S
  <2> QED
    BY <1>4, <1>5, <2>1, Induction
<1>7. P(k)
  <2> HIDE DEF P
  <2>1. k \in S
    BY <1>6
  <2> QED
    BY <2>1
<1> QED
  BY <1>7 DEF f, FlatOk

(* There are such offsets,                                                 *)
LEMMA OffsetsExist ==
  ASSUME NEW T, NEW ss \in Seq(Seq(T))
  PROVE  \E off : Offsets(off, ss)
<1> DEFINE O(m) == \E off : /\ off \in [1 .. m + 1 -> Nat] /\ off[1] = 0
                            /\ \A k \in 1 .. m : off[k + 1] = off[k] + Len(ss[k])
           S == {m \in Nat : m <= Len(ss) => O(m)}
<1>1. Len(ss) \in Nat /\ \A l \in 1 .. Len(ss) : Len(ss[l]) \in Nat
  OBVIOUS
<1>2. 0 \in S
  <2> DEFINE off == [k \in 1 .. 0 + 1 |-> 0]
  <2>1. off \in [1 .. 0 + 1 -> Nat] /\ off[1] = 0 /\ \A k \in 1 .. 0 : off[k + 1] = off[k] + Len(ss[k])
    OBVIOUS
  <2> HIDE DEF off
  <2>2. O(0)
    BY <2>1
  <2> HIDE DEF O
  <2> QED
    BY <2>2
<1>3. ASSUME NEW m \in S
      PROVE  m + 1 \in S
  <2>0. m \in Nat
    BY <1>3
  <2>1. SUFFICES ASSUME m + 1 <= Len(ss)
                 PROVE  O(m + 1)
    <3> HIDE DEF O
    <3> QED
      BY <2>0
  <2>1a. O(m)
    <3> HIDE DEF O
    <3> QED
      BY <1>1, <1>3, <2>0, <2>1
  <2>2. PICK off : /\ off \in [1 .. m + 1 -> Nat] /\ off[1] = 0
                   /\ \A k \in 1 .. m : off[k + 1] = off[k] + Len(ss[k])
    BY <2>1a
  <2> DEFINE last == off[m + 1] + Len(ss[m + 1])
             new == [k \in 1 .. m + 1 + 1 |-> IF k <= m + 1 THEN off[k] ELSE last]
  <2>3. last \in Nat
    BY <1>1, <2>0, <2>1, <2>2
  <2>4. new \in [1 .. m + 1 + 1 -> Nat] /\ new[1] = 0
    BY <2>0, <2>2, <2>3
  <2>5. ASSUME NEW k \in 1 .. m + 1
        PROVE  new[k + 1] = new[k] + Len(ss[k])
    <3>1. CASE k = m + 1
      BY <2>0, <3>1
    <3>2. CASE k # m + 1
      <4>1. k \in 1 .. m /\ k + 1 <= m + 1 /\ k \in 1 .. m + 1 + 1 /\ k + 1 \in 1 .. m + 1 + 1
        BY <2>0, <3>2
      <4> QED
        BY <2>2, <4>1
    <3> QED
      BY <3>1, <3>2
  <2> QED
    BY <2>4, <2>5
<1>4. S = Nat
  <2> HIDE DEF S
  <2>1. S \in SUBSET Nat
    BY DEF S
  <2> QED
    BY <1>2, <1>3, <2>1, Induction
<1>5. O(Len(ss))
  <2> HIDE DEF O
  <2>1. Len(ss) \in S
    BY <1>1, <1>4
  <2> QED
    BY <1>1, <2>1
<1> QED
  BY <1>1, <1>5 DEF Offsets

(* and the whole is as long as all its parts.                              *)
LEMMA Flattened ==
  ASSUME NEW T, NEW ss \in Seq(Seq(T)), ss # << >>, NEW off, Offsets(off, ss)
  PROVE  /\ FlattenSeq(ss) \in Seq(T) /\ Len(FlattenSeq(ss)) = off[Len(ss) + 1]
         /\ \A k \in 1 .. Len(ss) : \A q \in 1 .. Len(ss[k]) :
              off[k] + q \in 1 .. Len(FlattenSeq(ss)) /\ FlattenSeq(ss)[off[k] + q] = ss[k][q]
         /\ \A k, l \in 1 .. Len(ss) : k <= l => off[k + 1] <= off[l + 1]
<1>1. Len(ss) \in Nat /\ Len(ss) # 0 /\ Len(ss) \in 1 .. Len(ss)
  OBVIOUS
<1>2. FlattenSeq(ss) = FlatOf(ss)[Len(ss)]
  BY <1>1, FlattenIs
<1>3. /\ FlattenSeq(ss) \in Seq(T) /\ Len(FlattenSeq(ss)) = off[Len(ss) + 1]
      /\ \A l \in 1 .. Len(ss) : /\ off[l + 1] <= off[Len(ss) + 1]
                                 /\ \A q \in 1 .. Len(ss[l]) : FlattenSeq(ss)[off[l] + q] = ss[l][q]
  <2>1. \A m \in 1 .. Len(ss) :
          /\ FlatOf(ss)[m] \in Seq(T) /\ Len(FlatOf(ss)[m]) = off[m + 1]
          /\ \A l \in 1 .. m : /\ off[l + 1] <= off[m + 1]
                               /\ \A q \in 1 .. Len(ss[l]) : FlatOf(ss)[m][off[l] + q] = ss[l][q]
    <3>1. \A m \in 1 .. Len(ss) : FlatOk(T, ss, off, m)
      BY FlatElements
    <3> QED
      BY <3>1 DEF FlatOk
  <2> QED
    BY <1>1, <1>2, <2>1
<1>4. \A k, l \in 1 .. Len(ss) : k <= l => off[k + 1] <= off[l + 1]
  <2>1. \A l \in 1 .. Len(ss) : \A k \in 1 .. l : off[k + 1] <= off[l + 1]
    <3>1. \A m \in 1 .. Len(ss) : FlatOk(T, ss, off, m)
      BY FlatElements
    <3> QED
      BY <3>1 DEF FlatOk
  <2> QED
    BY <2>1, <1>1
<1>5. ASSUME NEW k \in 1 .. Len(ss), NEW q \in 1 .. Len(ss[k])
      PROVE  off[k] + q \in 1 .. Len(FlattenSeq(ss))
  <2>1. /\ off[k] \in Nat /\ off[k + 1] \in Nat /\ off[Len(ss) + 1] \in Nat /\ off[k + 1] = off[k] + Len(ss[k])
        /\ Len(ss[k]) \in Nat
    <3>1. k \in 1 .. Len(ss) + 1 /\ k + 1 \in 1 .. Len(ss) + 1 /\ Len(ss) + 1 \in 1 .. Len(ss) + 1
      BY <1>1
    <3>2. ss[k] \in Seq(T)
      OBVIOUS
    <3>3. Len(ss[k]) \in Nat
      BY <3>2
    <3>4. off[k] \in Nat /\ off[k + 1] \in Nat /\ off[Len(ss) + 1] \in Nat
      BY <3>1 DEF Offsets
    <3>5. off[k + 1] = off[k] + Len(ss[k])
      BY DEF Offsets
    <3> QED
      BY <3>3, <3>4, <3>5
  <2>2. off[k + 1] <= off[Len(ss) + 1] /\ Len(FlattenSeq(ss)) = off[Len(ss) + 1]
    BY <1>3
  <2> DEFINE x == off[k]
             n == Len(ss[k])
             m == Len(FlattenSeq(ss))
  <2>3. x \in Nat /\ n \in Nat /\ m \in Nat /\ x + n <= m /\ q \in 1 .. n
    BY <2>1, <2>2
  <2> HIDE DEF x, n, m
  <2>4. x + q \in 1 .. m
    BY <2>3
  <2> QED
    BY <2>4 DEF x, m
<1> QED
  BY <1>3, <1>4, <1>5

----------------------------------------------------------------------------
(* Pictures.                                                               *)

(* What the assumption says of a picture.                                  *)
LEMMA PictureOk ==
  ASSUME NEW p \in Pictures
  PROVE  /\ IsGrid(p.grid) /\ p.wpp \in BOOLEAN /\ p.entryPoints \in BOOLEAN
         /\ p.slices \in Seq(Seq(Addrs(p.grid))) /\ p.slices # << >>
         /\ DOMAIN p.slices = 1 .. Len(p.slices) /\ Len(p.slices) \in Nat /\ Len(p.slices) >= 1
         /\ \A k \in 1 .. Len(p.slices) :
              /\ IsSlice(p.grid, p.slices[k]) /\ p.slices[k] \in Seq(Addrs(p.grid))
              /\ Len(p.slices[k]) \in Nat /\ Len(p.slices[k]) >= 1
<1> DEFINE ss == p.slices
<1>1. /\ IsGrid(p.grid) /\ p.wpp \in BOOLEAN /\ p.entryPoints \in BOOLEAN
      /\ ss \in Seq(Range(ss)) /\ ss # << >>
      /\ \A k \in DOMAIN ss : IsSlice(p.grid, ss[k])
  BY PicturesAssumption
<1> HIDE DEF ss
<1>2. DOMAIN ss = 1 .. Len(ss) /\ Len(ss) \in Nat /\ Len(ss) >= 1 /\ ss = [k \in 1 .. Len(ss) |-> ss[k]]
  BY <1>1
<1>3. ASSUME NEW k \in 1 .. Len(ss)
      PROVE  /\ IsSlice(p.grid, ss[k]) /\ ss[k] \in Seq(Addrs(p.grid))
             /\ Len(ss[k]) \in Nat /\ Len(ss[k]) >= 1
  <2>1. IsSlice(p.grid, ss[k])
    BY <1>1, <1>2
  <2> DEFINE s == ss[k]
  <2>2. s \in Seq(Addrs(p.grid)) /\ s # << >>
    BY <2>1 DEF IsSlice, Addrs
  <2> HIDE DEF s
  <2>3. Len(s) \in Nat /\ Len(s) >= 1
    BY <2>2
  <2> QED
    BY <2>1, <2>2, <2>3 DEF s
<1>4. ss \in Seq(Seq(Addrs(p.grid)))
  BY <1>2, <1>3
<1> QED
  BY <1>1, <1>2, <1>3, <1>4 DEF ss

(* Every CTU of the picture is in one slice, once.                         *)
LEMMA Distinct ==
  ASSUME NEW p \in Pictures, NEW k \in 1 .. Len(p.slices), NEW q \in 1 .. Len(p.slices[k]),
         NEW l \in 1 .. Len(p.slices), NEW r \in 1 .. Len(p.slices[l]),
         p.slices[k][q] = p.slices[l][r]
  PROVE  k = l /\ q = r
<1> DEFINE ss == p.slices
           F  == FlattenSeq(ss)
           N  == p.grid.width * p.grid.height
           D  == 1 .. N
           A  == 0 .. N - 1
<1>1. /\ ss \in Seq(Seq(Addrs(p.grid))) /\ ss # << >> /\ Len(ss) \in Nat
      /\ \A i \in 1 .. Len(ss) : Len(ss[i]) \in Nat
  BY PictureOk
<1>2. Len(F) = N /\ ToSet(F) = A
  BY PicturesAssumption DEF CheckSliceMap
<1>3. PICK off : Offsets(off, ss)
  <2> HIDE DEF ss
  <2> QED
    BY <1>1, OffsetsExist
<1>4. /\ F \in Seq(Addrs(p.grid))
      /\ \A i \in 1 .. Len(ss) : \A j \in 1 .. Len(ss[i]) : off[i] + j \in 1 .. Len(F) /\ F[off[i] + j] = ss[i][j]
      /\ \A i, j \in 1 .. Len(ss) : i <= j => off[i + 1] <= off[j + 1]
  <2> DEFINE T == Addrs(p.grid)
  <2> HIDE DEF ss, T
  <2> QED
    BY <1>1, <1>3, Flattened, SMTT(60)
<1>5. N \in Nat
  <2> HIDE DEF N, ss, F
  <2> QED
    BY <1>2, <1>4
<1>6. F \in Surjection(D, A)
  <2> HIDE DEF F, N
  <2>1. F \in [1 .. Len(F) -> Addrs(p.grid)] /\ ToSet(F) = {F[i] : i \in DOMAIN F}
    BY <1>4 DEF ToSet
  <2>2. Len(F) = N /\ {F[i] : i \in D} = A
    <3>1. DOMAIN F = 1 .. Len(F)
      BY <2>1
    <3> QED
      BY <1>2, <2>1, <3>1
  <2>2a. F \in [D -> Addrs(p.grid)]
    BY <2>1, <2>2
  <2>3. \A i \in D : F[i] \in A
    BY <2>2
  <2> HIDE DEF D, A
  <2>4. F \in [D -> A] /\ \A a \in A : \E i \in D : F[i] = a
    BY <2>2a, <2>2, <2>3
  <2> QED
    BY <2>4 DEF Surjection
<1>7. \A i, j \in D : F[i] = F[j] => i = j
  <2> HIDE DEF F, N
  <2>1. IsFiniteSet(D) /\ Cardinality(D) = N /\ Cardinality(A) = N
    <3>0. 1 \in Int /\ 0 \in Int /\ N \in Int /\ N - 1 \in Int
      BY <1>5
    <3>1. IsFiniteSet(1 .. N) /\ Cardinality(1 .. N) = IF 1 > N THEN 0 ELSE N - 1 + 1
      BY ONLY <3>0, FS_Interval, Zenon
    <3>2. Cardinality(0 .. N - 1) = IF 0 > N - 1 THEN 0 ELSE N - 1 - 0 + 1
      BY ONLY <3>0, FS_Interval, Zenon
    <3> DEFINE cd == Cardinality(1 .. N)
               ca == Cardinality(0 .. N - 1)
    <3>3. cd = N /\ ca = N
      <4>1. cd = (IF 1 > N THEN 0 ELSE N - 1 + 1) /\ ca = IF 0 > N - 1 THEN 0 ELSE N - 1 - 0 + 1
        BY <3>1, <3>2
      <4> HIDE DEF cd, ca
      <4> QED
        BY <1>5, <4>1
    <3> QED
      BY <3>1, <3>3
  <2> HIDE DEF D, A
  <2>2. F \in Injection(D, A)
    BY <1>6, <2>1, FS_SurjSameCardinalityImpliesInj
  <2> QED
    BY <2>2 DEF Injection, IsInjective
<1>8. off[k] + q = off[l] + r
  <2>1. off[k] + q \in D /\ off[l] + r \in D /\ F[off[k] + q] = F[off[l] + r]
    BY <1>2, <1>4
  <2> HIDE DEF D, F
  <2> QED
    BY <1>7, <2>1
<1>9. ASSUME NEW i \in 1 .. Len(ss)
      PROVE  off[i] \in Nat /\ off[i + 1] = off[i] + Len(ss[i]) /\ Len(ss[i]) \in Nat
  <2>1. i \in 1 .. Len(ss) + 1
    BY <1>1
  <2> QED
    BY <1>1, <1>3, <2>1 DEF Offsets
<1> DEFINE ok == off[k]
           ol == off[l]
           nk == Len(ss[k])
           nl == Len(ss[l])
<1>10. /\ ok \in Nat /\ ol \in Nat /\ nk \in Nat /\ nl \in Nat /\ q \in 1 .. nk /\ r \in 1 .. nl
       /\ off[k + 1] = ok + nk /\ off[l + 1] = ol + nl /\ ok + q = ol + r
       /\ k \in 1 .. Len(ss) /\ l \in 1 .. Len(ss) /\ Len(ss) \in Nat
  BY <1>1, <1>8, <1>9
<1>11. k < l => ok + nk <= ol
  <2>1. SUFFICES ASSUME k < l
                 PROVE  ok + nk <= ol
    OBVIOUS
  <2>2. l - 1 \in 1 .. Len(ss) /\ k <= l - 1 /\ l - 1 + 1 = l
    BY <1>10, <2>1
  <2>3. off[k + 1] <= off[l - 1 + 1]
    BY <1>4, <2>2
  <2> QED
    BY <1>10, <2>2, <2>3
<1>12. l < k => ol + nl <= ok
  <2>1. SUFFICES ASSUME l < k
                 PROVE  ol + nl <= ok
    OBVIOUS
  <2>2. k - 1 \in 1 .. Len(ss) /\ l <= k - 1 /\ k - 1 + 1 = k
    BY <1>10, <2>1
  <2>3. off[l + 1] <= off[k - 1 + 1]
    BY <1>4, <2>2
  <2> QED
    BY <1>10, <2>2, <2>3
<1>13. k = l => ok = ol
  OBVIOUS
<1> HIDE DEF ok, ol, nk, nl, ss
<1> QED
  BY <1>10, <1>11, <1>12, <1>13, SMTT(30)

(* The slice that is taken.                                                *)
LEMMA SliceOk ==
  ASSUME NEW p \in Pictures, NEW k \in 1 .. Len(p.slices), NEW s, s = p.slices[k]
  PROVE  /\ IsSlice(p.grid, s) /\ s \in Seq(Addrs(p.grid)) /\ Len(s) \in Nat /\ Len(s) >= 1
         /\ \A q, r \in 1 .. Len(s) : s[q] = s[r] => q = r
<1>1. \A q \in 1 .. Len(p.slices[k]), r \in 1 .. Len(p.slices[k]) : p.slices[k][q] = p.slices[k][r] => q = r
  BY Distinct
<1> QED
  BY <1>1, PictureOk

----------------------------------------------------------------------------
(* The history of a slice: what the first j CTUs leave.                    *)

\* a substream ends after the first j CTUs
EndsAt(p, s, j) == j = Len(s) \/ Cut(p, s, j)

\* isSameSliceAndTile for the CTU above
Above(p, s, a) ==
  /\ Y(p.grid, a) > 0 /\ a - p.grid.width \in ToSet(s)
  /\ TileOf(p.grid, a - p.grid.width) = TileOf(p.grid, a)

\* the contexts the next CTU starts with
NewCtx(p, s, j, ctx, sync) ==
  IF TileStart(p.grid, s[j + 1]) THEN << >>
  ELSE IF ~RowStart(p, s[j + 1]) THEN ctx
  ELSE IF Above(p, s, s[j + 1]) THEN sync ELSE << >>

CoderAt(p, s, j) == IF j = 0 THEN "fresh" ELSE IF EndsAt(p, s, j) THEN "ended" ELSE "used"

Symbols == [end : BOOLEAN, addr : Nat, ctx : Seq(Nat), dqp : Seq(Int)]
EncType == [ctx : Seq(Nat), coder : {"fresh", "used", "ended"}, sync : Seq(Nat), fault : {FALSE},
            streams : Seq(Seq(Symbols)), sizes : Seq(Nat), prevQP : Int]
DecType == [ctx : Seq(Nat), coder : {"fresh", "used", "ended"}, sync : Seq(Nat), fault : {FALSE},
            streams : Seq(Seq(Symbols)), sub : Nat \ {0}, prevQP : Int]

\* where the model stands
Stands ==
  /\ pic \in Pictures /\ sliceIdx \in 1 .. Len(pic.slices) /\ ctuIdx \in 0 .. Len(Slice) - 1

(* What SliceOk says, of the slice that is taken.                          *)
LEMMA Standing ==
  ASSUME Stands
  PROVE  /\ IsGrid(grid) /\ pic.wpp \in BOOLEAN /\ pic.entryPoints \in BOOLEAN
         /\ IsSlice(grid, Slice) /\ Slice \in Seq(Addrs(grid)) /\ Len(Slice) \in Nat /\ Len(Slice) >= 1
         /\ \A q, r \in 1 .. Len(Slice) : Slice[q] = Slice[r] => q = r
         /\ ctuIdx \in Nat /\ ctuIdx + 1 \in 1 .. Len(Slice) /\ Addr \in Addrs(grid) /\ Addr \in Nat
<1> DEFINE p == pic
           k == sliceIdx
           s == Slice
<1>1. p \in Pictures /\ k \in 1 .. Len(p.slices) /\ s = p.slices[k] /\ ctuIdx \in 0 .. Len(s) - 1
  BY DEF Stands, Slice
<1> HIDE DEF p, k, s
<1>2. /\ IsSlice(p.grid, s) /\ s \in Seq(Addrs(p.grid)) /\ Len(s) \in Nat /\ Len(s) >= 1
      /\ \A q, r \in 1 .. Len(s) : s[q] = s[r] => q = r
  BY <1>1, SliceOk
<1>3. IsGrid(p.grid) /\ p.wpp \in BOOLEAN /\ p.entryPoints \in BOOLEAN
  BY <1>1, PictureOk
<1>4. ctuIdx \in Nat /\ ctuIdx + 1 \in 1 .. Len(s)
  BY <1>1, <1>2
<1>5. s[ctuIdx + 1] \in Addrs(p.grid)
  BY <1>2, <1>4
<1>6. p.grid.width * p.grid.height - 1 \in Int
  BY <1>3 DEF IsGrid
<1>7. s[ctuIdx + 1] \in Nat
  BY <1>5, <1>6 DEF Addrs
<1> QED
  BY <1>2, <1>3, <1>4, <1>5, <1>7 DEF grid, Addr, p, s

(* A CTU that starts a tile or a row is the first, or follows the end of a *)
(* substream.                                                              *)
LEMMA StartsAfterEnd ==
  ASSUME Stands
  PROVE  /\ StartsTile(Addr) <=> TileStart(grid, Addr)
         /\ StartsRow(Addr) <=> RowStart(pic, Addr)
         /\ AboveAvailable(Addr) <=> Above(pic, Slice, Addr)
         /\ ctuIdx # 0 => (EndsAt(pic, Slice, ctuIdx) <=> StartsTile(Addr) \/ StartsRow(Addr))
<1>1. StartsTile(Addr) <=> TileStart(grid, Addr)
  BY DEF StartsTile, TileStart
<1>2. StartsRow(Addr) <=> RowStart(pic, Addr)
  BY <1>1 DEF StartsRow, RowStart, grid
<1>3. AboveAvailable(Addr) <=> Above(pic, Slice, Addr)
  BY DEF AboveAvailable, Above, grid
<1>4. ASSUME ctuIdx # 0
      PROVE  EndsAt(pic, Slice, ctuIdx) <=> StartsTile(Addr) \/ StartsRow(Addr)
  <2> DEFINE p == pic
             s == Slice
  <2>1. p.grid = grid /\ Addr = s[ctuIdx + 1]
    BY DEF grid, Addr
  <2>2. /\ IsGrid(p.grid) /\ p.wpp \in BOOLEAN /\ IsSlice(p.grid, s)
        /\ ctuIdx \in 1 .. Len(s) - 1 /\ ctuIdx # Len(s)
    BY <1>4, <2>1, Standing
  <2> HIDE DEF p, s
  <2>3. Cut(p, s, ctuIdx) <=> TileStart(p.grid, s[ctuIdx + 1]) \/ RowStart(p, s[ctuIdx + 1])
    BY <2>2, CutTests
  <2>4. EndsAt(p, s, ctuIdx) <=> Cut(p, s, ctuIdx)
    BY <2>2 DEF EndsAt
  <2> QED
    BY <1>1, <1>2, <2>1, <2>3, <2>4 DEF p, s
<1> QED
  BY <1>1, <1>2, <1>3, <1>4

(* The set-up of contexts restarts no coder that is in use, and leaves none *)
(* that has ended.                                                         *)
LEMMA SetUpEnc ==
  ASSUME Stands, NEW c \in EncType, c.coder = CoderAt(pic, Slice, ctuIdx), ctuIdx = 0 => c.ctx = << >>
  PROVE  /\ SetUp(c, Addr) \in EncType
         /\ SetUp(c, Addr).ctx = NewCtx(pic, Slice, ctuIdx, c.ctx, c.sync) /\ SetUp(c, Addr).sync = c.sync
         /\ SetUp(c, Addr).coder # "ended" /\ SetUp(c, Addr).streams = c.streams
         /\ SetUp(c, Addr).sizes = c.sizes /\ SetUp(c, Addr).prevQP = c.prevQP
<1> DEFINE restarted == IF ctuIdx # 0 THEN InitCtxModels(c) ELSE c
           d == SetUp(c, Addr)
           ctx == NewCtx(pic, Slice, ctuIdx, c.ctx, c.sync)
<1>1. d = IF StartsTile(Addr) THEN restarted
          ELSE IF StartsRow(Addr) /\ AboveAvailable(Addr) THEN [restarted EXCEPT !.ctx = c.sync]
          ELSE IF StartsRow(Addr) THEN restarted ELSE c
  BY DEF SetUp
<1>2. ctx = IF StartsTile(Addr) THEN << >>
            ELSE IF ~StartsRow(Addr) THEN c.ctx
            ELSE IF AboveAvailable(Addr) THEN c.sync ELSE << >>
  BY StartsAfterEnd DEF NewCtx, Addr, grid
<1>3. c.coder = IF ctuIdx = 0 THEN "fresh" ELSE IF StartsTile(Addr) \/ StartsRow(Addr) THEN "ended" ELSE "used"
  BY StartsAfterEnd DEF CoderAt
<1>4. c.sync \in Seq(Nat) /\ << >> \in Seq(Nat)
  BY DEF EncType
<1>5. ASSUME StartsTile(Addr) \/ StartsRow(Addr)
      PROVE  /\ restarted \in EncType /\ restarted.ctx = << >> /\ restarted.sync = c.sync
             /\ restarted.coder # "ended" /\ restarted.streams = c.streams
             /\ restarted.sizes = c.sizes /\ restarted.prevQP = c.prevQP
  <2>1. CASE ctuIdx = 0
    BY <1>3, <2>1
  <2>2. CASE ctuIdx # 0
    <3>1. c.coder = "ended" /\ c.fault = FALSE
      BY <1>3, <1>5, <2>2 DEF EncType
    <3>2. (c.fault \/ c.coder = "used") = FALSE
      BY <3>1
    <3>3. restarted = [c EXCEPT !.ctx = << >>, !.coder = "fresh", !.fault = FALSE]
      BY <2>2, <3>2 DEF InitCtxModels
    <3> HIDE DEF restarted
    <3> QED
      BY <1>4, <3>3 DEF EncType
  <2> QED
    BY <2>1, <2>2
<1> HIDE DEF restarted, d, ctx
<1>6. CASE StartsTile(Addr)
  BY <1>1, <1>2, <1>5, <1>6 DEF d, ctx
<1>7. CASE ~StartsTile(Addr) /\ StartsRow(Addr) /\ AboveAvailable(Addr)
  <2>1. d = [restarted EXCEPT !.ctx = c.sync] /\ ctx = c.sync
    BY <1>1, <1>2, <1>7
  <2>2. /\ d \in EncType /\ d.ctx = c.sync /\ d.sync = c.sync
        /\ d.coder # "ended" /\ d.streams = c.streams /\ d.sizes = c.sizes /\ d.prevQP = c.prevQP
    BY <1>4, <1>5, <1>7, <2>1 DEF EncType
  <2> QED
    BY <2>1, <2>2 DEF d, ctx
<1>8. CASE ~StartsTile(Addr) /\ StartsRow(Addr) /\ ~AboveAvailable(Addr)
  BY <1>1, <1>2, <1>5, <1>8 DEF d, ctx
<1>9. CASE ~StartsTile(Addr) /\ ~StartsRow(Addr)
  BY <1>1, <1>2, <1>3, <1>9 DEF d, ctx
<1> QED
  BY <1>6, <1>7, <1>8, <1>9

(* The same of the decoder.                                                *)
LEMMA SetUpDec ==
  ASSUME Stands, NEW c \in DecType, c.coder = CoderAt(pic, Slice, ctuIdx), ctuIdx = 0 => c.ctx = << >>
  PROVE  /\ SetUp(c, Addr) \in DecType
         /\ SetUp(c, Addr).ctx = NewCtx(pic, Slice, ctuIdx, c.ctx, c.sync) /\ SetUp(c, Addr).sync = c.sync
         /\ SetUp(c, Addr).coder # "ended" /\ SetUp(c, Addr).streams = c.streams
         /\ SetUp(c, Addr).sub = c.sub /\ SetUp(c, Addr).prevQP = c.prevQP
<1> DEFINE restarted == IF ctuIdx # 0 THEN InitCtxModels(c) ELSE c
           d == SetUp(c, Addr)
           ctx == NewCtx(pic, Slice, ctuIdx, c.ctx, c.sync)
<1>1. d = IF StartsTile(Addr) THEN restarted
          ELSE IF StartsRow(Addr) /\ AboveAvailable(Addr) THEN [restarted EXCEPT !.ctx = c.sync]
          ELSE IF StartsRow(Addr) THEN restarted ELSE c
  BY DEF SetUp
<1>2. ctx = IF StartsTile(Addr) THEN << >>
            ELSE IF ~StartsRow(Addr) THEN c.ctx
            ELSE IF AboveAvailable(Addr) THEN c.sync ELSE << >>
  BY StartsAfterEnd DEF NewCtx, Addr, grid
<1>3. c.coder = IF ctuIdx = 0 THEN "fresh" ELSE IF StartsTile(Addr) \/ StartsRow(Addr) THEN "ended" ELSE "used"
  BY StartsAfterEnd DEF CoderAt
<1>4. c.sync \in Seq(Nat) /\ << >> \in Seq(Nat)
  BY DEF DecType
<1>5. ASSUME StartsTile(Addr) \/ StartsRow(Addr)
      PROVE  /\ restarted \in DecType /\ restarted.ctx = << >> /\ restarted.sync = c.sync
             /\ restarted.coder # "ended" /\ restarted.streams = c.streams
             /\ restarted.sub = c.sub /\ restarted.prevQP = c.prevQP
  <2>1. CASE ctuIdx = 0
    BY <1>3, <2>1
  <2>2. CASE ctuIdx # 0
    <3>1. c.coder = "ended" /\ c.fault = FALSE
      BY <1>3, <1>5, <2>2 DEF DecType
    <3>2. (c.fault \/ c.coder = "used") = FALSE
      BY <3>1
    <3>3. restarted = [c EXCEPT !.ctx = << >>, !.coder = "fresh", !.fault = FALSE]
      BY <2>2, <3>2 DEF InitCtxModels
    <3> HIDE DEF restarted
    <3> QED
      BY <1>4, <3>3 DEF DecType
  <2> QED
    BY <2>1, <2>2
<1> HIDE DEF restarted, d, ctx
<1>6. CASE StartsTile(Addr)
  BY <1>1, <1>2, <1>5, <1>6 DEF d, ctx
<1>7. CASE ~StartsTile(Addr) /\ StartsRow(Addr) /\ AboveAvailable(Addr)
  <2>1. d = [restarted EXCEPT !.ctx = c.sync] /\ ctx = c.sync
    BY <1>1, <1>2, <1>7
  <2>2. /\ d \in DecType /\ d.ctx = c.sync /\ d.sync = c.sync
        /\ d.coder # "ended" /\ d.streams = c.streams /\ d.sub = c.sub /\ d.prevQP = c.prevQP
    BY <1>4, <1>5, <1>7, <2>1 DEF DecType
  <2> QED
    BY <2>1, <2>2 DEF d, ctx
<1>8. CASE ~StartsTile(Addr) /\ StartsRow(Addr) /\ ~AboveAvailable(Addr)
  BY <1>1, <1>2, <1>5, <1>8 DEF d, ctx
<1>9. CASE ~StartsTile(Addr) /\ ~StartsRow(Addr)
  BY <1>1, <1>2, <1>3, <1>9 DEF d, ctx
<1> QED
  BY <1>6, <1>7, <1>8, <1>9

(* A CTU does not use a coder that has ended.                              *)
LEMMA LearntIs ==
  ASSUME Stands, NEW c, c \in EncType \/ c \in DecType, c.coder # "ended"
  PROVE  LET ctx == Append(c.ctx, Addr)
             new == IF IsTileColBd(grid, Addr) /\ pic.wpp THEN ctx ELSE c.sync
         IN /\ ctx \in Seq(Nat) /\ new \in Seq(Nat)
            /\ Learnt(c, Addr) = [c EXCEPT !.ctx = ctx, !.coder = "used", !.fault = FALSE, !.sync = new]
<1>1. c.ctx \in Seq(Nat) /\ c.sync \in Seq(Nat) /\ c.fault = FALSE
  BY DEF EncType, DecType
<1>2. Addr \in Nat
  BY Standing
<1>3. (c.fault \/ c.coder = "ended") = FALSE
  BY <1>1
<1>4. Append(c.ctx, Addr) \in Seq(Nat)
  BY <1>1, <1>2
<1> QED
  BY <1>1, <1>3, <1>4 DEF Learnt
----------------------------------------------------------------------------
(* What encodeSlice has written.                                           *)

Marks == [ctx : Seq(Nat), sync : Seq(Nat), sub : Nat \ {0}, pos : Nat]

\* the mark after CTU j + 1: its contexts, the substream and the place in it
\* where the next symbol goes
After(p, s, j, r) ==
  LET ctx  == Append(NewCtx(p, s, j, r.ctx, r.sync), s[j + 1])
      ends == EndsAt(p, s, j + 1)
      last == j + 1 = Len(s)
  IN [ctx |-> ctx,
      sync |-> IF IsTileColBd(p.grid, s[j + 1]) /\ p.wpp THEN ctx ELSE r.sync,
      sub |-> IF ends /\ ~last THEN r.sub + 1 ELSE r.sub,
      pos |-> IF ~ends THEN r.pos + 1 ELSE IF last THEN r.pos + 2 ELSE 0]

History(p, s, h) ==
  /\ h \in [0 .. Len(s) -> Marks]
  /\ h[0].ctx = << >> /\ h[0].sub = 1 /\ h[0].pos = 0
  /\ \A j \in 0 .. Len(s) - 1 : h[j + 1] = After(p, s, j, h[j])

\* the QP a difference refers to, and the difference, when the slice is in one tile
PredOf(p, s, cs, j) ==
  LET a == s[j + 1]
  IN IF j = 0 THEN SliceQp ELSE IF IsTileColBd(p.grid, a) THEN cs[a - p.grid.width].qp ELSE cs[s[j]].qp
DQpOf(p, s, cs, j) ==
  IF cs[s[j + 1]].residual THEN <<WrittenDQp(cs[s[j + 1]].qp, PredOf(p, s, cs, j))>> ELSE << >>

\* y is the symbol of CTU j + 1
IsSymbol(p, s, h, cs, j, y) ==
  /\ y.end = FALSE /\ y.addr = s[j + 1] /\ y.ctx = NewCtx(p, s, j, h[j].ctx, h[j].sync)
  /\ InOneTile(p.grid, s) => y.dqp = DQpOf(p, s, cs, j)

\* which is in its place
Coded(p, s, h, cs, st, j) ==
  /\ h[j].sub \in 1 .. Len(st) /\ h[j].pos + 1 \in 1 .. Len(st[h[j].sub])
  /\ IsSymbol(p, s, h, cs, j, st[h[j].sub][h[j].pos + 1])
  /\ EndsAt(p, s, j + 1) =>
       /\ Len(st[h[j].sub]) = h[j].pos + 2 /\ st[h[j].sub][h[j].pos + 2].end = TRUE
       /\ j + 1 < Len(s) => h[j].sub < Len(st)

\* the encoder after j CTUs
EncAt(p, s, h, cs, j, e) ==
  /\ e.ctx = h[j].ctx /\ e.sync = h[j].sync /\ e.coder = CoderAt(p, s, j)
  /\ Len(e.streams) = h[j].sub /\ Len(e.streams[h[j].sub]) = h[j].pos
  /\ p.entryPoints => /\ Len(e.sizes) = h[j].sub - 1
                      /\ \A k \in 1 .. h[j].sub - 1 : e.sizes[k] = Len(e.streams[k])
  /\ ~p.entryPoints => e.sizes = << >>
  /\ \A i \in 0 .. j - 1 : Coded(p, s, h, cs, e.streams, i)

(* A mark is followed by a mark.                                           *)
LEMMA AfterIs ==
  ASSUME NEW p, NEW s \in Seq(Nat), NEW j \in 0 .. Len(s) - 1, NEW r \in Marks
  PROVE  After(p, s, j, r) \in Marks /\ NewCtx(p, s, j, r.ctx, r.sync) \in Seq(Nat)
<1> DEFINE new == NewCtx(p, s, j, r.ctx, r.sync)
           ctx == Append(new, s[j + 1])
<1>1. /\ r.ctx \in Seq(Nat) /\ r.sync \in Seq(Nat) /\ r.sub \in Nat \ {0} /\ r.pos \in Nat
      /\ s[j + 1] \in Nat /\ << >> \in Seq(Nat)
  BY DEF Marks
<1>2. new \in Seq(Nat)
  BY <1>1 DEF NewCtx
<1>3. ctx \in Seq(Nat)
  <2> HIDE DEF new
  <2> QED
    BY <1>1, <1>2
<1> HIDE DEF ctx
<1>4. After(p, s, j, r) \in Marks
  BY <1>1, <1>3, SMTT(60) DEF After, Marks, ctx
<1> QED
  BY <1>2, <1>4

(* There is a history from any contexts kept for the row below.            *)
LEMMA HistoryExists ==
  ASSUME NEW p, NEW s \in Seq(Nat), NEW sync \in Seq(Nat)
  PROVE  \E h : History(p, s, h) /\ h[0].sync = sync
<1> DEFINE O(m) == \E h : /\ h \in [0 .. m -> Marks]
                          /\ h[0] = [ctx |-> << >>, sync |-> sync, sub |-> 1, pos |-> 0]
                          /\ \A j \in 0 .. m - 1 : h[j + 1] = After(p, s, j, h[j])
           S == {m \in Nat : m <= Len(s) => O(m)}
<1>1. Len(s) \in Nat
  OBVIOUS
<1>2. 0 \in S
  <2> DEFINE first == [ctx |-> << >>, sync |-> sync, sub |-> 1, pos |-> 0]
             h == [j \in 0 .. 0 |-> first]
  <2>1. first \in Marks
    BY DEF Marks
  <2> HIDE DEF first
  <2>2. h \in [0 .. 0 -> Marks] /\ h[0] = first /\ \A j \in 0 .. 0 - 1 : h[j + 1] = After(p, s, j, h[j])
    BY <2>1
  <2> HIDE DEF h
  <2>3. O(0)
    BY <2>2 DEF first
  <2> HIDE DEF O
  <2> QED
    BY <2>3
<1>3. ASSUME NEW m \in S
      PROVE  m + 1 \in S
  <2>0. m \in Nat
    BY <1>3
  <2>1. SUFFICES ASSUME m + 1 <= Len(s)
                 PROVE  O(m + 1)
    <3> HIDE DEF O
    <3> QED
      BY <2>0
  <2>1a. O(m)
    <3> HIDE DEF O
    <3> QED
      BY <1>1, <1>3, <2>0, <2>1
  <2>2. PICK h : /\ h \in [0 .. m -> Marks]
                 /\ h[0] = [ctx |-> << >>, sync |-> sync, sub |-> 1, pos |-> 0]
                 /\ \A j \in 0 .. m - 1 : h[j + 1] = After(p, s, j, h[j])
    BY <2>1a
  <2> DEFINE next == After(p, s, m, h[m])
             new == [j \in 0 .. m + 1 |-> IF j <= m THEN h[j] ELSE next]
  <2>3. next \in Marks
    <3>1. h[m] \in Marks /\ m \in 0 .. Len(s) - 1
      BY <1>1, <2>0, <2>1, <2>2
    <3> QED
      BY <3>1, AfterIs
  <2>4. ASSUME NEW j \in 0 .. m + 1 - 1
        PROVE  new[j + 1] = After(p, s, j, new[j])
    <3>1. CASE j = m
      BY <2>0, <3>1
    <3>2. CASE j # m
      <4>1. j \in 0 .. m - 1 /\ j + 1 <= m /\ j <= m /\ j \in 0 .. m + 1 /\ j + 1 \in 0 .. m + 1
        BY <2>0, <3>2
      <4> QED
        BY <2>2, <4>1
    <3> QED
      BY <3>1, <3>2
  <2> HIDE DEF next
  <2>5. new \in [0 .. m + 1 -> Marks] /\ new[0] = h[0]
    BY <2>0, <2>2, <2>3
  <2>6. new[0] = [ctx |-> << >>, sync |-> sync, sub |-> 1, pos |-> 0]
    BY <2>2, <2>5
  <2>7. \A j \in 0 .. m + 1 - 1 : new[j + 1] = After(p, s, j, new[j])
    BY <2>4
  <2> HIDE DEF new
  <2>8. \E f : /\ f \in [0 .. m + 1 -> Marks]
               /\ f[0] = [ctx |-> << >>, sync |-> sync, sub |-> 1, pos |-> 0]
               /\ \A j \in 0 .. m + 1 - 1 : f[j + 1] = After(p, s, j, f[j])
    BY <2>5, <2>6, <2>7
  <2> QED
    BY <2>8, SMTT(30)
<1>4. S = Nat
  <2> HIDE DEF S
  <2>1. S \in SUBSET Nat
    BY DEF S
  <2> QED
    BY <1>2, <1>3, <2>1, Induction
<1>5. O(Len(s))
  <2> HIDE DEF O
  <2>1. Len(s) \in S
    BY <1>1, <1>4
  <2> QED
    BY <1>1, <2>1
<1>6. PICK h : /\ h \in [0 .. Len(s) -> Marks]
               /\ h[0] = [ctx |-> << >>, sync |-> sync, sub |-> 1, pos |-> 0]
               /\ \A j \in 0 .. Len(s) - 1 : h[j + 1] = After(p, s, j, h[j])
  BY <1>5
<1>7. h[0].ctx = << >> /\ h[0].sub = 1 /\ h[0].pos = 0 /\ h[0].sync = sync
  BY <1>6
<1> QED
  BY <1>6, <1>7 DEF History

\* a mark and the next
NextOk(p, s, h, j) ==
  LET ctx  == Append(NewCtx(p, s, j, h[j].ctx, h[j].sync), s[j + 1])
      ends == EndsAt(p, s, j + 1)
      last == j + 1 = Len(s)
  IN /\ j \in Nat /\ j + 1 \in 1 .. Len(s) /\ h[j] \in Marks /\ h[j + 1] \in Marks
     /\ h[j].sub \in Nat \ {0} /\ h[j].pos \in Nat
     /\ NewCtx(p, s, j, h[j].ctx, h[j].sync) \in Seq(Nat)
     /\ h[j + 1].ctx = ctx
     /\ h[j + 1].sync = IF IsTileColBd(p.grid, s[j + 1]) /\ p.wpp THEN ctx ELSE h[j].sync
     /\ h[j + 1].sub = IF ends /\ ~last THEN h[j].sub + 1 ELSE h[j].sub
     /\ h[j + 1].pos = IF ~ends THEN h[j].pos + 1 ELSE IF last THEN h[j].pos + 2 ELSE 0

(* What a history says of them.                                            *)
LEMMA NextMark ==
  ASSUME NEW p, NEW s \in Seq(Nat), NEW h, History(p, s, h), NEW j \in 0 .. Len(s) - 1
  PROVE  NextOk(p, s, h, j)
<1>1. h[j + 1] = After(p, s, j, h[j])
  BY DEF History
<1>2. j \in Nat /\ j + 1 \in 1 .. Len(s) /\ h[j] \in Marks /\ h[j + 1] \in Marks
  BY DEF History
<1>3. NewCtx(p, s, j, h[j].ctx, h[j].sync) \in Seq(Nat)
  BY <1>2, AfterIs
<1>4. h[j].sub \in Nat \ {0} /\ h[j].pos \in Nat
  BY <1>2 DEF Marks
<1> QED
  BY <1>1, <1>2, <1>3, <1>4 DEF After, NextOk
\* new is st with y behind its k-th sequence
PutOk(T, st, k, y, new) ==
  /\ new \in Seq(Seq(T)) /\ Len(new) = Len(st)
  /\ \A l \in 1 .. Len(st) : l # k => new[l] = st[l]
  /\ Len(new[k]) = Len(st[k]) + 1 /\ new[k][Len(st[k]) + 1] = y
  /\ \A q \in 1 .. Len(st[k]) : new[k][q] = st[k][q]

(* A symbol is put behind a substream.                                     *)
LEMMA PutIs ==
  ASSUME NEW T, NEW st \in Seq(Seq(T)), NEW k \in 1 .. Len(st), NEW y \in T
  PROVE  PutOk(T, st, k, y, [st EXCEPT ![k] = Append(@, y)])
<1> DEFINE old == st[k]
           app == Append(old, y)
           new == [st EXCEPT ![k] = app]
<1>1. old \in Seq(T) /\ Len(old) \in Nat
  OBVIOUS
<1> HIDE DEF old
<1>2. /\ app \in Seq(T) /\ Len(app) = Len(old) + 1 /\ app[Len(old) + 1] = y
      /\ \A q \in 1 .. Len(old) : app[q] = old[q]
  BY <1>1
<1> HIDE DEF app
<1>3. /\ new \in Seq(Seq(T)) /\ Len(new) = Len(st) /\ new[k] = app
      /\ \A l \in 1 .. Len(st) : l # k => new[l] = st[l]
  BY <1>2
<1> HIDE DEF new
<1>4. [st EXCEPT ![k] = Append(@, y)] = new
  BY DEF new, app, old
<1> QED
  BY <1>2, <1>3, <1>4 DEF old, PutOk

\* what is written stays, and the rest comes behind it
Extends(st, new) ==
  /\ Len(st) <= Len(new) /\ \A k \in 1 .. Len(st) - 1 : new[k] = st[k]
  /\ Len(st[Len(st)]) <= Len(new[Len(st)])
  /\ \A q \in 1 .. Len(st[Len(st)]) : new[Len(st)][q] = st[Len(st)][q]

(* So a CTU stays coded.                                                   *)
LEMMA StaysCoded ==
  ASSUME NEW p, NEW s \in Seq(Nat), NEW h, History(p, s, h), NEW cs, NEW i \in 0 .. Len(s) - 1, i + 1 < Len(s),
         NEW st \in Seq(Seq(Symbols)), NEW new \in Seq(Seq(Symbols)), Extends(st, new),
         Coded(p, s, h, cs, st, i)
  PROVE  Coded(p, s, h, cs, new, i)
<1> DEFINE b == h[i].sub
           q == h[i].pos
<1>1. b \in Nat \ {0} /\ q \in Nat
  BY NextMark DEF NextOk
<1>2. b \in 1 .. Len(st) /\ q + 1 \in 1 .. Len(st[b]) /\ Len(st) \in Nat /\ Len(new) \in Nat
  BY SMTT(30) DEF Coded
<1>3. Len(st) <= Len(new)
  BY DEF Extends
<1>4. st[b] \in Seq(Symbols) /\ new[b] \in Seq(Symbols)
  BY <1>2, <1>3, SMTT(60)
<1>5. b \in 1 .. Len(new) /\ q + 1 \in 1 .. Len(new[b]) /\ new[b][q + 1] = st[b][q + 1]
  <2>1. CASE b = Len(st)
    <3> HIDE DEF b, q
    <3>1. Len(st[b]) <= Len(new[b]) /\ new[b][q + 1] = st[b][q + 1]
      BY <1>2, <2>1 DEF Extends
    <3> DEFINE x == Len(st[b])
               z == Len(new[b])
    <3>2. x \in Nat /\ z \in Nat /\ x <= z /\ q + 1 \in 1 .. x
      BY <1>2, <1>4, <3>1, SMTT(60)
    <3> HIDE DEF x, z
    <3>3. q + 1 \in 1 .. z
      BY <1>1, <3>2
    <3> QED
      BY <1>2, <1>3, <2>1, <3>1, <3>3 DEF z
  <2>2. CASE b # Len(st)
    <3> HIDE DEF b, q
    <3>1. new[b] = st[b]
      BY <1>2, <2>2 DEF Extends
    <3> QED
      BY <1>2, <1>3, <3>1
  <2> QED
    BY <2>1, <2>2
<1>6. ASSUME EndsAt(p, s, i + 1)
      PROVE  /\ Len(new[b]) = q + 2 /\ new[b][q + 2].end = TRUE
             /\ i + 1 < Len(s) => b < Len(new)
  <2>1. Len(st[b]) = q + 2 /\ st[b][q + 2].end = TRUE /\ b < Len(st)
    BY <1>6 DEF Coded
  <2> HIDE DEF b, q
  <2>2. b \in 1 .. Len(st) - 1
    BY <1>2, <2>1
  <2>3. new[b] = st[b]
    BY <2>2 DEF Extends
  <2> QED
    BY <1>2, <1>3, <2>1, <2>3
<1> QED
  BY <1>5, <1>6 DEF Coded

\* the substreams after a CTU
Put(p, s, j, st, y) ==
  LET k    == Len(st)
      one  == [st EXCEPT ![k] = Append(@, y)]
      two  == [one EXCEPT ![k] = Append(@, EndSymbol)]
  IN IF ~EndsAt(p, s, j + 1) THEN one ELSE IF j + 1 = Len(s) THEN two ELSE Append(two, << >>)
\* and their sizes
PutSize(p, s, j, sizes, st, y) ==
  IF EndsAt(p, s, j + 1) /\ j + 1 # Len(s) /\ p.entryPoints
  THEN Append(sizes, Len(Put(p, s, j, st, y)[Len(st)])) ELSE sizes

\* new is st with a CTU more, at place n + 1 of substream k
Putting(p, s, j, st, y, new, k, n) ==
  /\ Extends(st, new) /\ new[k][n + 1] = y
  /\ ~EndsAt(p, s, j + 1) => Len(new) = k /\ Len(new[k]) = n + 1
  /\ EndsAt(p, s, j + 1) =>
       /\ Len(new[k]) = n + 2 /\ new[k][n + 2].end = TRUE
       /\ j + 1 = Len(s) => Len(new) = k
       /\ j + 1 # Len(s) => Len(new) = k + 1 /\ Len(new[k + 1]) = 0

(* What they are.                                                          *)
LEMMA PutIsOk ==
  ASSUME NEW p, NEW s \in Seq(Nat), NEW j \in 0 .. Len(s) - 1,
         NEW st \in Seq(Seq(Symbols)), st # << >>, NEW y \in Symbols
  PROVE  /\ Put(p, s, j, st, y) \in Seq(Seq(Symbols))
         /\ Putting(p, s, j, st, y, Put(p, s, j, st, y), Len(st), Len(st[Len(st)]))
<1> DEFINE k    == Len(st)
           n    == Len(st[k])
           one  == [st EXCEPT ![k] = Append(@, y)]
           two  == [one EXCEPT ![k] = Append(@, EndSymbol)]
           three == Append(two, << >>)
<1>1. k \in Nat \ {0} /\ k \in 1 .. Len(st) /\ st[k] \in Seq(Symbols) /\ n \in Nat
  OBVIOUS
<1>2. EndSymbol \in Symbols /\ EndSymbol.end = TRUE
  <2>1. << >> \in Seq(Nat) /\ << >> \in Seq(Int)
    OBVIOUS
  <2> QED
    BY <2>1 DEF EndSymbol, Symbols
<1>3. k = Len(st)
  OBVIOUS
<1> HIDE DEF k
<1>4. /\ one \in Seq(Seq(Symbols)) /\ Len(one) = k
      /\ \A l \in 1 .. k : l # k => one[l] = st[l]
      /\ Len(one[k]) = Len(st[k]) + 1 /\ one[k][Len(st[k]) + 1] = y
      /\ \A q \in 1 .. Len(st[k]) : one[k][q] = st[k][q]
  <2>1. PutOk(Symbols, st, k, y, one)
    BY <1>1, PutIs
  <2> HIDE DEF one
  <2> QED
    BY <1>3, <2>1 DEF PutOk
<1> HIDE DEF one
<1>5. k \in 1 .. Len(one)
  BY <1>1, <1>4
<1>6. /\ two \in Seq(Seq(Symbols)) /\ Len(two) = k
      /\ \A l \in 1 .. k : l # k => two[l] = one[l]
      /\ Len(two[k]) = Len(one[k]) + 1 /\ two[k][Len(one[k]) + 1] = EndSymbol
      /\ \A q \in 1 .. Len(one[k]) : two[k][q] = one[k][q]
  <2>1. PutOk(Symbols, one, k, EndSymbol, two)
    BY <1>2, <1>4, <1>5, PutIs
  <2> HIDE DEF two
  <2> QED
    BY <1>4, <2>1 DEF PutOk
<1> HIDE DEF two
<1>7. /\ three \in Seq(Seq(Symbols)) /\ Len(three) = k + 1 /\ three[k + 1] = << >>
      /\ \A l \in 1 .. k : three[l] = two[l]
  <2>1. << >> \in Seq(Symbols)
    OBVIOUS
  <2> QED
    BY <1>1, <1>6, <2>1, SMTT(30)
<1> HIDE DEF three
<1>8. Put(p, s, j, st, y) = IF ~EndsAt(p, s, j + 1) THEN one ELSE IF j + 1 = Len(s) THEN two ELSE three
  BY <1>3 DEF Put, one, two, three
<1>9. n = Len(st[k])
  OBVIOUS
<1> HIDE DEF n
<1>10. /\ Len(one[k]) = n + 1 /\ one[k][n + 1] = y /\ \A q \in 1 .. n : one[k][q] = st[k][q]
       /\ \A l \in 1 .. k - 1 : one[l] = st[l]
  BY <1>1, <1>4, <1>9, SMTT(30)
<1>11. /\ Len(two[k]) = n + 2 /\ two[k][n + 2] = EndSymbol /\ two[k][n + 1] = y
       /\ \A q \in 1 .. n : two[k][q] = st[k][q]
       /\ \A l \in 1 .. k - 1 : two[l] = st[l]
  <2>1. Len(one[k]) + 1 = n + 2 /\ n + 1 \in 1 .. Len(one[k]) /\ \A q \in 1 .. n : q \in 1 .. Len(one[k])
    BY <1>1, <1>9, <1>10, SMTT(30)
  <2>2. Len(two[k]) = n + 2 /\ two[k][n + 2] = EndSymbol
    BY <1>6, <2>1
  <2>3. two[k][n + 1] = y /\ \A q \in 1 .. n : two[k][q] = st[k][q]
    BY <1>6, <1>10, <2>1
  <2>4. \A l \in 1 .. k - 1 : l \in 1 .. k /\ l # k
    BY <1>1
  <2> QED
    BY <1>6, <1>10, <2>2, <2>3, <2>4
<1>12. CASE ~EndsAt(p, s, j + 1)
  <2>1. Put(p, s, j, st, y) = one
    BY <1>8, <1>12
  <2>2. Extends(st, one)
    BY <1>1, <1>3, <1>4, <1>9, <1>10, SMTT(30) DEF Extends
  <2>3. Putting(p, s, j, st, y, one, k, n)
    BY <1>4, <1>10, <1>12, <2>2 DEF Putting
  <2> QED
    BY <1>3, <1>4, <1>9, <2>1, <2>3
<1>13. CASE EndsAt(p, s, j + 1) /\ j + 1 = Len(s)
  <2>1. Put(p, s, j, st, y) = two
    BY <1>8, <1>13
  <2>2. Extends(st, two)
    BY <1>1, <1>3, <1>6, <1>9, <1>11, SMTT(30) DEF Extends
  <2>3. Putting(p, s, j, st, y, two, k, n)
    BY <1>2, <1>6, <1>11, <1>13, <2>2 DEF Putting
  <2> QED
    BY <1>3, <1>6, <1>9, <2>1, <2>3
<1>14. CASE EndsAt(p, s, j + 1) /\ j + 1 # Len(s)
  <2>1. Put(p, s, j, st, y) = three
    BY <1>8, <1>14
  <2>2. /\ three[k] = two[k] /\ \A l \in 1 .. k - 1 : three[l] = two[l]
    BY <1>1, <1>7
  <2>3. Extends(st, three)
    <3>1. k <= Len(three) /\ \A l \in 1 .. k - 1 : three[l] = st[l]
      BY <1>1, <1>7, <1>11, <2>2
    <3>2. n <= Len(three[k]) /\ \A q \in 1 .. n : three[k][q] = st[k][q]
      BY <1>1, <1>11, <2>2, SMTT(30)
    <3> QED
      BY <1>3, <1>9, <3>1, <3>2 DEF Extends
  <2>4. Len(three[k + 1]) = 0
    BY <1>7
  <2>5. Putting(p, s, j, st, y, three, k, n)
    BY <1>2, <1>7, <1>11, <1>14, <2>2, <2>3, <2>4 DEF Putting
  <2> QED
    BY <1>3, <1>7, <1>9, <2>1, <2>5
<1> QED
  BY <1>12, <1>13, <1>14
(* encodeSlice takes the mark one CTU further.                             *)
LEMMA Writes ==
  ASSUME NEW p, p.entryPoints \in BOOLEAN, NEW s \in Seq(Nat), NEW h, History(p, s, h), NEW cs,
         NEW j \in 0 .. Len(s) - 1, NEW e \in EncType, EncAt(p, s, h, cs, j, e),
         NEW y \in Symbols, IsSymbol(p, s, h, cs, j, y),
         NEW new \in EncType, new.ctx = h[j + 1].ctx, new.sync = h[j + 1].sync,
         new.coder = CoderAt(p, s, j + 1),
         new.streams = Put(p, s, j, e.streams, y),
         new.sizes = PutSize(p, s, j, e.sizes, e.streams, y)
  PROVE  EncAt(p, s, h, cs, j + 1, new)
<1> DEFINE st == e.streams
           sz == e.sizes
           st2 == new.streams
           sz2 == new.sizes
           k == h[j].sub
           n == h[j].pos
           ends == EndsAt(p, s, j + 1)
           last == j + 1 = Len(s)
<1>1. /\ st \in Seq(Seq(Symbols)) /\ st2 \in Seq(Seq(Symbols)) /\ sz \in Seq(Nat)
      /\ k \in Nat \ {0} /\ n \in Nat /\ Len(st) = k /\ Len(st[k]) = n /\ st # << >>
  <2>1. k \in Nat \ {0} /\ n \in Nat
    BY NextMark DEF NextOk
  <2>2. st \in Seq(Seq(Symbols)) /\ st2 \in Seq(Seq(Symbols)) /\ sz \in Seq(Nat)
    BY DEF EncType
  <2>3. Len(st) = k /\ Len(st[k]) = n
    BY DEF EncAt
  <2> QED
    BY <2>1, <2>2, <2>3
<1>2. /\ Extends(st, st2) /\ st2[k][n + 1] = y
      /\ ~ends => Len(st2) = k /\ Len(st2[k]) = n + 1
      /\ ends => Len(st2[k]) = n + 2 /\ st2[k][n + 2].end = TRUE
      /\ ends /\ last => Len(st2) = k
      /\ ends /\ ~last => Len(st2) = k + 1 /\ Len(st2[k + 1]) = 0
  <2> HIDE DEF st, ends, last, k, n
  <2>1. st2 = Put(p, s, j, st, y)
    BY DEF st
  <2>2. Putting(p, s, j, st, y, st2, k, n)
    BY <1>1, <2>1, PutIsOk
  <2> HIDE DEF st2
  <2> QED
    BY <2>2 DEF Putting, ends, last
<1>3. /\ h[j + 1].sub = IF ends /\ ~last THEN k + 1 ELSE k
      /\ h[j + 1].pos = IF ~ends THEN n + 1 ELSE IF last THEN n + 2 ELSE 0
  BY NextMark DEF NextOk
<1>4. Len(st2) = h[j + 1].sub /\ Len(st2[h[j + 1].sub]) = h[j + 1].pos
  <2> HIDE DEF st2, k, n, ends, last
  <2> QED
    BY <1>2, <1>3
<1>5. p.entryPoints => /\ Len(sz) = k - 1
                       /\ \A i \in 1 .. k - 1 : sz[i] = Len(st[i])
  BY DEF EncAt
<1>6. ~p.entryPoints => sz = << >>
  BY DEF EncAt
<1>7. sz2 = IF ends /\ ~last /\ p.entryPoints THEN Append(sz, Len(st2[k])) ELSE sz
  BY <1>1 DEF PutSize
<1>8. \A i \in 1 .. k - 1 : st2[i] = st[i]
  BY <1>1, <1>2 DEF Extends
<1> HIDE DEF st, sz, st2, sz2, k, n, ends, last
<1>9. p.entryPoints => /\ Len(sz2) = h[j + 1].sub - 1
                       /\ \A i \in 1 .. h[j + 1].sub - 1 : sz2[i] = Len(st2[i])
  <2>1. SUFFICES ASSUME p.entryPoints
                 PROVE  /\ Len(sz2) = h[j + 1].sub - 1
                        /\ \A i \in 1 .. h[j + 1].sub - 1 : sz2[i] = Len(st2[i])
    OBVIOUS
  <2>2. CASE ends /\ ~last
    <3> DEFINE size == Len(st2[k])
    <3>1. size \in Nat
      BY <1>1, <1>2, <2>2
    <3>2. sz2 = Append(sz, size)
      BY <1>7, <2>1, <2>2
    <3> HIDE DEF size
    <3>3. Len(sz2) = k /\ sz2[k] = size /\ \A i \in 1 .. k - 1 : sz2[i] = sz[i]
      BY <1>1, <1>5, <2>1, <3>1, <3>2
    <3>4. ASSUME NEW i \in 1 .. k
          PROVE  sz2[i] = Len(st2[i])
      <4>1. CASE i = k
        BY <3>3, <4>1 DEF size
      <4>2. CASE i # k
        <5>1. i \in 1 .. k - 1
          BY <1>1, <4>2
        <5> QED
          BY <1>5, <1>8, <2>1, <3>3, <5>1
      <4> QED
        BY <4>1, <4>2
    <3>5. h[j + 1].sub - 1 = k
      BY <1>1, <1>3, <2>2
    <3> QED
      BY <3>3, <3>4, <3>5
  <2>3. CASE ~(ends /\ ~last)
    <3>1. sz2 = sz /\ h[j + 1].sub = k
      BY <1>3, <1>7, <2>3
    <3> QED
      BY <1>5, <1>8, <2>1, <3>1
  <2> QED
    BY <2>2, <2>3
<1>10. ~p.entryPoints => sz2 = << >>
  BY <1>6, <1>7
<1>11. ASSUME NEW i \in 0 .. j + 1 - 1
       PROVE  Coded(p, s, h, cs, st2, i)
  <2>1. CASE i < j
    <3>1. i \in 0 .. j - 1 /\ i \in 0 .. Len(s) - 1 /\ i + 1 < Len(s)
      BY <2>1
    <3>2. Coded(p, s, h, cs, st, i)
      BY <3>1 DEF EncAt, st
    <3> QED
      BY <1>1, <1>2, <3>1, <3>2, StaysCoded
  <2>2. CASE i = j
    <3>1. k \in 1 .. Len(st2) /\ n + 1 \in 1 .. Len(st2[k])
      <4>1. Len(st2) \in {k, k + 1} /\ Len(st2[k]) \in {n + 1, n + 2}
        BY <1>2
      <4> DEFINE x == Len(st2)
                 z == Len(st2[k])
      <4> HIDE DEF x, z
      <4>2. x \in {k, k + 1} /\ z \in {n + 1, n + 2}
        BY <4>1 DEF x, z
      <4>3. k \in 1 .. x /\ n + 1 \in 1 .. z
        BY <1>1, <4>2
      <4> QED
        BY <4>3 DEF x, z
    <3>2. IsSymbol(p, s, h, cs, i, st2[k][n + 1])
      BY <1>2, <2>2
    <3>3. ends => /\ Len(st2[k]) = n + 2 /\ st2[k][n + 2].end = TRUE
                  /\ j + 1 < Len(s) => k < Len(st2)
      BY <1>1, <1>2 DEF last
    <3> QED
      BY <2>2, <3>1, <3>2, <3>3 DEF Coded, k, n, ends
  <2> QED
    BY <2>1, <2>2
<1>12. \A i \in 0 .. j + 1 - 1 : Coded(p, s, h, cs, st2, i)
  BY <1>11
<1> QED
  BY <1>4, <1>9, <1>10, <1>12 DEF EncAt, st2, sz2
----------------------------------------------------------------------------
(* How many substreams.                                                    *)

\* the CTUs among the first j + 1 that begin another substream
Cuts(p, s, j) == {i \in 2 .. Len(s) : i <= j + 1 /\ Cut(p, s, i - 1)}

(* They are counted one by one.                                            *)
LEMMA CutsCounted ==
  ASSUME NEW p, NEW s \in Seq(Nat), NEW h, History(p, s, h), NEW j \in 0 .. Len(s)
  PROVE  /\ IsFiniteSet(Cuts(p, s, j)) /\ Cardinality(Cuts(p, s, j)) \in Nat
         /\ h[j].sub = 1 + Cardinality(Cuts(p, s, j))
<1>0. \A i \in 0 .. Len(s) - 1 :
        h[i + 1].sub = IF EndsAt(p, s, i + 1) /\ i + 1 # Len(s) THEN h[i].sub + 1 ELSE h[i].sub
  <2>1. \A i \in 0 .. Len(s) - 1 : NextOk(p, s, h, i)
    BY NextMark
  <2> QED
    BY <2>1 DEF NextOk
<1> DEFINE Ok(m) == h[m].sub = 1 + Cardinality(Cuts(p, s, m))
           S == {m \in Nat : m <= Len(s) => Ok(m)}
<1>1. Len(s) \in Nat /\ \A m : Cuts(p, s, m) \subseteq 2 .. Len(s)
  BY DEF Cuts
<1>2. IsFiniteSet(2 .. Len(s))
  <2>1. 2 \in Int /\ Len(s) \in Int
    BY <1>1
  <2> QED
    BY ONLY <2>1, FS_Interval, Zenon
<1>3. \A m : IsFiniteSet(Cuts(p, s, m))
  BY <1>1, <1>2, FS_Subset
<1>4. \A m : Cardinality(Cuts(p, s, m)) \in Nat
  BY <1>3, FS_CardinalityType
<1>5. 0 \in S
  <2>1. Cuts(p, s, 0) = {}
    BY <1>1 DEF Cuts
  <2>2. Cardinality(Cuts(p, s, 0)) = 0
    BY <2>1, FS_EmptySet
  <2>3. Ok(0)
    BY <2>2 DEF History
  <2> HIDE DEF Ok
  <2> QED
    BY <2>3
<1>6. ASSUME NEW m \in S
      PROVE  m + 1 \in S
  <2>0. m \in Nat
    BY <1>6
  <2>1. SUFFICES ASSUME m + 1 <= Len(s)
                 PROVE  Ok(m + 1)
    <3> HIDE DEF Ok
    <3> QED
      BY <2>0
  <2>2. Ok(m)
    <3> HIDE DEF Ok
    <3> QED
      BY <1>1, <1>6, <2>0, <2>1
  <2>3. m \in 0 .. Len(s) - 1
    BY <1>1, <2>0, <2>1
  <2>4. h[m + 1].sub = IF EndsAt(p, s, m + 1) /\ m + 1 # Len(s) THEN h[m].sub + 1 ELSE h[m].sub
    BY <1>0, <2>3
  <2> DEFINE A == Cuts(p, s, m)
             B == Cuts(p, s, m + 1)
  <2>5. \A i \in 2 .. Len(s) : i <= m + 1 + 1 <=> (i <= m + 1 \/ i = m + 2)
    BY <1>1, <2>0, SMTT(30)
  <2>6. CASE Cut(p, s, m + 1) /\ m + 1 # Len(s)
    <3>1. m + 2 \in 2 .. Len(s) /\ m + 2 - 1 = m + 1 /\ ~(m + 2 <= m + 1)
      BY <1>1, <2>0, <2>1, <2>6
    <3>2. B = A \cup {m + 2} /\ m + 2 \notin A
      BY <2>5, <2>6, <3>1, SMTT(60) DEF Cuts
    <3>3. Cardinality(B) = Cardinality(A) + 1
      <4> HIDE DEF A, B
      <4>1. IsFiniteSet(A)
        BY <1>3 DEF A
      <4> QED
        BY <3>2, <4>1, FS_AddElement
    <3>4. h[m + 1].sub = h[m].sub + 1
      BY <2>4, <2>6 DEF EndsAt
    <3> QED
      BY <1>4, <2>2, <3>3, <3>4
  <2>7. CASE ~(Cut(p, s, m + 1) /\ m + 1 # Len(s))
    <3>1. B = A
      <4>1. m + 2 \in 2 .. Len(s) => ~Cut(p, s, m + 2 - 1)
        <5>1. m + 2 \in 2 .. Len(s) => m + 1 # Len(s)
          BY <1>1, <2>0
        <5>2. m + 2 - 1 = m + 1
          BY <2>0
        <5> QED
          BY <2>7, <5>1, <5>2
      <4> QED
        BY <2>5, <4>1, SMTT(30) DEF Cuts
    <3>2. h[m + 1].sub = h[m].sub
      BY <2>4, <2>7 DEF EndsAt
    <3> QED
      BY <2>2, <3>1, <3>2
  <2> QED
    BY <2>6, <2>7
<1>7. S = Nat
  <2> HIDE DEF S
  <2>1. S \in SUBSET Nat
    BY DEF S
  <2> QED
    BY <1>5, <1>6, <2>1, Induction
<1>8. Ok(j)
  <2> HIDE DEF Ok
  <2>1. j \in S /\ j <= Len(s)
    BY <1>1, <1>7
  <2> QED
    BY <2>1
<1> QED
  BY <1>3, <1>4, <1>8

(* And no slice has more cuts than there are substreams to hand out: where *)
(* a substream begins, so does a tile, or with WPP a row of a tile.        *)
LEMMA CutsFit ==
  ASSUME Stands, NEW j \in Nat
  PROVE  NumSubstreams \in Nat /\ 1 + Cardinality(Cuts(pic, Slice, j)) <= NumSubstreams
<1> DEFINE p == pic
           s == Slice
           g == p.grid
           R == IF p.wpp THEN 0 .. g.height - 1 ELSE g.rows
           C == Cuts(p, s, j)
           n == Len(p.slices)
<1>1. /\ IsGrid(g) /\ p.wpp \in BOOLEAN /\ IsSlice(g, s) /\ s \in Seq(Addrs(g))
      /\ Len(s) \in Nat /\ Len(s) >= 1 /\ \A q, r \in 1 .. Len(s) : s[q] = s[r] => q = r
  BY Standing DEF grid
<1>2. n \in Nat
  BY PictureOk DEF Stands
<1>3. grid = g
  BY DEF grid
<1> HIDE DEF p, s
<1>4. /\ g.cols \subseteq 0 .. g.width - 1 /\ 0 \in g.cols /\ g.width \in Nat
      /\ g.rows \subseteq 0 .. g.height - 1 /\ 0 \in g.rows /\ g.height \in Nat /\ g.height >= 1
  BY <1>1 DEF IsGrid
<1> HIDE DEF g
<1>5. IsFiniteSet(0 .. g.width - 1) /\ IsFiniteSet(0 .. g.height - 1) /\ Cardinality(0 .. g.height - 1) = g.height
  <2>1. 0 \in Int /\ g.width - 1 \in Int /\ g.height - 1 \in Int
    BY <1>4
  <2>2. IsFiniteSet(0 .. g.width - 1) /\ IsFiniteSet(0 .. g.height - 1)
    BY ONLY <2>1, FS_Interval, Zenon
  <2>3. Cardinality(0 .. g.height - 1) = IF 0 > g.height - 1 THEN 0 ELSE g.height - 1 - 0 + 1
    BY ONLY <2>1, FS_Interval, Zenon
  <2> QED
    BY <1>4, <2>2, <2>3
<1>6. IsFiniteSet(g.cols) /\ IsFiniteSet(g.rows)
  BY <1>4, <1>5, FS_Subset
<1>7. /\ IsFiniteSet(R) /\ Cardinality(R) = (IF p.wpp THEN g.height ELSE Cardinality(g.rows))
      /\ 0 \in R
  BY <1>4, <1>5, <1>6
<1>8. /\ Cardinality(R) * Cardinality(g.cols) <= NumSubstreams
      /\ NumSubstreams \in Nat /\ Cardinality(R) * Cardinality(g.cols) \in Nat
  <2> DEFINE x == Cardinality(R) * Cardinality(g.cols)
  <2>1. Cardinality(R) \in Nat /\ Cardinality(g.cols) \in Nat
    BY <1>6, <1>7, FS_CardinalityType
  <2>2. x \in Nat
    <3> DEFINE u == Cardinality(R)
               v == Cardinality(g.cols)
    <3> HIDE DEF u, v
    <3>1. u \in Nat /\ v \in Nat
      BY <2>1 DEF u, v
    <3>2. u * v \in Nat
      BY <3>1
    <3> QED
      BY <3>2 DEF u, v
  <2>3. NumSubstreams = Max({x, n})
    BY <1>3, <1>7 DEF NumSubstreams, p
  <2> HIDE DEF x, n
  <2>4. x <= Max({x, n}) /\ Max({x, n}) \in Nat
    BY <1>2, <2>2, MaxOfTwo
  <2> QED
    BY <2>2, <2>3, <2>4 DEF x
<1>9. /\ IsFiniteSet(R \X g.cols) /\ Cardinality(R \X g.cols) = Cardinality(R) * Cardinality(g.cols)
  BY <1>6, <1>7, FS_Product
<1>10. C \subseteq 2 .. Len(s) /\ IsFiniteSet(C) /\ 1 \notin C
  <2>1. C \subseteq 2 .. Len(s)
    BY DEF Cuts
  <2>2. 2 \in Int /\ Len(s) \in Int
    BY <1>1
  <2>3. IsFiniteSet(2 .. Len(s))
    BY ONLY <2>2, FS_Interval, Zenon
  <2> QED
    BY <2>1, <2>3, FS_Subset
<1> DEFINE D == C \cup {1}
           f == [i \in D |-> <<Y(g, s[i]), X(g, s[i])>>]
<1>11. IsFiniteSet(D) /\ Cardinality(D) = Cardinality(C) + 1
  <2> HIDE DEF C
  <2> QED
    BY <1>10, FS_AddElement
<1>12. ASSUME \A i \in D : f[i] \in R \X g.cols
       PROVE  Cardinality(D) <= NumSubstreams
  <2>1. \A i, k \in D : f[i] = f[k] => i = k
    <3>1. SUFFICES ASSUME NEW i \in D, NEW k \in D, f[i] = f[k]
                   PROVE  i = k
      OBVIOUS
    <3>2. i \in 1 .. Len(s) /\ k \in 1 .. Len(s)
      <4> HIDE DEF C
      <4> QED
        BY <1>1, <1>10
    <3>3. Y(g, s[i]) = Y(g, s[k]) /\ X(g, s[i]) = X(g, s[k])
      BY <3>1
    <3>4. s[i] \in Addrs(g) /\ s[k] \in Addrs(g)
      BY <1>1, <3>2
    <3>5. s[i] = g.width * Y(g, s[i]) + X(g, s[i]) /\ s[k] = g.width * Y(g, s[k]) + X(g, s[k])
      BY <1>1, <3>4, Place
    <3>6. s[i] = s[k]
      BY <3>3, <3>5
    <3> QED
      BY <1>1, <3>2, <3>6
  <2> DEFINE T == R \X g.cols
  <2>2. f \in [D -> T]
    <3> HIDE DEF D, T
    <3> QED
      BY <1>12 DEF T
  <2>3. IsFiniteSet(T)
    BY <1>9
  <2> HIDE DEF f, D, T
  <2>4. f \in Injection(D, T)
    BY <2>1, <2>2 DEF Injection, IsInjective
  <2>5. IsFiniteSet(T) /\ Cardinality(D) <= Cardinality(T)
    BY <2>3, <2>4, FS_Injection
  <2>6. Cardinality(D) \in Nat
    BY <1>11, FS_CardinalityType DEF D
  <2> DEFINE y == Cardinality(D)
             z == Cardinality(R) * Cardinality(g.cols)
  <2>7. y <= z
    BY <1>9, <2>5 DEF T
  <2>8. y \in Nat /\ z \in Nat /\ z <= NumSubstreams /\ NumSubstreams \in Nat
    BY <1>8, <2>6
  <2> HIDE DEF y, z
  <2>9. y <= NumSubstreams
    BY <2>7, <2>8
  <2> QED
    BY <2>9 DEF y
<1>13. Cardinality(C) + 1 = 1 + Cardinality(C)
  <2>1. Cardinality(C) \in Nat
    BY <1>10, FS_CardinalityType
  <2> QED
    BY <2>1
<1>14. ASSUME NEW i \in C
       PROVE  /\ s[i] \in Addrs(g)
              /\ TileStart(g, s[i]) \/ RowStart(p, s[i])
              /\ ~p.wpp => TileOf(g, s[i]) # TileOf(g, s[i - 1])
  <2>1. i \in 2 .. Len(s) /\ Cut(p, s, i - 1)
    BY DEF Cuts
  <2>2. i - 1 \in 1 .. Len(s) - 1 /\ i - 1 + 1 = i
    BY <1>1, <2>1
  <2>3. IsGrid(p.grid) /\ IsSlice(p.grid, s)
    BY <1>1 DEF g
  <2>4. /\ s[i - 1 + 1] \in Addrs(p.grid)
        /\ Cut(p, s, i - 1) <=> TileStart(p.grid, s[i - 1 + 1]) \/ RowStart(p, s[i - 1 + 1])
    BY <1>1, <2>2, <2>3, CutTests
  <2> QED
    BY <2>1, <2>2, <2>4 DEF Cut, g
<1>15. CASE p.wpp \/ IsTileRowBd(g, s[1])
  <2>1. ASSUME NEW i \in D
        PROVE  f[i] \in R \X g.cols
    <3>1. s[i] \in Addrs(g) /\ X(g, s[i]) \in g.cols
      <4>1. CASE i = 1
        <5>1. 1 \in 1 .. Len(s)
          BY <1>1
        <5> QED
          BY <1>1, <4>1, <5>1 DEF IsSlice, IsTileColBd
      <4>2. CASE i \in C
        BY <1>14, <4>2 DEF TileStart, RowStart, IsTileColBd, g
      <4> QED
        BY <4>1, <4>2
    <3>2. Y(g, s[i]) \in 0 .. g.height - 1
      BY <1>1, <3>1, Place
    <3>3. ~p.wpp => Y(g, s[i]) \in g.rows
      <4>1. SUFFICES ASSUME ~p.wpp
                     PROVE  Y(g, s[i]) \in g.rows
        OBVIOUS
      <4>2. CASE i = 1
        BY <1>15, <4>1, <4>2 DEF IsTileRowBd
      <4>3. CASE i \in C
        BY <1>14, <4>1, <4>3 DEF TileStart, RowStart, IsTileRowBd
      <4> QED
        BY <4>2, <4>3
    <3> QED
      BY <3>1, <3>2, <3>3
  <2> HIDE DEF C
  <2> QED
    BY <1>8, <1>11, <1>12, <1>13, <2>1 DEF C, p, s
<1>16. CASE ~p.wpp /\ ~IsTileRowBd(g, s[1])
  <2>1. InOneTile(g, s)
    BY <1>1, <1>16 DEF IsSlice
  <2>2. C = {}
    <3>1. SUFFICES ASSUME NEW i \in C
                   PROVE  FALSE
      OBVIOUS
    <3>2. TileOf(g, s[i]) # TileOf(g, s[i - 1])
      BY <1>14, <1>16
    <3>3. i \in 1 .. Len(s) /\ i - 1 \in 1 .. Len(s)
      <4>1. i \in 2 .. Len(s)
        BY <1>10
      <4> QED
        BY <1>1, <4>1
    <3>4. s[i] \in ToSet(s) /\ s[i - 1] \in ToSet(s)
      BY <1>1, <3>3 DEF ToSet
    <3> QED
      BY <2>1, <3>2, <3>4 DEF InOneTile
  <2>4. Cardinality(R) >= 1 /\ Cardinality(g.cols) >= 1
    <3>1. Cardinality(R) \in Nat /\ Cardinality(g.cols) \in Nat
      BY <1>6, <1>7, FS_CardinalityType
    <3>2. Cardinality(R) # 0 /\ Cardinality(g.cols) # 0
      <4> HIDE DEF R
      <4> QED
        BY <1>4, <1>6, <1>7, FS_EmptySet
    <3> QED
      BY <3>1, <3>2
  <2>5. 1 <= Cardinality(R) * Cardinality(g.cols)
    <3> DEFINE u == Cardinality(R)
               v == Cardinality(g.cols)
    <3>1. u \in Nat /\ v \in Nat /\ u >= 1 /\ v >= 1
      BY <1>6, <1>7, <2>4, FS_CardinalityType
    <3> HIDE DEF u, v
    <3>2. 1 <= u * v
      BY <3>1
    <3> QED
      BY <3>2 DEF u, v
  <2>6. Cardinality(C) = 0
    BY <2>2, FS_EmptySet
  <2> DEFINE z == Cardinality(R) * Cardinality(g.cols)
  <2>7. z \in Nat /\ 1 <= z /\ z <= NumSubstreams /\ NumSubstreams \in Nat
    BY <1>8, <2>5
  <2> HIDE DEF z
  <2>8. 1 + 0 <= NumSubstreams
    BY <2>7
  <2>9. C = Cuts(pic, Slice, j)
    BY DEF p, s
  <2> HIDE DEF C
  <2> QED
    BY <2>6, <2>7, <2>8, <2>9
<1> QED
  BY <1>1, <1>8, <1>15, <1>16
----------------------------------------------------------------------------
(* What the decoder is given.                                              *)

\* Extracted's recursion
IsFrom(f, sizes, n) == f = [k \in 1 .. n + 1 |-> IF k = 1 THEN 1 ELSE f[k - 1] + sizes[k - 1]]
FromOf(sizes, n) == CHOOSE f : IsFrom(f, sizes, n)
ExtractedOf(st, sizes, n) ==
  LET data == FlattenSeq(st)
      from == FromOf(sizes, n)
  IN IF n # Len(sizes) THEN << >>
     ELSE [k \in 1 .. n + 1 |-> SubSeq(data, from[k], IF k > n THEN Len(data) ELSE from[k + 1] - 1)]

(* It is a choice.                                                         *)
LEMMA ExtractedIs ==
  Extracted = ExtractedOf(enc.streams, enc.sizes, NumEntryPoints(Slice))
BY DEF Extracted, ExtractedOf, FromOf, IsFrom

(* With the size of every substream but the last, it has the substreams.   *)
LEMMA ExtractedEach ==
  ASSUME NEW st \in Seq(Seq(Symbols)), st # << >>, NEW sizes, NEW n \in Nat, n + 1 = Len(st),
         Len(sizes) = n, \A k \in 1 .. n : sizes[k] = Len(st[k])
  PROVE  ExtractedOf(st, sizes, n) = st
<1> DEFINE data == FlattenSeq(st)
           from == FromOf(sizes, n)
           x == [k \in 1 .. n + 1 |-> SubSeq(data, from[k], IF k > n THEN Len(data) ELSE from[k + 1] - 1)]
<1>1. PICK off : Offsets(off, st)
  BY OffsetsExist
<1>2. /\ data \in Seq(Symbols) /\ Len(data) = off[Len(st) + 1]
      /\ \A k \in 1 .. Len(st) : \A q \in 1 .. Len(st[k]) :
           off[k] + q \in 1 .. Len(data) /\ data[off[k] + q] = st[k][q]
  BY <1>1, Flattened
<1>3. /\ \A k \in 1 .. n + 2 : off[k] \in Nat
      /\ off[1] = 0 /\ \A k \in 1 .. n + 1 : off[k + 1] = off[k] + Len(st[k])
      /\ Len(data) = off[n + 2]
  <2>1. n + 1 + 1 = n + 2
    OBVIOUS
  <2> HIDE DEF data
  <2> QED
    BY <1>1, <1>2, <2>1 DEF Offsets
<1>4. IsFrom(from, sizes, n)
  <2> DEFINE f == [k \in 1 .. n + 1 |-> off[k] + 1]
  <2>1. ASSUME NEW k \in 1 .. n + 1
        PROVE  f[k] = IF k = 1 THEN 1 ELSE f[k - 1] + sizes[k - 1]
    <3>1. CASE k = 1
      BY <1>3, <3>1
    <3>2. CASE k # 1
      <4> DEFINE i == k - 1
      <4>1. i \in 1 .. n /\ i \in 1 .. n + 1 /\ i \in 1 .. n + 2 /\ k = i + 1
        BY <3>2
      <4> HIDE DEF i
      <4>2. off[i + 1] = off[i] + Len(st[i]) /\ sizes[i] = Len(st[i]) /\ off[i] \in Nat
        BY <1>3, <4>1
      <4>3. st[i] \in Seq(Symbols)
        BY <4>1
      <4>4. Len(st[i]) \in Nat
        BY <4>3
      <4>5. f[k] = off[i + 1] + 1 /\ f[i] = off[i] + 1
        BY <4>1
      <4>6. f[k] = f[i] + sizes[i]
        <5> DEFINE u == off[i]
                   v == Len(st[i])
        <5>1. f[k] = u + v + 1 /\ f[i] = u + 1 /\ sizes[i] = v /\ u \in Nat /\ v \in Nat
          BY <4>2, <4>4, <4>5
        <5> HIDE DEF f, u, v
        <5> QED
          BY <5>1
      <4> QED
        BY <3>2, <4>6 DEF i
    <3> QED
      BY <3>1, <3>2
  <2>2. f = [k \in 1 .. n + 1 |-> f[k]]
    OBVIOUS
  <2> HIDE DEF f
  <2>3. f = [k \in 1 .. n + 1 |-> IF k = 1 THEN 1 ELSE f[k - 1] + sizes[k - 1]]
    BY <2>1, <2>2
  <2>4. \E g : IsFrom(g, sizes, n)
    BY <2>3 DEF IsFrom
  <2> QED
    BY <2>4, Zenon DEF FromOf
<1>5. \A k \in 1 .. n + 1 : from[k] = IF k = 1 THEN 1 ELSE from[k - 1] + sizes[k - 1]
  <2> HIDE DEF from
  <2> QED
    BY <1>4 DEF IsFrom
<1> HIDE DEF from, data
<1>6. \A k \in 1 .. n + 1 : from[k] = off[k] + 1
  <2> DEFINE P(m) == from[m + 1] = off[m + 1] + 1
             S == {m \in Nat : m <= n => P(m)}
  <2>1. 0 \in S
    <3>1. P(0)
      BY <1>3, <1>5
    <3> HIDE DEF P
    <3> QED
      BY <3>1
  <2>2. ASSUME NEW m \in S
        PROVE  m + 1 \in S
    <3>0. m \in Nat
      BY <2>2
    <3>1. SUFFICES ASSUME m + 1 <= n
                   PROVE  P(m + 1)
      <4> HIDE DEF P
      <4> QED
        BY <3>0
    <3>2. P(m)
      <4> HIDE DEF P
      <4> QED
        BY <2>2, <3>0, <3>1
    <3> DEFINE i == m + 1
    <3>3. i \in 1 .. n /\ i \in 1 .. n + 1 /\ i + 1 \in 1 .. n + 1 /\ i + 1 # 1 /\ i + 1 - 1 = i /\ i \in 1 .. n + 2
      BY <3>0, <3>1
    <3>4. from[i] = off[i] + 1
      BY <3>2
    <3> HIDE DEF i, S
    <3>5. from[i + 1] = from[i] + sizes[i]
      BY <1>5, <3>3, SMTT(30)
    <3>6. sizes[i] = Len(st[i]) /\ off[i + 1] = off[i] + Len(st[i]) /\ off[i] \in Nat
      BY <1>3, <3>3
    <3>7. st[i] \in Seq(Symbols)
      BY <3>3
    <3>8. Len(st[i]) \in Nat
      BY <3>7
    <3>9. from[i + 1] = off[i + 1] + 1
      BY <3>4, <3>5, <3>6, <3>8
    <3> QED
      BY <3>9 DEF i
  <2>3. S = Nat
    <3> HIDE DEF S
    <3>1. S \in SUBSET Nat
      BY DEF S
    <3> QED
      BY <2>1, <2>2, <3>1, Induction
  <2>4. ASSUME NEW k \in 1 .. n + 1
        PROVE  from[k] = off[k] + 1
    <3> HIDE DEF P, S
    <3>1. k - 1 \in S /\ k - 1 <= n /\ k - 1 + 1 = k
      BY <2>3
    <3>2. P(k - 1)
      BY <3>1 DEF S
    <3> QED
      BY <3>1, <3>2 DEF P
  <2> QED
    BY <2>4
<1>7. ASSUME NEW k \in 1 .. n + 1
      PROVE  x[k] = st[k]
  <2> DEFINE a == off[k]
             m == Len(st[k])
             b == st[k]
  <2>1. a \in Nat /\ b \in Seq(Symbols) /\ m \in Nat /\ m = Len(b) /\ off[k + 1] = a + m
    BY <1>3, SMTT(30)
  <2>2. x[k] = SubSeq(data, a + 1, a + m)
    <3>1. from[k] = a + 1
      BY <1>6
    <3>2. CASE k = n + 1
      <4>1. Len(data) = a + m /\ k > n
        <5>1. k + 1 = n + 2
          BY <3>2
        <5> QED
          BY <1>3, <2>1, <3>2, <5>1
      <4> QED
        BY <3>1, <4>1
    <3>3. CASE k # n + 1
      <4>1. k + 1 \in 1 .. n + 1 /\ ~(k > n)
        BY <3>3
      <4>2. from[k + 1] = a + m + 1
        BY <1>6, <2>1, <4>1
      <4> HIDE DEF a, m
      <4>3. from[k + 1] - 1 = a + m
        BY <2>1, <4>2
      <4> QED
        BY <3>1, <4>1, <4>3
    <3> QED
      BY <3>2, <3>3
  <2>3. \A q \in 1 .. m : a + q \in 1 .. Len(data) /\ data[a + q] = b[q]
    BY <1>2
  <2> HIDE DEF a, m, b, x
  <2>4. a + 1 \in Int /\ a + m \in Int /\ \A i \in a + 1 .. a + m : data[i] \in Symbols
    <3>1. SUFFICES ASSUME NEW i \in a + 1 .. a + m
                   PROVE  data[i] \in Symbols
      BY <2>1
    <3>2. i - a \in 1 .. m /\ a + (i - a) = i
      BY <2>1
    <3>3. i \in 1 .. Len(data)
      BY <2>3, <3>2
    <3> QED
      BY <1>2, <3>3
  <2>5. /\ SubSeq(data, a + 1, a + m) \in Seq(Symbols)
        /\ Len(SubSeq(data, a + 1, a + m)) = m
        /\ \A q \in 1 .. m : SubSeq(data, a + 1, a + m)[q] = data[a + q]
    <3> DEFINE y == a + 1
               z == a + m
               T == Symbols
    <3>1. y \in Int /\ z \in Int /\ \A i \in y .. z : data[i] \in T
      BY <2>4
    <3> HIDE DEF y, z, T
    <3>2. /\ SubSeq(data, y, z) \in Seq(T)
          /\ Len(SubSeq(data, y, z)) = IF y <= z THEN z - y + 1 ELSE 0
          /\ \A i \in 1 .. z - y + 1 : SubSeq(data, y, z)[i] = data[y + i - 1]
      BY <3>1, SubSeqProperties
    <3>3. y = a + 1 /\ z = a + m
      BY DEF y, z
    <3> DEFINE c == SubSeq(data, y, z)
    <3>4. /\ c \in Seq(T) /\ Len(c) = (IF y <= z THEN z - y + 1 ELSE 0)
          /\ \A i \in 1 .. z - y + 1 : c[i] = data[y + i - 1]
      BY <3>2
    <3> HIDE DEF c
    <3>5. Len(c) = m
      BY <2>1, <3>3, <3>4
    <3>6. \A q \in 1 .. m : q \in 1 .. z - y + 1 /\ y + q - 1 = a + q
      BY <2>1, <3>3
    <3>7. \A q \in 1 .. m : c[q] = data[a + q]
      BY <3>4, <3>6
    <3> QED
      BY <3>4, <3>5, <3>7 DEF c, y, z, T
  <2> DEFINE c == SubSeq(data, a + 1, a + m)
  <2>6. c \in Seq(Symbols) /\ Len(c) = m /\ \A q \in 1 .. m : c[q] = b[q]
    BY <2>3, <2>5
  <2> HIDE DEF c
  <2>7. c = b
    BY <2>1, <2>6, SMTT(30)
  <2> QED
    BY <2>2, <2>7 DEF b, c
<1>8. x = st
  <2>1. x = [k \in 1 .. n + 1 |-> x[k]]
    OBVIOUS
  <2>2. st = [k \in 1 .. n + 1 |-> st[k]]
    OBVIOUS
  <2> HIDE DEF x
  <2> QED
    BY <1>7, <2>1, <2>2
<1>9. ExtractedOf(st, sizes, n) = x
  BY DEF ExtractedOf, from, data
<1> HIDE DEF x
<1> QED
  BY <1>8, <1>9

(* Without, one stream of all of them.                                     *)
LEMMA ExtractedOne ==
  ASSUME NEW st \in Seq(Seq(Symbols)), st # << >>
  PROVE  ExtractedOf(st, << >>, 0) = <<FlattenSeq(st)>>
<1> DEFINE data == FlattenSeq(st)
           from == FromOf(<< >>, 0)
           x == [k \in 1 .. 0 + 1 |-> SubSeq(data, from[k], IF k > 0 THEN Len(data) ELSE from[k + 1] - 1)]
<1>1. PICK off : Offsets(off, st)
  BY OffsetsExist
<1>2. data \in Seq(Symbols)
  BY <1>1, Flattened
<1>3. from[1] = 1
  <2> DEFINE f == [k \in 1 .. 0 + 1 |-> 1]
  <2>1. IsFrom(f, << >>, 0)
    BY DEF IsFrom
  <2>2. IsFrom(from, << >>, 0)
    <3> HIDE DEF f
    <3> QED
      BY <2>1, Zenon DEF FromOf
  <2> HIDE DEF from
  <2> QED
    BY <2>2 DEF IsFrom
<1>4. ExtractedOf(st, << >>, 0) = x
  BY DEF ExtractedOf
<1> HIDE DEF from, data
<1>5. SubSeq(data, 1, Len(data)) = data
  BY <1>2
<1>6. x = [k \in 1 .. 1 |-> data]
  BY <1>3, <1>5
<1>7. <<data>> = [k \in 1 .. 1 |-> data]
  OBVIOUS
<1> QED
  BY <1>4, <1>6, <1>7 DEF data
(* setNumEntryPoints counts the substreams but one, so the header tells    *)
(* their sizes.                                                            *)
LEMMA EntryPointsCounted ==
  ASSUME Stands
  PROVE  NumEntryPoints(Slice) = IF pic.entryPoints THEN Cardinality(Cuts(pic, Slice, Len(Slice))) ELSE 0
<1> DEFINE p == pic
           s == Slice
           E == {i \in 2 .. Len(s) :
                   /\ p.entryPoints
                   /\ \/ TileOf(p.grid, s[i]) # TileOf(p.grid, s[i - 1])
                      \/ p.wpp /\ Y(p.grid, s[i]) # Y(p.grid, s[i - 1])}
<1>1. NumEntryPoints(Slice) = Cardinality(E)
  BY DEF NumEntryPoints, grid
<1>2. /\ IsGrid(p.grid) /\ p.wpp \in BOOLEAN /\ p.entryPoints \in BOOLEAN
      /\ IsSlice(p.grid, s) /\ Len(s) \in Nat
  BY Standing DEF grid
<1> HIDE DEF p, s
<1>3. CASE ~p.entryPoints
  <2>1. E = {}
    BY <1>3
  <2> HIDE DEF E
  <2> QED
    BY <1>1, <1>3, <2>1, FS_EmptySet DEF p
<1>4. CASE p.entryPoints
  <2>1. ASSUME NEW i \in 2 .. Len(s)
        PROVE  i \in E <=> i \in Cuts(p, s, Len(s))
    <3>1. i - 1 \in 1 .. Len(s) - 1 /\ i - 1 + 1 = i /\ i <= Len(s) + 1
      BY <1>2
    <3>2. Cut(p, s, i - 1) <=> \/ TileOf(p.grid, s[i - 1 + 1]) # TileOf(p.grid, s[i - 1])
                               \/ p.wpp /\ Y(p.grid, s[i - 1 + 1]) # Y(p.grid, s[i - 1])
      BY <1>2, <3>1, CutTests
    <3> QED
      BY <1>4, <3>1, <3>2 DEF Cuts
  <2>2. E = Cuts(p, s, Len(s))
    <3>1. E \subseteq 2 .. Len(s) /\ Cuts(p, s, Len(s)) \subseteq 2 .. Len(s)
      BY DEF Cuts
    <3> HIDE DEF E
    <3> QED
      BY <2>1, <3>1
  <2> HIDE DEF E
  <2> QED
    BY <1>1, <1>4, <2>2 DEF p, s
<1> QED
  BY <1>2, <1>3, <1>4

\* the substreams the decoder reads
Given(p, st) == IF p.entryPoints THEN st ELSE <<FlattenSeq(st)>>

(* They are what the header and the slice data give.                       *)
LEMMA ExtractedGiven ==
  ASSUME Stands, enc \in EncType, NEW h, History(pic, Slice, h), NEW cs,
         EncAt(pic, Slice, h, cs, Len(Slice), enc)
  PROVE  Extracted = Given(pic, enc.streams)
<1> DEFINE p == pic
           s == Slice
           n == NumEntryPoints(Slice)
           st == enc.streams
           sz == enc.sizes
           b == h[Len(s)].sub
<1>1. s \in Seq(Nat) /\ p.entryPoints \in BOOLEAN /\ Len(s) \in Nat
  <2>1. s \in Seq(Addrs(p.grid)) /\ p.entryPoints \in BOOLEAN /\ Len(s) \in Nat /\ IsGrid(p.grid)
    BY Standing DEF grid
  <2>2. Addrs(p.grid) \subseteq Nat
    BY DEF Addrs
  <2> QED
    BY <2>1, <2>2
<1>2. /\ b = 1 + Cardinality(Cuts(p, s, Len(s))) /\ Cardinality(Cuts(p, s, Len(s))) \in Nat
  <2>1. Len(s) \in 0 .. Len(s)
    BY <1>1
  <2> QED
    BY <1>1, <2>1, CutsCounted
<1>3. /\ Len(st) = b
      /\ p.entryPoints => /\ Len(sz) = b - 1
                          /\ \A k \in 1 .. b - 1 : sz[k] = Len(st[k])
      /\ ~p.entryPoints => sz = << >>
  BY DEF EncAt
<1>4. st \in Seq(Seq(Symbols)) /\ sz \in Seq(Nat)
  BY DEF EncType
<1>5. Extracted = ExtractedOf(st, sz, n)
  BY ExtractedIs
<1>6. n = IF p.entryPoints THEN Cardinality(Cuts(p, s, Len(s))) ELSE 0
  BY EntryPointsCounted
<1> HIDE DEF p, s, n, st, sz, b
<1>7. st # << >>
  BY <1>2, <1>3, <1>4
<1>8. CASE p.entryPoints
  <2>1. n \in Nat /\ b = n + 1
    BY <1>2, <1>6, <1>8
  <2>2. n + 1 = Len(st) /\ Len(sz) = n /\ \A k \in 1 .. n : sz[k] = Len(st[k])
    BY <1>3, <1>8, <2>1
  <2>3. ExtractedOf(st, sz, n) = st
    BY <1>4, <1>7, <2>1, <2>2, ExtractedEach
  <2> QED
    BY <1>5, <1>8, <2>3 DEF Given, p, st
<1>9. CASE ~p.entryPoints
  <2>1. n = 0 /\ sz = << >>
    BY <1>3, <1>6, <1>9
  <2>2. ExtractedOf(st, sz, n) = <<FlattenSeq(st)>>
    BY <1>4, <1>7, <2>1, ExtractedOne
  <2> QED
    BY <1>5, <1>9, <2>2 DEF Given, p, st
<1> QED
  BY <1>8, <1>9

\* the decoder finds CTU j + 1 at loc[j] of the substreams x, and an end behind it
\* where one is
Laid(p, s, h, cs, x, loc, j) ==
  LET b    == loc[j].sub
      q    == loc[j].pos
      ends == EndsAt(p, s, j + 1)
      last == j + 1 = Len(s)
  IN /\ b \in 1 .. Len(x) /\ q \in Nat /\ q + 1 \in 1 .. Len(x[b])
     /\ IsSymbol(p, s, h, cs, j, x[b][q + 1])
     /\ ~ends => loc[j + 1].sub = b /\ loc[j + 1].pos = q + 1
     /\ ends => q + 2 \in 1 .. Len(x[b]) /\ x[b][q + 2].end = TRUE
     /\ ends /\ (p.entryPoints \/ last) => Len(x[b]) = q + 2
     /\ ends /\ ~last /\ p.entryPoints => loc[j + 1].sub = b + 1 /\ loc[j + 1].pos = 0
     /\ ends /\ ~last /\ ~p.entryPoints => loc[j + 1].sub = b /\ loc[j + 1].pos = q + 2

Layout(p, s, h, cs, x, loc) ==
  /\ x \in Seq(Seq(Symbols)) /\ x # << >> /\ loc[0].sub = 1 /\ loc[0].pos = 0
  /\ \A j \in 0 .. Len(s) - 1 : Laid(p, s, h, cs, x, loc, j)

(* Each in its own substream,                                              *)
LEMMA LayoutEach ==
  ASSUME NEW p, p.entryPoints, NEW s \in Seq(Nat), NEW h, History(p, s, h), NEW cs,
         NEW st \in Seq(Seq(Symbols)), st # << >>, \A j \in 0 .. Len(s) - 1 : Coded(p, s, h, cs, st, j)
  PROVE  Layout(p, s, h, cs, st, h)
<1>1. ASSUME NEW j \in 0 .. Len(s) - 1
      PROVE  Laid(p, s, h, cs, st, h, j)
  <2> DEFINE b == h[j].sub
             q == h[j].pos
  <2>1. NextOk(p, s, h, j) /\ Coded(p, s, h, cs, st, j)
    BY NextMark
  <2>2. /\ b \in 1 .. Len(st) /\ q + 1 \in 1 .. Len(st[b]) /\ IsSymbol(p, s, h, cs, j, st[b][q + 1])
        /\ EndsAt(p, s, j + 1) => Len(st[b]) = q + 2 /\ st[b][q + 2].end = TRUE
    BY <2>1 DEF Coded
  <2>3. /\ q \in Nat
        /\ h[j + 1].sub = IF EndsAt(p, s, j + 1) /\ ~(j + 1 = Len(s)) THEN b + 1 ELSE b
        /\ h[j + 1].pos = IF ~EndsAt(p, s, j + 1) THEN q + 1 ELSE IF j + 1 = Len(s) THEN q + 2 ELSE 0
    BY <2>1 DEF NextOk
  <2>4. EndsAt(p, s, j + 1) => q + 2 \in 1 .. Len(st[b])
    <3> DEFINE n == Len(st[b])
    <3>1. q \in Nat /\ (EndsAt(p, s, j + 1) => n = q + 2)
      BY <2>2, <2>3
    <3> HIDE DEF q, n
    <3> QED
      BY <3>1 DEF n
  <2> HIDE DEF b, q
  <2> QED
    BY <2>2, <2>3, <2>4 DEF Laid, b, q
<1>2. h[0].sub = 1 /\ h[0].pos = 0
  BY DEF History
<1> QED
  BY <1>1, <1>2 DEF Layout

(* or all in one.                                                          *)
LEMMA LayoutOne ==
  ASSUME NEW p, ~p.entryPoints, NEW s \in Seq(Nat), NEW h, History(p, s, h), NEW cs,
         NEW st \in Seq(Seq(Symbols)), st # << >>, Len(st) = h[Len(s)].sub,
         \A j \in 0 .. Len(s) - 1 : Coded(p, s, h, cs, st, j)
  PROVE  \E loc : Layout(p, s, h, cs, <<FlattenSeq(st)>>, loc)
<1> DEFINE F == FlattenSeq(st)
           x == <<F>>
<1>1. PICK off : Offsets(off, st)
  BY OffsetsExist
<1>2. /\ F \in Seq(Symbols) /\ Len(F) = off[Len(st) + 1]
      /\ \A k \in 1 .. Len(st) : \A q \in 1 .. Len(st[k]) :
           off[k] + q \in 1 .. Len(F) /\ F[off[k] + q] = st[k][q]
  BY <1>1, Flattened, SMTT(30)
<1> HIDE DEF F
<1>3. \A k \in 1 .. Len(st) : off[k] \in Nat /\ off[k + 1] = off[k] + Len(st[k]) /\ off[1] = 0
  <2>1. \A k \in 1 .. Len(st) : k \in 1 .. Len(st) + 1
    OBVIOUS
  <2> QED
    BY <1>1, <2>1 DEF Offsets
<1>4. x \in Seq(Seq(Symbols)) /\ x # << >> /\ Len(x) = 1 /\ x[1] = F
  BY <1>2
<1> DEFINE loc == [j \in 0 .. Len(s) |-> [sub |-> 1, pos |-> off[h[j].sub] + h[j].pos]]
<1>5. \A j \in 0 .. Len(s) : loc[j].sub = 1 /\ loc[j].pos = off[h[j].sub] + h[j].pos
  OBVIOUS
<1> HIDE DEF x, loc
<1>6. ASSUME NEW j \in 0 .. Len(s) - 1
      PROVE  Laid(p, s, h, cs, x, loc, j)
  <2> DEFINE b == h[j].sub
             q == h[j].pos
             o == off[b]
             n == Len(st[b])
             ends == EndsAt(p, s, j + 1)
             last == j + 1 = Len(s)
  <2>1. NextOk(p, s, h, j) /\ Coded(p, s, h, cs, st, j)
    BY NextMark
  <2>2. /\ b \in 1 .. Len(st) /\ q + 1 \in 1 .. n /\ IsSymbol(p, s, h, cs, j, st[b][q + 1])
        /\ ends => n = q + 2 /\ st[b][q + 2].end = TRUE
    BY <2>1 DEF Coded
  <2>3. /\ q \in Nat
        /\ h[j + 1].sub = IF ends /\ ~last THEN b + 1 ELSE b
        /\ h[j + 1].pos = IF ~ends THEN q + 1 ELSE IF last THEN q + 2 ELSE 0
    BY <2>1 DEF NextOk
  <2>4. o \in Nat /\ off[b + 1] = o + n /\ n \in Nat
    <3>1. st[b] \in Seq(Symbols)
      BY <2>2, SMTT(30)
    <3>2. n \in Nat
      BY <3>1, SMTT(30)
    <3> HIDE DEF b
    <3>3. off[b] \in Nat /\ off[b + 1] = off[b] + Len(st[b])
      BY <1>3, <2>2
    <3> QED
      BY <3>2, <3>3
  <2>5. j \in 0 .. Len(s) /\ j + 1 \in 0 .. Len(s)
    OBVIOUS
  <2>6. loc[j].sub = 1 /\ loc[j].pos = o + q
    BY <1>5, <2>5
  <2>7. loc[j + 1].sub = 1 /\ loc[j + 1].pos = off[h[j + 1].sub] + h[j + 1].pos
    BY <1>5, <2>5
  <2>8. \A i \in 1 .. n : o + i \in 1 .. Len(F) /\ F[o + i] = st[b][i]
    BY <1>2, <2>2
  <2>9. ends /\ last => Len(F) = o + n
    <3>1. SUFFICES ASSUME ends, last
                   PROVE  Len(F) = o + n
      OBVIOUS
    <3>2. h[Len(s)].sub = b
      BY <2>3, <3>1
    <3> QED
      BY <1>2, <2>4, <3>2
  <2> HIDE DEF b, q, o, n, ends, last
  <2>10. o + q + 1 \in 1 .. Len(F) /\ F[o + q + 1] = st[b][q + 1]
    <3>1. o + (q + 1) = o + q + 1
      BY <2>3, <2>4
    <3> QED
      BY <2>2, <2>8, <3>1, SMTT(30)
  <2>11. ends => o + q + 2 \in 1 .. Len(F) /\ F[o + q + 2] = st[b][q + 2]
    <3>1. o + (q + 2) = o + q + 2 /\ (ends => q + 2 \in 1 .. n)
      BY <2>2, <2>3, <2>4
    <3> QED
      BY <2>8, <3>1, SMTT(30)
  <2>12. ~ends => loc[j + 1].pos = o + q + 1
    <3>1. SUFFICES ASSUME ~ends
                   PROVE  loc[j + 1].pos = o + q + 1
      OBVIOUS
    <3>2. h[j + 1].sub = b /\ h[j + 1].pos = q + 1
      BY <2>3, <3>1
    <3>3. loc[j + 1].pos = o + (q + 1)
      BY <2>7, <3>2 DEF o
    <3> QED
      BY <2>3, <2>4, <3>3
  <2>13. ends /\ last => Len(F) = o + q + 2
    BY <2>2, <2>3, <2>4, <2>9
  <2>14. ends /\ ~last => loc[j + 1].pos = o + q + 2
    <3>1. SUFFICES ASSUME ends, ~last
                   PROVE  loc[j + 1].pos = o + q + 2
      OBVIOUS
    <3>2. loc[j + 1].pos = off[b + 1] + 0
      BY <2>3, <2>7, <3>1
    <3> QED
      BY <2>2, <2>3, <2>4, <3>1, <3>2
  <2> DEFINE m == o + q
  <2>15. m \in Nat
    BY <2>3, <2>4
  <2> HIDE DEF m
  <2>16. /\ loc[j].sub \in 1 .. Len(x) /\ loc[j].pos \in Nat /\ loc[j].pos = m /\ x[loc[j].sub] = F
         /\ loc[j + 1].sub = loc[j].sub
    BY <1>4, <2>6, <2>7, <2>15 DEF m
  <2> QED
    BY <2>2, <2>10, <2>11, <2>12, <2>13, <2>14, <2>16 DEF Laid, m, ends, last
<1>7. loc[0].sub = 1 /\ loc[0].pos = 0
  <2>1. 0 \in 0 .. Len(s) /\ 1 \in 1 .. Len(st)
    OBVIOUS
  <2> QED
    <3>1. h[0].sub = 1 /\ h[0].pos = 0
      BY DEF History
    <3>2. off[1] = 0
      BY <1>3, <2>1
    <3>3. loc[0].sub = 1 /\ loc[0].pos = off[h[0].sub] + h[0].pos
      BY <1>5, <2>1
    <3> QED
      BY <3>1, <3>2, <3>3
<1>8. Layout(p, s, h, cs, x, loc)
  BY <1>4, <1>6, <1>7 DEF Layout
<1> QED
  BY <1>8 DEF x, F

(* So there is a layout of what the decoder reads.                         *)
LEMMA LayoutExists ==
  ASSUME NEW p, p.entryPoints \in BOOLEAN, NEW s \in Seq(Nat), NEW h, History(p, s, h), NEW cs,
         NEW e \in EncType, EncAt(p, s, h, cs, Len(s), e)
  PROVE  \E loc : Layout(p, s, h, cs, Given(p, e.streams), loc)
<1> DEFINE st == e.streams
           b == h[Len(s)].sub
<1>1. st \in Seq(Seq(Symbols))
  BY DEF EncType
<1>2. Len(st) = b /\ \A j \in 0 .. Len(s) - 1 : Coded(p, s, h, cs, st, j)
  BY DEF EncAt
<1>3. b \in Nat \ {0}
  <2>1. Len(s) \in 0 .. Len(s)
    OBVIOUS
  <2>2. h[Len(s)] \in Marks
    BY <2>1 DEF History
  <2> QED
    BY <2>2 DEF Marks
<1> HIDE DEF b
<1>4. st # << >>
  BY <1>1, <1>2, <1>3
<1>5. Len(st) = h[Len(s)].sub
  BY <1>2 DEF b
<1> HIDE DEF st
<1>6. CASE p.entryPoints
  <2>1. Layout(p, s, h, cs, st, h)
    BY <1>1, <1>2, <1>4, <1>6, LayoutEach
  <2> QED
    BY <1>6, <2>1 DEF Given, st
<1>7. CASE ~p.entryPoints
  <2>1. \E loc : Layout(p, s, h, cs, <<FlattenSeq(st)>>, loc)
    BY <1>1, <1>2, <1>4, <1>5, <1>7, LayoutOne
  <2> QED
    BY <1>7, <2>1 DEF Given, st
<1> QED
  BY <1>6, <1>7
----------------------------------------------------------------------------
(* What decompressSlice has read.                                          *)

\* read is what is left of y behind its first q symbols
Rest(read, y, q) ==
  Len(read) = Len(y) - q /\ \A i \in 1 .. Len(read) : read[i] = y[q + i]

\* the decoder after j CTUs
DecAt(p, s, h, x, loc, j, d) ==
  /\ d.ctx = h[j].ctx /\ d.sync = h[j].sync /\ d.coder = CoderAt(p, s, j)
  /\ Len(d.streams) = Len(x)
  /\ j < Len(s) =>
       /\ d.sub = loc[j].sub /\ Rest(d.streams[d.sub], x[d.sub], loc[j].pos)
       /\ \A k \in d.sub + 1 .. Len(x) : d.streams[k] = x[k]

(* A symbol is taken.                                                      *)
LEMMA RestTail ==
  ASSUME NEW T, NEW read \in Seq(T), NEW y \in Seq(T), NEW q \in Nat, Rest(read, y, q), q + 1 \in 1 .. Len(y)
  PROVE  /\ read # << >> /\ Head(read) = y[q + 1] /\ Tail(read) \in Seq(T) /\ Rest(Tail(read), y, q + 1)
<1> DEFINE n == Len(y)
           m == Len(read)
<1>1. n \in Nat /\ m \in Nat /\ m = n - q /\ \A i \in 1 .. m : read[i] = y[q + i]
  BY DEF Rest
<1>2. q + 1 \in 1 .. n
  OBVIOUS
<1>3. n = Len(y) /\ m = Len(read)
  OBVIOUS
<1> HIDE DEF n, m
<1>4. m >= 1 /\ 1 \in 1 .. m
  BY <1>1, <1>2
<1>5. read # << >> /\ Head(read) = y[q + 1]
  <2>1. read # << >>
    BY <1>3, <1>4
  <2>2. Head(read) = read[1]
    BY <2>1
  <2> QED
    BY <1>1, <1>4, <2>1, <2>2
<1>6. /\ Tail(read) \in Seq(T) /\ Len(Tail(read)) = m - 1
      /\ \A i \in 1 .. Len(Tail(read)) : Tail(read)[i] = read[i + 1]
  BY <1>3, <1>5, HeadTailProperties
<1>7. ASSUME NEW i \in 1 .. m - 1
      PROVE  Tail(read)[i] = y[q + 1 + i]
  <2>1. i + 1 \in 1 .. m /\ q + (i + 1) = q + 1 + i
    BY <1>1
  <2> QED
    BY <1>1, <1>6, <2>1
<1>8. m - 1 = n - (q + 1)
  BY <1>1
<1> QED
  BY <1>3, <1>5, <1>6, <1>7, <1>8 DEF Rest

\* the substreams after a symbol of the b-th is taken
Taken(st, b) == [st EXCEPT ![b] = Tail(@)]

TakenOk(st, x, b, q) ==
  /\ st[b] # << >> /\ Head(st[b]) = x[b][q + 1] /\ Taken(st, b) \in Seq(Seq(Symbols))
  /\ Len(Taken(st, b)) = Len(x) /\ Taken(st, b)[b] = Tail(st[b])
  /\ Rest(Taken(st, b)[b], x[b], q + 1)
  /\ \A k \in b + 1 .. Len(x) : Taken(st, b)[k] = x[k]

(* What they are.                                                          *)
LEMMA TakenIs ==
  ASSUME NEW st \in Seq(Seq(Symbols)), NEW x \in Seq(Seq(Symbols)), Len(st) = Len(x),
         NEW b \in 1 .. Len(x), NEW q \in Nat, Rest(st[b], x[b], q), q + 1 \in 1 .. Len(x[b]),
         \A k \in b + 1 .. Len(x) : st[k] = x[k]
  PROVE  TakenOk(st, x, b, q)
<1> DEFINE read == st[b]
           y == x[b]
           t == Tail(read)
<1>1. read \in Seq(Symbols) /\ y \in Seq(Symbols) /\ Rest(read, y, q) /\ q + 1 \in 1 .. Len(y)
  OBVIOUS
<1> HIDE DEF read, y
<1>2. /\ read # << >> /\ Head(read) = y[q + 1] /\ t \in Seq(Symbols) /\ Rest(t, y, q + 1)
  BY <1>1, RestTail
<1> HIDE DEF t
<1>3. Taken(st, b) = [st EXCEPT ![b] = t]
  BY DEF Taken, t, read
<1>4. /\ Taken(st, b) \in Seq(Seq(Symbols)) /\ Len(Taken(st, b)) = Len(x) /\ Taken(st, b)[b] = t
      /\ \A k \in b + 1 .. Len(x) : Taken(st, b)[k] = x[k]
  BY <1>2, <1>3, SMTT(30)
<1> QED
  BY <1>2, <1>4 DEF read, y, t, TakenOk

\* the QP that a difference gives
QpRead(qps, prev, dqp) ==
  LET pred == PredictQP(qps, Addr, QpAt(Addr, prev))
  IN IF dqp = << >> THEN pred ELSE ReadQp(pred, dqp[1])

(* QPs are numbers.                                                        *)
LEMMA PredictQPIs ==
  ASSUME Stands, NEW qps, \A a \in Addrs(grid) : qps[a] \in Int, NEW prev \in Int
  PROVE  PredictQP(qps, Addr, prev) \in Int /\ PredictQP(qps, Addr, QpAt(Addr, prev)) \in Int
<1>1. SliceQp \in Int
  BY QPAssumption DEF MAX_QP
<1>2. QpAt(Addr, prev) \in Int
  BY <1>1 DEF QpAt
<1>3. AboveAvailable(Addr) => qps[Addr - grid.width] \in Int
  <2>1. ToSet(Slice) \subseteq Addrs(grid)
    BY Standing DEF ToSet
  <2> QED
    BY <2>1 DEF AboveAvailable
<1> QED
  BY <1>2, <1>3 DEF PredictQP

(* The same of differences.                                                *)
LEMMA QpReadIs ==
  ASSUME Stands, NEW qps, \A a \in Addrs(grid) : qps[a] \in Int, NEW prev \in Int, NEW dqp \in Seq(Int)
  PROVE  QpRead(qps, prev, dqp) \in Int
<1> DEFINE pred == PredictQP(qps, Addr, QpAt(Addr, prev))
<1>1. pred \in Int
  BY PredictQPIs
<1> HIDE DEF pred
<1>2. ASSUME dqp # << >>
      PROVE  ReadQp(pred, dqp[1]) \in Int
  <2> DEFINE v == dqp[1]
  <2>1. v \in Int /\ QpBdOffset \in Nat
    BY <1>2, QPAssumption
  <2> HIDE DEF v
  <2> DEFINE n == pred + v + 64 + 2 * QpBdOffset
             m == 64 + QpBdOffset
  <2>2. n \in Int /\ m \in Nat \ {0}
    BY <1>1, <2>1
  <2>3. pred + v + MAX_QP + 1 + 2 * QpBdOffset = n /\ QpRange = m
    BY <1>1, <2>1 DEF MAX_QP, QpRange
  <2> HIDE DEF n, m
  <2>4. (n % m) - QpBdOffset \in Int
    BY <2>1, <2>2
  <2>5. ReadQp(pred, v) = (n % m) - QpBdOffset
    BY <2>3, SMTT(30) DEF ReadQp
  <2> QED
    BY <2>4, <2>5 DEF v
<1> QED
  BY <1>1, <1>2 DEF QpRead, pred
(* A CTU is read with the contexts it was written with, and the end of its *)
(* substream is where the decoder expects it.                              *)
LEMMA Reads ==
  ASSUME Stands, NEW h, History(pic, Slice, h), NEW cs, NEW x, NEW loc, Layout(pic, Slice, h, cs, x, loc),
         NEW d, d = IF ctuIdx = 0 THEN DecStart ELSE dec,
         d \in DecType, DecAt(pic, Slice, h, x, loc, ctuIdx, d),
         \A a \in Addrs(grid) : decQp[a] \in Int,
         DecodeCtu
  PROVE  /\ dec' \in DecType /\ DecAt(pic, Slice, h, x, loc, ctuIdx + 1, dec')
         /\ \E y \in Symbols :
              /\ IsSymbol(pic, Slice, h, cs, ctuIdx, y)
              /\ decQp' = [decQp EXCEPT ![Addr] = QpRead(decQp, d.prevQP, y.dqp)]
              /\ dec'.prevQP = QpRead(decQp, d.prevQP, y.dqp)
<1> DEFINE p == pic
           s == Slice
           j == ctuIdx
           b == loc[j].sub
           q == loc[j].pos
           ends == EndsAt(p, s, j + 1)
           last == j + 1 = Len(s)
           c == SetUp(d, Addr)
           y == x[b][q + 1]
<1>1. /\ s \in Seq(Nat) /\ j \in 0 .. Len(s) - 1 /\ j \in Nat /\ Len(s) \in Nat /\ Addr = s[j + 1]
      /\ p.entryPoints \in BOOLEAN /\ p.wpp \in BOOLEAN
  <2>1. s \in Seq(Addrs(p.grid)) /\ IsGrid(p.grid)
    BY Standing DEF grid
  <2>2. Addrs(p.grid) \subseteq Nat
    BY DEF Addrs
  <2> QED
    BY <2>1, <2>2, Standing DEF Addr, Stands
<1>2. NextOk(p, s, h, j)
  BY <1>1, NextMark
<1>3. Laid(p, s, h, cs, x, loc, j) /\ x \in Seq(Seq(Symbols))
  BY <1>1 DEF Layout
<1>4. /\ c \in DecType /\ c.ctx = NewCtx(p, s, j, h[j].ctx, h[j].sync) /\ c.sync = h[j].sync
      /\ c.coder # "ended" /\ c.streams = d.streams /\ c.sub = d.sub /\ c.prevQP = d.prevQP
  <2>1. d.ctx = h[j].ctx /\ d.sync = h[j].sync /\ d.coder = CoderAt(p, s, j)
    BY DEF DecAt
  <2>2. j = 0 => d.ctx = << >>
    BY <2>1 DEF History
  <2> QED
    BY <2>1, <2>2, SetUpDec
<1>5. /\ Len(c.streams) = Len(x) /\ c.sub = b
      /\ Rest(c.streams[b], x[b], q) /\ \A k \in b + 1 .. Len(x) : c.streams[k] = x[k]
  <2>1. j < Len(s)
    BY <1>1
  <2> HIDE DEF c
  <2> QED
    BY <1>4, <2>1 DEF DecAt
<1>6. /\ b \in 1 .. Len(x) /\ q \in Nat /\ q + 1 \in 1 .. Len(x[b])
      /\ IsSymbol(p, s, h, cs, j, y)
      /\ ~ends => loc[j + 1].sub = b /\ loc[j + 1].pos = q + 1
      /\ ends => q + 2 \in 1 .. Len(x[b]) /\ x[b][q + 2].end = TRUE
      /\ ends /\ (p.entryPoints \/ last) => Len(x[b]) = q + 2
      /\ ends /\ ~last /\ p.entryPoints => loc[j + 1].sub = b + 1 /\ loc[j + 1].pos = 0
      /\ ends /\ ~last /\ ~p.entryPoints => loc[j + 1].sub = b /\ loc[j + 1].pos = q + 2
  BY <1>3 DEF Laid
<1> HIDE DEF c
<1> DEFINE st == c.streams
           read == st[b]
           one == Taken(st, b)
           two == Taken(one, b)
           rest == Tail(read)
<1>7. st \in Seq(Seq(Symbols)) /\ c.prevQP \in Int /\ c.fault = FALSE
  BY <1>4 DEF DecType
<1> HIDE DEF b, q
<1>8. /\ read # << >> /\ Head(read) = y /\ one \in Seq(Seq(Symbols)) /\ Len(one) = Len(x) /\ one[b] = rest
      /\ Rest(one[b], x[b], q + 1) /\ \A k \in b + 1 .. Len(x) : one[k] = x[k]
  <2>1. TakenOk(st, x, b, q)
    <3> HIDE DEF st
    <3>1. Len(st) = Len(x) /\ Rest(st[b], x[b], q) /\ \A k \in b + 1 .. Len(x) : st[k] = x[k]
      BY <1>5 DEF st
    <3> QED
      BY <1>3, <1>6, <1>7, <3>1, TakenIs
  <2> HIDE DEF st, y
  <2> QED
    BY <2>1 DEF TakenOk, y
<1>9. ends => /\ rest # << >> /\ Head(rest) = x[b][q + 2] /\ two \in Seq(Seq(Symbols)) /\ Len(two) = Len(x)
              /\ Rest(two[b], x[b], q + 2) /\ \A k \in b + 1 .. Len(x) : two[k] = x[k]
  <2>1. SUFFICES ASSUME ends
                 PROVE  /\ rest # << >> /\ Head(rest) = x[b][q + 2] /\ two \in Seq(Seq(Symbols)) /\ Len(two) = Len(x)
                        /\ Rest(two[b], x[b], q + 2) /\ \A k \in b + 1 .. Len(x) : two[k] = x[k]
    OBVIOUS
  <2> DEFINE q1 == q + 1
  <2>2. q1 \in Nat /\ q1 + 1 = q + 2 /\ q1 + 1 \in 1 .. Len(x[b])
    BY <1>6, <2>1
  <2> HIDE DEF one, rest, q1
  <2>3. /\ one[b] # << >> /\ Head(one[b]) = x[b][q1 + 1] /\ two \in Seq(Seq(Symbols))
        /\ Len(two) = Len(x) /\ Rest(two[b], x[b], q1 + 1) /\ \A k \in b + 1 .. Len(x) : two[k] = x[k]
    <3>1. Rest(one[b], x[b], q1)
      BY <1>8 DEF q1
    <3>2. TakenOk(one, x, b, q1)
      BY <1>3, <1>6, <1>8, <2>2, <3>1, TakenIs
    <3> HIDE DEF two
    <3> QED
      BY <3>2 DEF TakenOk, two
  <2> QED
    BY <1>8, <2>2, <2>3
<1>10. y \in Symbols
  <2>1. x[b] \in Seq(Symbols)
    BY <1>3, <1>6
  <2> QED
    BY <1>6, <2>1
<1>11. /\ y.end = FALSE /\ y.addr = Addr /\ y.ctx = c.ctx /\ y.dqp \in Seq(Int)
  BY <1>1, <1>4, <1>6, <1>10 DEF IsSymbol, Symbols
<1>12. ExpectsEnd <=> ends
  <2>1. LastCtu <=> last
    BY <1>1 DEF LastCtu
  <2>2. CASE last
    BY <2>1, <2>2 DEF ExpectsEnd, EndsAt
  <2>3. CASE ~last
    <3>1. j + 1 \in 1 .. Len(s) - 1 /\ IsGrid(p.grid) /\ IsSlice(p.grid, s)
      BY <1>1, <2>3, Standing DEF grid
    <3> HIDE DEF p, s, j
    <3>2. Cut(p, s, j + 1) <=> /\ X(p.grid, s[j + 1]) + 1 = TileColEnd(p.grid, X(p.grid, s[j + 1]))
                               /\ Y(p.grid, s[j + 1]) + 1 = TileRowEnd(p.grid, Y(p.grid, s[j + 1])) \/ p.wpp
      BY <1>1, <3>1, CutTests
    <3>3. ends <=> Cut(p, s, j + 1)
      BY <2>3 DEF EndsAt
    <3>4. grid = p.grid /\ pic = p
      BY DEF grid, p
    <3> QED
      BY <1>1, <2>1, <2>3, <3>2, <3>3, <3>4 DEF ExpectsEnd
  <2> QED
    BY <2>2, <2>3
<1> DEFINE qp == QpRead(decQp, d.prevQP, y.dqp)
           ctx == Append(c.ctx, Addr)
           new == IF IsTileColBd(grid, Addr) /\ pic.wpp THEN ctx ELSE c.sync
           learnt == [c EXCEPT !.ctx = ctx, !.coder = "used", !.fault = FALSE, !.sync = new]
           decoded == [learnt EXCEPT !.streams[c.sub] = Tail(@), !.prevQP = qp]
           moved == [Ended(decoded) EXCEPT !.streams[c.sub] = Tail(@),
                                           !.sub = IF pic.entryPoints /\ ~LastCtu THEN @ + 1 ELSE @]
<1>13. qp \in Int
  <2>1. d.prevQP \in Int
    BY DEF DecType
  <2> HIDE DEF y
  <2> QED
    BY <1>11, <2>1, QpReadIs
<1>14. ctx \in Seq(Nat) /\ new \in Seq(Nat) /\ Learnt(c, Addr) = learnt
  BY <1>4, LearntIs
<1> HIDE DEF st, one, two, rest, y, ends, last, p, s, j
<1>15. /\ decoded \in DecType /\ decoded.ctx = ctx /\ decoded.sync = new /\ decoded.coder = "used"
       /\ decoded.streams = one /\ decoded.sub = b /\ decoded.prevQP = qp
  <2>1. decoded = [c EXCEPT !.ctx = ctx, !.coder = "used", !.fault = FALSE, !.sync = new,
                            !.streams = one, !.prevQP = qp]
    BY <1>4, <1>5 DEF DecType, one, st, Taken
  <2> HIDE DEF qp, ctx, new, decoded, learnt
  <2> QED
    BY <1>4, <1>5, <1>8, <1>13, <1>14, <2>1 DEF DecType
<1>16. LastCtu <=> last
  BY <1>1 DEF LastCtu, last, s, j
<1>17. ends => /\ moved \in DecType /\ moved.ctx = ctx /\ moved.sync = new /\ moved.coder = "ended"
               /\ moved.streams = two /\ moved.prevQP = qp
               /\ moved.sub = IF p.entryPoints /\ ~last THEN b + 1 ELSE b
  <2>1. SUFFICES ASSUME ends
                 PROVE  /\ moved \in DecType /\ moved.ctx = ctx /\ moved.sync = new /\ moved.coder = "ended"
                        /\ moved.streams = two /\ moved.prevQP = qp
                        /\ moved.sub = IF p.entryPoints /\ ~last THEN b + 1 ELSE b
    OBVIOUS
  <2> DEFINE sub == IF p.entryPoints /\ ~last THEN b + 1 ELSE b
  <2>2. sub \in Nat \ {0}
    BY <1>3, <1>6
  <2> HIDE DEF decoded, learnt, qp, ctx, new
  <2>3. moved = [decoded EXCEPT !.coder = "ended", !.streams = two, !.sub = sub]
    <3>1. c.sub = b /\ decoded.sub = b /\ decoded.streams = one
      BY <1>5, <1>15
    <3>2. (IF pic.entryPoints /\ ~LastCtu THEN b + 1 ELSE b) = sub
      BY <1>16 DEF p
    <3> HIDE DEF sub
    <3> QED
      BY <1>15, <3>1, <3>2 DEF DecType, Ended, two, Taken
  <2> HIDE DEF moved, sub
  <2>4. /\ moved \in DecType /\ moved.ctx = ctx /\ moved.sync = new /\ moved.coder = "ended"
        /\ moved.streams = two /\ moved.prevQP = qp /\ moved.sub = sub
    BY <1>9, <1>15, <2>1, <2>2, <2>3 DEF DecType
  <2> QED
    BY <2>4, SMTT(30) DEF sub
<1>18. /\ decQp' = [decQp EXCEPT ![Addr] = qp]
       /\ dec' = IF ends THEN moved ELSE decoded
  <2> DEFINE readable == read # << >> /\ ~Head(read).end /\ Head(read).addr = Addr /\ Head(read).ctx = c.ctx
             finished == pic.entryPoints \/ LastCtu => Len(rest) = 1
  <2>1. read = c.streams[c.sub]
    BY <1>5 DEF st
  <2>2. readable
    BY <1>8, <1>11
  <2>3. ends => rest # << >> /\ Head(rest).end /\ finished
    <3>1. SUFFICES ASSUME ends
                   PROVE  rest # << >> /\ Head(rest).end /\ finished
      OBVIOUS
    <3>2. rest # << >> /\ Head(rest).end = TRUE
      BY <1>6, <1>9, <3>1
    <3>3. ASSUME pic.entryPoints \/ LastCtu
          PROVE  Len(rest) = 1
      <4>1. Len(x[b]) = q + 2 /\ Len(rest) = Len(x[b]) - (q + 1)
        BY <1>6, <1>8, <1>16, <3>1, <3>3 DEF Rest, p
      <4> QED
        BY <1>6, <4>1
    <3> QED
      BY <3>2, <3>3
  <2>4. qp = IF y.dqp = << >> THEN PredictQP(decQp, Addr, QpAt(Addr, c.prevQP))
             ELSE ReadQp(PredictQP(decQp, Addr, QpAt(Addr, c.prevQP)), y.dqp[1])
    BY <1>4 DEF QpRead
  <2>5. decoded = [Learnt(c, Addr) EXCEPT !.streams[c.sub] = Tail(@), !.prevQP = qp]
    BY <1>14
  <2>6. /\ decQp' = [decQp EXCEPT ![Addr] = qp]
        /\ dec' = IF ~ExpectsEnd THEN decoded
                  ELSE IF rest = << >> THEN Fails(decoded)
                  ELSE IF ~Head(rest).end \/ ~finished THEN Fails(decoded)
                  ELSE moved
    <3> DEFINE a    == Addr
               d0   == SetUp(IF ctuIdx = 0 THEN DecStart ELSE dec, a)
               prev == QpAt(a, d0.prevQP)
               pred == PredictQP(decQp, a, prev)
               rd   == d0.streams[d0.sub]
               ok   == rd # << >> /\ ~Head(rd).end /\ Head(rd).addr = a /\ Head(rd).ctx = d0.ctx
               dqp  == Head(rd).dqp
               v    == IF dqp = << >> THEN pred ELSE ReadQp(pred, dqp[1])
               dd   == [Learnt(d0, a) EXCEPT !.streams[d0.sub] = Tail(@), !.prevQP = v]
               rs   == Tail(rd)
               mv   == [Ended(dd) EXCEPT !.streams[d0.sub] = Tail(@),
                                         !.sub = IF pic.entryPoints /\ ~LastCtu THEN @ + 1 ELSE @]
               fin  == pic.entryPoints \/ LastCtu => Len(rs) = 1
    <3>1. IF d0.fault \/ ~ok THEN dec' = Fails(d0) /\ UNCHANGED decQp
          ELSE /\ decQp' = [decQp EXCEPT ![a] = v]
               /\ dec' = IF ~ExpectsEnd THEN dd
                         ELSE IF rs = << >> THEN Fails(dd)
                         ELSE IF ~Head(rs).end \/ ~fin THEN Fails(dd)
                         ELSE mv
      BY DEF DecodeCtu
    <3>2. d0 = c
      BY DEF c
    <3> HIDE DEF d0
    <3>3. rd = read
      BY <2>1, <3>2
    <3>4. v = qp
      BY <1>8, <2>4, <3>2, <3>3
    <3>5. dd = decoded /\ rs = rest
      BY <2>5, <3>2, <3>3, <3>4 DEF rest
    <3> HIDE DEF dd, v, rd, rs, qp, decoded, moved
    <3>6. mv = moved /\ (fin <=> finished)
      BY <3>2, <3>5 DEF moved
    <3>7. ok /\ ~d0.fault
      BY <1>7, <2>2, <3>2, <3>3
    <3> HIDE DEF mv, fin, ok, finished
    <3> QED
      BY <3>1, <3>4, <3>5, <3>6, <3>7, SMTT(30)
  <2> HIDE DEF finished, moved, decoded, qp
  <2> QED
    BY <1>12, <2>3, <2>6
<1>19. DecAt(pic, Slice, h, x, loc, ctuIdx + 1, dec')
  <2> HIDE DEF qp, ctx, new, decoded, learnt, moved
  <2>1. h[j + 1].ctx = ctx /\ h[j + 1].sync = new
    <3>1. /\ h[j + 1].ctx = Append(NewCtx(p, s, j, h[j].ctx, h[j].sync), s[j + 1])
          /\ h[j + 1].sync = IF IsTileColBd(p.grid, s[j + 1]) /\ p.wpp THEN h[j + 1].ctx ELSE h[j].sync
      BY <1>2 DEF NextOk
    <3>2. ctx = Append(c.ctx, Addr) /\ new = IF IsTileColBd(grid, Addr) /\ pic.wpp THEN ctx ELSE c.sync
      BY DEF ctx, new
    <3> QED
      BY <1>1, <1>4, <3>1, <3>2 DEF p, grid, s, j
  <2>2. CASE ~ends
    <3>1. dec' = decoded /\ CoderAt(p, s, j + 1) = "used"
      BY <1>1, <1>18, <2>2 DEF CoderAt, ends
    <3>2. loc[j + 1].sub = b /\ loc[j + 1].pos = q + 1
      BY <1>6, <2>2
    <3> QED
      BY <1>8, <1>15, <2>1, <3>1, <3>2 DEF DecAt, p, s, j
  <2>3. CASE ends
    <3>1. dec' = moved /\ CoderAt(p, s, j + 1) = "ended"
      BY <1>1, <1>18, <2>3 DEF CoderAt, ends
    <3>2. ASSUME j + 1 < Len(s)
          PROVE  /\ dec'.sub = loc[j + 1].sub /\ Rest(dec'.streams[dec'.sub], x[dec'.sub], loc[j + 1].pos)
                 /\ \A k \in dec'.sub + 1 .. Len(x) : dec'.streams[k] = x[k]
      <4>1. ~last
        BY <1>1, <3>2 DEF last
      <4>2. CASE p.entryPoints
        <5>1. dec'.sub = b + 1 /\ loc[j + 1].sub = b + 1 /\ loc[j + 1].pos = 0 /\ dec'.streams = two
          BY <1>6, <1>17, <2>3, <3>1, <4>1, <4>2
        <5>2. \A k \in b + 1 .. Len(x) : two[k] = x[k]
          BY <1>9, <2>3
        <5>3. b + 1 \in 1 .. Len(x)
          <6>1. j + 1 \in 0 .. Len(s) - 1
            BY <1>1, <3>2
          <6>2. Laid(p, s, h, cs, x, loc, j + 1)
            BY <6>1 DEF Layout, p, s, j
          <6> QED
            BY <5>1, <6>2 DEF Laid
        <5>4. two[b + 1] = x[b + 1] /\ x[b + 1] \in Seq(Symbols)
          BY <1>3, <1>6, <5>2, <5>3
        <5>5. Rest(two[b + 1], x[b + 1], 0)
          <6> DEFINE z == x[b + 1]
          <6>1. z \in Seq(Symbols)
            BY <5>4
          <6> HIDE DEF z
          <6>2. Rest(z, z, 0)
            BY <6>1 DEF Rest
          <6> QED
            BY <5>4, <6>2 DEF z
        <5>6. \A k \in b + 1 + 1 .. Len(x) : two[k] = x[k]
          BY <1>3, <1>6, <5>2
        <5> QED
          BY <5>1, <5>5, <5>6
      <4>3. CASE ~p.entryPoints
        <5>1. dec'.sub = b /\ loc[j + 1].sub = b /\ loc[j + 1].pos = q + 2 /\ dec'.streams = two
          BY <1>6, <1>17, <2>3, <3>1, <4>1, <4>3
        <5> QED
          BY <1>9, <2>3, <5>1
      <4> QED
        BY <4>2, <4>3
    <3>3. dec'.ctx = ctx /\ dec'.sync = new /\ dec'.coder = "ended" /\ Len(dec'.streams) = Len(x)
      BY <1>9, <1>17, <2>3, <3>1
    <3> QED
      BY <2>1, <3>1, <3>2, <3>3 DEF DecAt, p, s, j
  <2> QED
    BY <2>2, <2>3
<1>20. dec' \in DecType /\ dec'.prevQP = qp
  <2> HIDE DEF qp, decoded, moved
  <2> QED
    BY <1>15, <1>17, <1>18
<1>21. IsSymbol(pic, Slice, h, cs, ctuIdx, y)
  BY <1>6 DEF p, s, j
<1> HIDE DEF y
<1> QED
  BY <1>10, <1>18, <1>19, <1>20, <1>21
----------------------------------------------------------------------------
(* The CTU that encodeSlice writes.                                        *)

CuTypes == cus \in [Addrs(grid) -> [qp : Int, residual : BOOLEAN]]

\* what encodeSlice predicts the QP from
EncPred(prev) == PredictQP([a \in DOMAIN cus |-> cus[a].qp], Addr, prev)

(* It writes the CTU's symbol where the history says, and ends the         *)
(* substream there.                                                        *)
LEMMA Encodes ==
  ASSUME Stands, CuTypes, NEW h, History(pic, Slice, h),
         NEW e, e = IF ctuIdx = 0 THEN EncStart ELSE enc,
         e \in EncType, EncAt(pic, Slice, h, cus, ctuIdx, e),
         InOneTile(grid, Slice) => EncPred(e.prevQP) = PredOf(pic, Slice, cus, ctuIdx),
         EncodeCtu
  PROVE  /\ enc' \in EncType /\ EncAt(pic, Slice, h, cus, ctuIdx + 1, enc')
         /\ enc'.prevQP = IF cus[Addr].residual THEN cus[Addr].qp ELSE EncPred(e.prevQP)
<1> DEFINE p == pic
           s == Slice
           j == ctuIdx
           ends == EndsAt(p, s, j + 1)
           last == j + 1 = Len(s)
           c == SetUp(e, Addr)
           cu == cus[Addr]
           pred == EncPred(c.prevQP)
           dqp == IF cu.residual THEN <<WrittenDQp(cu.qp, pred)>> ELSE << >>
           y == Symbol(c, Addr, dqp)
           qp == IF cu.residual THEN cu.qp ELSE pred
<1>1. /\ s \in Seq(Nat) /\ j \in 0 .. Len(s) - 1 /\ j \in Nat /\ Len(s) \in Nat /\ Addr = s[j + 1]
      /\ p.entryPoints \in BOOLEAN /\ p.wpp \in BOOLEAN /\ Addr \in Addrs(grid) /\ Addr \in Nat
  <2>1. s \in Seq(Addrs(p.grid)) /\ IsGrid(p.grid)
    BY Standing DEF grid
  <2>2. Addrs(p.grid) \subseteq Nat
    BY DEF Addrs
  <2> QED
    BY <2>1, <2>2, Standing DEF Addr, Stands
<1>2. NextOk(p, s, h, j)
  BY <1>1, NextMark
<1>3. /\ c \in EncType /\ c.ctx = NewCtx(p, s, j, h[j].ctx, h[j].sync) /\ c.sync = h[j].sync
      /\ c.coder # "ended" /\ c.streams = e.streams /\ c.sizes = e.sizes /\ c.prevQP = e.prevQP
  <2>1. e.ctx = h[j].ctx /\ e.sync = h[j].sync /\ e.coder = CoderAt(p, s, j)
    BY DEF EncAt
  <2>2. j = 0 => e.ctx = << >>
    BY <2>1 DEF History
  <2> QED
    BY <2>1, <2>2, SetUpEnc
<1> HIDE DEF c
<1>4. cu \in [qp : Int, residual : BOOLEAN] /\ cu.qp \in Int
  <2>1. cu \in [qp : Int, residual : BOOLEAN]
    BY <1>1 DEF CuTypes
  <2> HIDE DEF cu
  <2> QED
    BY <2>1
<1>5. pred \in Int
  <2> DEFINE qps == [a \in DOMAIN cus |-> cus[a].qp]
  <2>1. \A a \in Addrs(grid) : qps[a] \in Int
    <3>1. SUFFICES ASSUME NEW a \in Addrs(grid)
                   PROVE  qps[a] \in Int
      OBVIOUS
    <3>2. cus[a] \in [qp : Int, residual : BOOLEAN] /\ a \in DOMAIN cus
      BY DEF CuTypes
    <3>3. cus[a].qp \in Int
      BY <3>2
    <3> QED
      BY <3>2, <3>3
  <2>2. c.prevQP \in Int
    BY <1>3 DEF EncType
  <2> HIDE DEF qps
  <2>3. PredictQP(qps, Addr, c.prevQP) \in Int
    BY <2>1, <2>2, PredictQPIs
  <2> QED
    BY <2>3 DEF EncPred, qps
<1>6. qp \in Int /\ dqp \in Seq(Int)
  <2> HIDE DEF pred, cu
  <2>1. WrittenDQp(cu.qp, pred) \in Int
    <3> DEFINE m == 64 + QpBdOffset
               half == 32 + QpBdOffset \div 2
               n == cu.qp - pred + 64 + QpBdOffset + half
    <3>1. QpBdOffset \in Nat /\ half \in Int /\ m \in Nat \ {0} /\ n \in Int
      BY <1>4, <1>5, QPAssumption
    <3>2. QpRange = m /\ HalfRange = half
      BY <3>1 DEF QpRange, HalfRange, MAX_QP
    <3>3. cu.qp - pred + MAX_QP + 1 + QpBdOffset + HalfRange = n
      BY <1>4, <1>5, <3>1, <3>2 DEF MAX_QP
    <3> HIDE DEF m, half, n
    <3>4. (n % m) - half \in Int
      BY <3>1
    <3>5. WrittenDQp(cu.qp, pred) = (n % m) - half
      BY <3>2, <3>3 DEF WrittenDQp
    <3> QED
      BY <3>4, <3>5
  <2>2. qp \in Int
    BY <1>4, <1>5
  <2> QED
    BY <2>1, <2>2
<1>7. y \in Symbols /\ IsSymbol(p, s, h, cus, j, y)
  <2>1. c.ctx \in Seq(Nat)
    BY <1>3 DEF EncType
  <2>2. InOneTile(p.grid, s) => dqp = DQpOf(p, s, cus, j)
    <3>1. SUFFICES ASSUME InOneTile(p.grid, s)
                   PROVE  dqp = DQpOf(p, s, cus, j)
      OBVIOUS
    <3>2. pred = PredOf(p, s, cus, j)
      BY <1>3, <3>1 DEF grid
    <3> HIDE DEF pred
    <3> QED
      BY <1>1, <3>2 DEF DQpOf
  <2>3. y = [end |-> FALSE, addr |-> Addr, ctx |-> c.ctx, dqp |-> dqp]
    BY DEF Symbol
  <2> HIDE DEF y, dqp, p, s, j
  <2>4. y \in Symbols
    BY <1>1, <1>6, <2>1, <2>3 DEF Symbols
  <2>5. y.end = FALSE /\ y.addr = Addr /\ y.ctx = c.ctx /\ y.dqp = dqp
    BY <2>3
  <2> QED
    BY <1>1, <1>3, <2>2, <2>4, <2>5 DEF IsSymbol
<1>8. EndsSubstream <=> ends
  <2>1. LastCtu <=> last
    BY <1>1 DEF LastCtu
  <2>2. ctuIdx + 2 = j + 1 + 1
    BY <1>1
  <2> QED
    BY <1>1, <2>1, <2>2 DEF EndsSubstream, EndsAt, Cut, grid
<1>9. LastCtu <=> last
  BY <1>1 DEF LastCtu
<1> DEFINE st == c.streams
           sub == Len(c.streams)
           one == [st EXCEPT ![sub] = Append(@, y)]
           two == [one EXCEPT ![sub] = Append(@, EndSymbol)]
           ctx == Append(c.ctx, Addr)
           new == IF IsTileColBd(grid, Addr) /\ pic.wpp THEN ctx ELSE c.sync
           learnt == [c EXCEPT !.ctx = ctx, !.coder = "used", !.fault = FALSE, !.sync = new]
           coded == [learnt EXCEPT !.streams[sub] = Append(@, y), !.prevQP = qp]
           ended == [Ended(coded) EXCEPT !.streams[sub] = Append(@, EndSymbol)]
           size == Len(ended.streams[sub])
           final == [ended EXCEPT !.streams = Append(@, << >>),
                                  !.sizes = IF pic.entryPoints THEN Append(@, size) ELSE @]
<1>10. ctx \in Seq(Nat) /\ new \in Seq(Nat) /\ Learnt(c, Addr) = learnt
  BY <1>3, LearntIs
<1>11. /\ st \in Seq(Seq(Symbols)) /\ c.sizes \in Seq(Nat) /\ st # << >> /\ sub \in 1 .. Len(st)
  <2>1. st \in Seq(Seq(Symbols)) /\ c.sizes \in Seq(Nat)
    BY <1>3 DEF EncType
  <2>2. Len(st) = h[j].sub /\ h[j].sub \in Nat \ {0}
    BY <1>2, <1>3 DEF EncAt, NextOk
  <2> QED
    BY <2>1, <2>2
<1>12. EndSymbol \in Symbols
  <2>1. << >> \in Seq(Nat) /\ << >> \in Seq(Int)
    OBVIOUS
  <2> QED
    BY <2>1 DEF EndSymbol, Symbols
<1> HIDE DEF y, qp
<1>13. one \in Seq(Seq(Symbols)) /\ Len(one) = Len(st)
  <2>1. PutOk(Symbols, st, sub, y, one)
    BY <1>7, <1>11, PutIs
  <2> HIDE DEF one
  <2> QED
    BY <2>1 DEF PutOk
<1>14. two \in Seq(Seq(Symbols)) /\ Len(two) = Len(st) /\ Len(two[sub]) \in Nat
  <2> HIDE DEF one
  <2>1. sub \in 1 .. Len(one)
    BY <1>11, <1>13
  <2>2. PutOk(Symbols, one, sub, EndSymbol, two)
    BY <1>12, <1>13, <2>1, PutIs
  <2> HIDE DEF two
  <2>3. two \in Seq(Seq(Symbols)) /\ Len(two) = Len(st)
    BY <1>13, <2>2 DEF PutOk
  <2>4. two[sub] \in Seq(Symbols)
    BY <1>11, <2>3
  <2> QED
    BY <2>3, <2>4
<1> HIDE DEF p, s, j, ends, last, cu, pred, dqp
<1>15. /\ coded \in EncType /\ coded.ctx = ctx /\ coded.sync = new /\ coded.coder = "used"
       /\ coded.streams = one /\ coded.sizes = c.sizes /\ coded.prevQP = qp
  <2>1. coded = [c EXCEPT !.ctx = ctx, !.coder = "used", !.fault = FALSE, !.sync = new,
                          !.streams = one, !.prevQP = qp]
    BY <1>3 DEF EncType
  <2> HIDE DEF one, ctx, new, learnt, coded
  <2> QED
    BY <1>3, <1>6, <1>10, <1>13, <2>1 DEF EncType
<1>16. /\ ended \in EncType /\ ended.ctx = ctx /\ ended.sync = new /\ ended.coder = "ended"
       /\ ended.streams = two /\ ended.sizes = c.sizes /\ ended.prevQP = qp
  <2> HIDE DEF coded, ctx, new
  <2>1. ended = [coded EXCEPT !.coder = "ended", !.streams = two]
    BY <1>15 DEF EncType, Ended
  <2> HIDE DEF two, ended
  <2> QED
    BY <1>14, <1>15, <2>1 DEF EncType
<1>17. /\ final \in EncType /\ final.ctx = ctx /\ final.sync = new /\ final.coder = "ended"
       /\ final.streams = Append(two, << >>) /\ final.prevQP = qp
       /\ final.sizes = IF pic.entryPoints THEN Append(c.sizes, Len(two[sub])) ELSE c.sizes
  <2> DEFINE sz == IF pic.entryPoints THEN Append(c.sizes, Len(two[sub])) ELSE c.sizes
             three == Append(two, << >>)
  <2>1. sz \in Seq(Nat)
    <3> DEFINE l == Len(two[sub])
    <3>1. l \in Nat
      BY <1>14
    <3> HIDE DEF l
    <3>2. Append(c.sizes, l) \in Seq(Nat)
      BY <1>11, <3>1
    <3> QED
      BY <1>11, <3>2 DEF l
  <2>2. three \in Seq(Seq(Symbols))
    <3>1. << >> \in Seq(Symbols)
      OBVIOUS
    <3> HIDE DEF two
    <3> QED
      BY <1>14, <3>1
  <2> HIDE DEF ended, ctx, new, two
  <2>3. final = [ended EXCEPT !.streams = three, !.sizes = sz]
    BY <1>16 DEF EncType
  <2> HIDE DEF final, three, sz
  <2>4. /\ final \in EncType /\ final.ctx = ctx /\ final.sync = new /\ final.coder = "ended"
        /\ final.streams = three /\ final.prevQP = qp /\ final.sizes = sz
    BY <1>16, <2>1, <2>2, <2>3 DEF EncType
  <2> QED
    BY <2>4 DEF three, sz
<1>18. enc' = IF ~ends THEN coded ELSE IF last THEN ended ELSE final
  <2>1. coded = [Learnt(c, Addr) EXCEPT !.streams[sub] = Append(@, y), !.prevQP = qp]
    BY <1>10, SMTT(30)
  <2> DEFINE c0   == SetUp(IF ctuIdx = 0 THEN EncStart ELSE enc, Addr)
             cu0  == cus[Addr]
             pr   == PredictQP([b \in DOMAIN cus |-> cus[b].qp], Addr, c0.prevQP)
             dq   == IF cu0.residual THEN <<WrittenDQp(cu0.qp, pr)>> ELSE << >>
             sb   == Len(c0.streams)
             cd   == [Learnt(c0, Addr) EXCEPT !.streams[sb] = Append(@, Symbol(c0, Addr, dq)),
                                              !.prevQP = IF cu0.residual THEN cu0.qp ELSE pr]
             ed   == [Ended(cd) EXCEPT !.streams[sb] = Append(@, EndSymbol)]
             fn   == [ed EXCEPT !.streams = Append(@, << >>),
                                !.sizes = IF pic.entryPoints THEN Append(@, Len(ed.streams[sb])) ELSE @]
  <2>2. enc' = IF ~EndsSubstream THEN cd ELSE IF LastCtu THEN ed ELSE fn
    BY DEF EncodeCtu
  <2>3. c0 = c
    BY DEF c
  <2> HIDE DEF c0
  <2>4. pr = pred /\ cu0 = cu /\ sb = sub
    BY <2>3 DEF EncPred, pred, cu
  <2>5. dq = dqp
    BY <2>4 DEF dqp
  <2>6. Symbol(c0, Addr, dq) = y /\ (IF cu0.residual THEN cu0.qp ELSE pr) = qp
    BY <2>3, <2>4, <2>5 DEF y, qp
  <2> HIDE DEF pr, cu0, dq, sb
  <2>7. cd = coded
    BY <2>1, <2>3, <2>4, <2>6
  <2> HIDE DEF cd, coded
  <2>8. ed = ended
    BY <2>4, <2>7
  <2> HIDE DEF ed, ended
  <2>9. fn = final
    BY <2>4, <2>8
  <2> HIDE DEF fn, final
  <2> QED
    BY <1>8, <1>9, <2>2, <2>7, <2>8, <2>9
<1> HIDE DEF ctx, new, coded, ended, final, one, two
<1>19. enc' \in EncType /\ enc'.ctx = ctx /\ enc'.sync = new /\ enc'.prevQP = qp
  BY <1>15, <1>16, <1>17, <1>18
<1>20. enc'.coder = CoderAt(p, s, j + 1)
  <2>1. CoderAt(p, s, j + 1) = IF ends THEN "ended" ELSE "used"
    BY <1>1 DEF CoderAt, ends
  <2> QED
    BY <1>15, <1>16, <1>17, <1>18, <2>1
<1>21. enc'.streams = Put(p, s, j, e.streams, y)
  <2>1. Put(p, s, j, e.streams, y) = IF ~ends THEN one ELSE IF last THEN two ELSE Append(two, << >>)
    BY <1>3 DEF Put, ends, last, one, two
  <2> QED
    BY <1>15, <1>16, <1>17, <1>18, <2>1
<1>22. enc'.sizes = PutSize(p, s, j, e.sizes, e.streams, y)
  <2>1. CASE ends /\ ~last
    <3>1. Put(p, s, j, e.streams, y) = Append(two, << >>)
      BY <1>17, <1>18, <1>21, <2>1
    <3>2. Append(two, << >>)[sub] = two[sub]
      BY <1>11, <1>14
    <3>3. Len(e.streams) = sub
      BY <1>3
    <3>4. PutSize(p, s, j, e.sizes, e.streams, y) =
            IF p.entryPoints THEN Append(c.sizes, Len(two[sub])) ELSE c.sizes
      BY <1>3, <2>1, <3>1, <3>2, <3>3 DEF PutSize, ends, last
    <3> QED
      BY <1>17, <1>18, <2>1, <3>4 DEF p
  <2>2. CASE ~(ends /\ ~last)
    <3>1. PutSize(p, s, j, e.sizes, e.streams, y) = c.sizes
      BY <1>3, <2>2 DEF PutSize, ends, last
    <3> QED
      BY <1>15, <1>16, <1>18, <2>2, <3>1
  <2> QED
    BY <2>1, <2>2
<1>23. h[j + 1].ctx = ctx /\ h[j + 1].sync = new
  <2>1. /\ h[j + 1].ctx = Append(NewCtx(p, s, j, h[j].ctx, h[j].sync), s[j + 1])
        /\ h[j + 1].sync = IF IsTileColBd(p.grid, s[j + 1]) /\ p.wpp THEN h[j + 1].ctx ELSE h[j].sync
    BY <1>2 DEF NextOk
  <2>2. ctx = Append(c.ctx, Addr) /\ new = IF IsTileColBd(grid, Addr) /\ pic.wpp THEN ctx ELSE c.sync
    BY DEF ctx, new
  <2> QED
    BY <1>1, <1>3, <2>1, <2>2 DEF p, grid
<1>24. EncAt(p, s, h, cus, j + 1, enc')
  <2>1. EncAt(p, s, h, cus, j, e) /\ History(p, s, h)
    BY DEF p, s, j
  <2> QED
    BY <1>1, <1>7, <1>19, <1>20, <1>21, <1>22, <1>23, <2>1, Writes
<1> QED
  BY <1>3, <1>19, <1>24 DEF qp, pred, cu, p, s, j
----------------------------------------------------------------------------
(* A slice in one tile.                                                    *)

(* It takes its CTUs row by row, from the first column of the tile on.     *)
LEMMA RowByRow ==
  ASSUME NEW g, IsGrid(g), NEW s, IsSlice(g, s), InOneTile(g, s), NEW i \in 1 .. Len(s)
  PROVE  /\ s[i] \in Addrs(g) /\ TileOf(g, s[i]) = TileOf(g, s[1])
         /\ X(g, s[1]) <= X(g, s[i]) /\ s[1] <= s[i]
         /\ \A x \in X(g, s[1]) .. X(g, s[i]) : \E r \in 1 .. i : s[r] = g.width * Y(g, s[i]) + x
<1> DEFINE w == g.width
           c == X(g, s[1])
           Ok(m) == /\ s[1] <= s[m]
                    /\ \A x \in c .. X(g, s[m]) : \E r \in 1 .. m : s[r] = w * Y(g, s[m]) + x
           S == {m \in Nat : m + 1 <= Len(s) => Ok(m + 1)}
<1>1. /\ s \in Seq(Addrs(g)) /\ Len(s) \in Nat /\ Len(s) >= 1 /\ w \in Nat /\ w >= 1
      /\ IsTileColBd(g, s[1])
  <2>1. s \in Seq(Addrs(g)) /\ s # << >> /\ IsTileColBd(g, s[1])
    BY DEF IsSlice, Addrs
  <2>2. Len(s) \in Nat /\ Len(s) >= 1
    BY <2>1
  <2> QED
    BY <2>1, <2>2 DEF IsGrid
<1>2. \A m \in 1 .. Len(s) : /\ s[m] \in Addrs(g) /\ s[m] \in Nat
                             /\ X(g, s[m]) \in Nat /\ Y(g, s[m]) \in Nat /\ X(g, s[m]) <= w - 1
                             /\ X(g, s[m]) \in 0 .. g.width - 1
                             /\ s[m] = w * Y(g, s[m]) + X(g, s[m])
  <2>1. SUFFICES ASSUME NEW m \in 1 .. Len(s)
                 PROVE  /\ s[m] \in Addrs(g) /\ s[m] \in Nat
                        /\ X(g, s[m]) \in Nat /\ Y(g, s[m]) \in Nat /\ X(g, s[m]) <= w - 1
                        /\ X(g, s[m]) \in 0 .. g.width - 1
                        /\ s[m] = w * Y(g, s[m]) + X(g, s[m])
    OBVIOUS
  <2>2. s[m] \in Addrs(g)
    BY <1>1
  <2>3. X(g, s[m]) \in 0 .. w - 1 /\ Y(g, s[m]) \in 0 .. g.height - 1 /\ s[m] = w * Y(g, s[m]) + X(g, s[m])
    BY <2>2, Place
  <2>4. g.height - 1 \in Int /\ s[m] \in Nat
    BY <2>2 DEF IsGrid, Addrs
  <2> QED
    BY <1>1, <2>2, <2>3, <2>4
<1>3. \A m \in 1 .. Len(s) : TileOf(g, s[m]) = TileOf(g, s[1])
  <2>1. \A m \in 1 .. Len(s) : s[m] \in ToSet(s)
    BY <1>1 DEF ToSet
  <2> QED
    BY <1>1, <2>1 DEF InOneTile
<1>4. \A m \in 1 .. Len(s) : TileColBd(g, X(g, s[m])) = c /\ c <= X(g, s[m])
  <2>1. SUFFICES ASSUME NEW m \in 1 .. Len(s)
                 PROVE  TileColBd(g, X(g, s[m])) = c /\ c <= X(g, s[m])
    OBVIOUS
  <2>2. TileColBd(g, X(g, s[m])) = TileColBd(g, c)
    BY <1>3 DEF TileOf
  <2>3. c \in g.cols /\ 1 \in 1 .. Len(s)
    BY <1>1 DEF IsTileColBd
  <2>4. c \in 0 .. g.width - 1 /\ c \in Nat
    BY <1>2, <2>3
  <2> HIDE DEF c
  <2>5. TileColBd(g, c) <= c /\ c <= TileColBd(g, c) /\ TileColBd(g, c) \in g.cols
    BY <2>3, <2>4, ColumnBounds
  <2>6. TileColBd(g, c) \in Nat
    BY <2>5 DEF IsGrid
  <2>7. TileColBd(g, X(g, s[m])) <= X(g, s[m])
    BY <1>2, ColumnBounds
  <2> QED
    BY <2>2, <2>4, <2>5, <2>6, <2>7
<1>5. \A m \in 1 .. Len(s) - 1 :
        \/ Y(g, s[m + 1]) = Y(g, s[m]) /\ X(g, s[m + 1]) = X(g, s[m]) + 1
        \/ Y(g, s[m + 1]) = Y(g, s[m]) + 1 /\ X(g, s[m + 1]) = c
  <2>1. SUFFICES ASSUME NEW m \in 1 .. Len(s) - 1
                 PROVE  \/ Y(g, s[m + 1]) = Y(g, s[m]) /\ X(g, s[m + 1]) = X(g, s[m]) + 1
                        \/ Y(g, s[m + 1]) = Y(g, s[m]) + 1 /\ X(g, s[m + 1]) = c
    OBVIOUS
  <2>2. m \in 1 .. Len(s) /\ m + 1 \in 1 .. Len(s)
    BY <1>1
  <2>3. Follows(g, s[m], s[m + 1]) /\ TileOf(g, s[m + 1]) = TileOf(g, s[m])
    BY <1>3, <2>2 DEF IsSlice
  <2>4. CASE IsTileColBd(g, s[m + 1])
    <3> DEFINE x == X(g, s[m + 1])
    <3>1. Y(g, s[m + 1]) = Y(g, s[m]) + 1
      BY <1>2, <2>2, <2>3, <2>4, NextCtu
    <3>2. x \in g.cols /\ x \in 0 .. g.width - 1 /\ x \in Nat
      BY <1>2, <2>2, <2>4 DEF IsTileColBd
    <3>3. TileColBd(g, x) = c /\ c <= x /\ c \in Nat
      BY <1>1, <1>2, <1>4, <2>2
    <3> HIDE DEF x, c
    <3>4. x <= TileColBd(g, x)
      BY <3>2, ColumnBounds
    <3>5. x = c
      BY <3>2, <3>3, <3>4
    <3> QED
      BY <3>1, <3>5 DEF x
  <2>5. CASE ~IsTileColBd(g, s[m + 1])
    BY <1>2, <2>2, <2>3, <2>5, NextCtu
  <2> QED
    BY <2>4, <2>5
<1>6. c \in Nat
  BY <1>1, <1>2
<1> HIDE DEF c
<1>7. 0 \in S
  <2>1. s[1] = w * Y(g, s[1]) + X(g, s[1]) /\ X(g, s[1]) = c /\ s[1] \in Nat
    BY <1>1, <1>2, SMTT(30) DEF c
  <2>2. \A x \in c .. X(g, s[1]) : x = X(g, s[1])
    BY <1>6, <2>1
  <2>3. Ok(1)
    BY <2>1, <2>2
  <2> HIDE DEF Ok
  <2> QED
    BY <2>3
<1>8. ASSUME NEW m \in S
      PROVE  m + 1 \in S
  <2>0. m \in Nat
    BY <1>8
  <2> DEFINE k == m + 1
  <2>1. SUFFICES ASSUME k + 1 <= Len(s)
                 PROVE  Ok(k + 1)
    <3> HIDE DEF Ok
    <3> QED
      BY <2>0
  <2>2. Ok(k)
    <3>1. k <= Len(s)
      BY <1>1, <2>0, <2>1
    <3> HIDE DEF Ok
    <3> QED
      BY <1>8, <3>1
  <2>3. k \in 1 .. Len(s) - 1 /\ k \in 1 .. Len(s) /\ k + 1 \in 1 .. Len(s) /\ k \in Nat
    BY <1>1, <2>0, <2>1
  <2> HIDE DEF k, S
  <2> DEFINE a == s[k]
             b == s[k + 1]
             xa == X(g, a)
             ya == Y(g, a)
             xb == X(g, b)
             yb == Y(g, b)
  <2>4. /\ xa \in Nat /\ ya \in Nat /\ xb \in Nat /\ yb \in Nat /\ xa <= w - 1
        /\ a = w * ya + xa /\ b = w * yb + xb /\ a \in Nat /\ b \in Nat /\ c <= xa
    BY <1>2, <1>4, <2>3
  <2>5. s[1] \in Nat /\ s[1] <= a /\ \A x \in c .. xa : \E r \in 1 .. k : s[r] = w * ya + x
    BY <1>1, <1>2, <2>2
  <2>6. \/ yb = ya /\ xb = xa + 1
        \/ yb = ya + 1 /\ xb = c
    BY <1>5, <2>3
  <2>7. b = s[k + 1]
    OBVIOUS
  <2>8. s[1] <= b /\ \A x \in c .. xb : \E r \in 1 .. k + 1 : s[r] = w * yb + x
    <3> HIDE DEF a, b, xa, ya, xb, yb
    <3>1. CASE yb = ya /\ xb = xa + 1
      <4>1. b = a + 1
        BY <1>1, <2>4, <3>1, SMTT(60)
      <4>2. ASSUME NEW x \in c .. xb
            PROVE  \E r \in 1 .. k + 1 : s[r] = w * yb + x
        <5>1. CASE x = xb
          <6>1. k + 1 \in 1 .. k + 1
            BY <2>3
          <6> QED
            BY <2>4, <2>7, <5>1, <6>1
        <5>2. CASE x # xb
          <6>1. x \in c .. xa
            BY <1>6, <2>4, <3>1, <5>2
          <6>2. PICK r \in 1 .. k : s[r] = w * ya + x
            BY <2>5, <6>1
          <6>3. r \in 1 .. k + 1
            BY <2>3
          <6> QED
            BY <3>1, <6>2, <6>3
        <5> QED
          BY <5>1, <5>2
      <4> QED
        BY <2>4, <2>5, <4>1, <4>2, SMTT(30)
    <3>2. CASE yb = ya + 1 /\ xb = c
      <4>1. a <= b
        <5>0. w \in Nat /\ ya \in Nat /\ xa \in Nat /\ c \in Nat /\ xa <= w - 1
          BY <1>1, <1>6, <2>4
        <5>1. w * (ya + 1) = w * ya + w
          BY ONLY <5>0
        <5> DEFINE z == w * ya
        <5>2. z \in Nat
          BY <1>1, <2>4, SMTT(60)
        <5> HIDE DEF z
        <5>3. b = z + w + c /\ a = z + xa
          BY <2>4, <3>2, <5>1 DEF z
        <5> QED
          BY ONLY <5>0, <5>2, <5>3
      <4>2. \A x \in c .. xb : x = xb
        BY <1>6, <2>4, <3>2
      <4>3. k + 1 \in 1 .. k + 1
        BY <2>3
      <4> QED
        BY <2>4, <2>5, <2>7, <4>1, <4>2, <4>3, SMTT(30)
    <3> QED
      BY <2>6, <3>1, <3>2
  <2> QED
    BY <2>8
<1>9. S = Nat
  <2> HIDE DEF S
  <2>1. S \in SUBSET Nat
    BY DEF S
  <2> QED
    BY <1>7, <1>8, <2>1, Induction
<1>10. Ok(i)
  <2> HIDE DEF Ok, S
  <2>1. i - 1 \in S /\ i - 1 + 1 = i
    BY <1>1, <1>9
  <2> QED
    BY <2>1 DEF S
<1> QED
  BY <1>2, <1>3, <1>4, <1>10 DEF c

(* So the CTU above the start of a row was taken before it.                *)
LEMMA RowAbove ==
  ASSUME NEW g, IsGrid(g), NEW s, IsSlice(g, s), InOneTile(g, s), NEW i \in 1 .. Len(s) - 1,
         IsTileColBd(g, s[i + 1])
  PROVE  /\ Y(g, s[i + 1]) > 0 /\ TileOf(g, s[i + 1] - g.width) = TileOf(g, s[i + 1])
         /\ \E r \in 1 .. i : s[r] = s[i + 1] - g.width
<1> DEFINE w == g.width
           a == s[i]
           b == s[i + 1]
           c == X(g, s[1])
<1>1. Len(s) \in Nat /\ s \in Seq(Addrs(g))
  BY DEF IsSlice, Addrs
<1>2. i \in 1 .. Len(s) /\ i + 1 \in 1 .. Len(s) /\ 1 \in 1 .. Len(s)
  BY <1>1
<1>3. /\ a \in Addrs(g) /\ b \in Addrs(g) /\ s[1] \in Addrs(g)
      /\ TileOf(g, b) = TileOf(g, s[1]) /\ TileOf(g, a) = TileOf(g, s[1])
      /\ c <= X(g, a) /\ c <= X(g, b)
      /\ \A x \in c .. X(g, a) : \E r \in 1 .. i : s[r] = w * Y(g, a) + x
  BY <1>2, RowByRow
<1>4. /\ X(g, a) \in Nat /\ Y(g, a) \in Nat /\ X(g, b) \in Nat /\ c \in Nat
      /\ X(g, b) \in 0 .. g.width - 1 /\ c \in 0 .. g.width - 1
      /\ b = w * Y(g, b) + X(g, b) /\ w \in Nat
  <2>1. /\ X(g, a) \in 0 .. g.width - 1 /\ Y(g, a) \in 0 .. g.height - 1
        /\ X(g, b) \in 0 .. g.width - 1 /\ c \in 0 .. g.width - 1
        /\ b = w * Y(g, b) + X(g, b)
    BY <1>3, Place
  <2>2. g.width \in Nat /\ g.height \in Nat
    BY DEF IsGrid
  <2> QED
    BY <2>1, <2>2
<1>5. Y(g, b) = Y(g, a) + 1
  <2>1. Follows(g, a, b)
    BY DEF IsSlice
  <2> QED
    BY <1>3, <2>1, NextCtu
<1>6. X(g, b) = c
  <2>1. X(g, b) \in g.cols /\ c \in g.cols
    BY DEF IsTileColBd, IsSlice
  <2>2. TileColBd(g, X(g, b)) = TileColBd(g, c)
    BY <1>3 DEF TileOf
  <2> DEFINE x == X(g, b)
  <2>3. x \in g.cols /\ x \in 0 .. g.width - 1 /\ x \in Nat /\ TileColBd(g, x) = TileColBd(g, c)
    BY <1>4, <2>1, <2>2
  <2> HIDE DEF x, c
  <2>4. x <= TileColBd(g, x) /\ TileColBd(g, c) <= c /\ TileColBd(g, x) <= x /\ c <= TileColBd(g, c)
        /\ TileColBd(g, x) \in g.cols
    BY <1>4, <2>1, <2>3, ColumnBounds
  <2>5. TileColBd(g, x) \in Nat
    BY <2>4 DEF IsGrid
  <2>6. x = c
    BY <1>4, <2>3, <2>4, <2>5
  <2> QED
    BY <2>6 DEF x
<1>7. PICK r \in 1 .. i : s[r] = w * Y(g, a) + c
  <2>1. c \in c .. X(g, a)
    BY <1>3, <1>4
  <2> HIDE DEF c
  <2> QED
    BY <1>3, <2>1
<1>8. s[r] = b - w
  <2> DEFINE y == Y(g, a)
             z == w * y
  <2>1. y \in Nat /\ b = w * (y + 1) + c /\ s[r] = z + c
    BY <1>4, <1>5, <1>6, <1>7
  <2>2. w * (y + 1) = z + w /\ z \in Nat
    BY <1>4, SMTT(30)
  <2> HIDE DEF y, z, b, c
  <2> QED
    BY <1>4, <2>1, <2>2, SMTT(60)
<1>9. r \in 1 .. Len(s)
  BY <1>1
<1>10. TileOf(g, b - w) = TileOf(g, b)
  BY <1>3, <1>8, <1>9, RowByRow
<1>11. Y(g, b) > 0
  BY <1>4, <1>5
<1> QED
  BY <1>8, <1>10, <1>11

(* The first CTU has none above it in the slice.                           *)
LEMMA NoneAboveFirst ==
  ASSUME NEW g, IsGrid(g), NEW s, IsSlice(g, s), InOneTile(g, s)
  PROVE  s[1] - g.width \notin ToSet(s)
<1>1. s \in Seq(Addrs(g)) /\ Len(s) \in Nat /\ Len(s) >= 1
  <2>1. s \in Seq(Addrs(g)) /\ s # << >>
    BY DEF IsSlice, Addrs
  <2> QED
    BY <2>1
<1>2. SUFFICES ASSUME s[1] - g.width \in ToSet(s)
               PROVE  FALSE
  OBVIOUS
<1>3. PICK r \in 1 .. Len(s) : s[r] = s[1] - g.width
  BY <1>1, <1>2 DEF ToSet
<1>4. s[1] <= s[r]
  BY RowByRow
<1>5. s[1] \in Nat /\ g.width \in Nat /\ g.width >= 1
  <2>1. s[1] \in Addrs(g)
    BY <1>1
  <2> QED
    BY <2>1 DEF Addrs, IsGrid
<1> QED
  BY <1>3, <1>4, <1>5
----------------------------------------------------------------------------
(* The QP that arrives.                                                    *)

(* A number below R is what is left of any number of Rs with it.           *)
LEMMA WrapsAround ==
  ASSUME NEW R \in Nat \ {0}, NEW k \in Int, NEW v \in 0 .. R - 1
  PROVE  (R * k + v) % R = v
<1> DEFINE x == R * k + v
           m == x % R
           t == x \div R
<1>1. x \in Int /\ R * k \in Int /\ v \in Int
  OBVIOUS
<1>2. m \in Nat /\ m <= R - 1 /\ t \in Int /\ x = R * t + m
  <2> HIDE DEF x
  <2> QED
    BY <1>1
<1>3. x = R * k + v
  OBVIOUS
<1> HIDE DEF x, m, t
<1> DEFINE u == k - t
<1>4. u \in Int /\ R * u = m - v
  <2>1. R * (k - t) = R * k - R * t
    BY <1>2
  <2> DEFINE y == R * k
             z == R * t
  <2>2. y \in Int /\ z \in Int
    BY <1>2
  <2>3. R * u = y - z /\ x = y + v /\ x = z + m
    BY <1>2, <1>3, <2>1
  <2> HIDE DEF y, z
  <2>4. y - z = m - v
    BY <1>1, <1>2, <2>2, <2>3
  <2> QED
    BY <1>2, <2>3, <2>4
<1> HIDE DEF u
<1>5. CASE u >= 1
  <2>1. R * u >= R
    BY <1>4, <1>5
  <2> QED
    BY <1>2, <1>4, <2>1
<1>6. CASE u <= -1
  <2>1. R * u <= R * (-1)
    BY <1>4, <1>6
  <2> QED
    BY <1>2, <1>4, <2>1
<1>7. CASE u = 0
  BY <1>2, <1>4, <1>7 DEF m, x
<1> QED
  BY <1>4, <1>5, <1>6, <1>7

\* the QPs there are
Qps == -QpBdOffset .. MAX_QP

(* A difference, taken and put back, gives the QP.                         *)
LEMMA RoundTrip ==
  ASSUME NEW qp \in Qps, NEW pred \in Qps
  PROVE  ReadQp(pred, WrittenDQp(qp, pred)) = qp
<1> DEFINE o == QpBdOffset
           R == 64 + o
           half == 32 + o \div 2
           n == qp - pred + R + half
           t == n \div R
           m == n % R
<1>1. /\ o \in Nat /\ half \in Int /\ R \in Nat \ {0} /\ n \in Int
      /\ qp \in Int /\ pred \in Int /\ qp + o \in 0 .. R - 1
  BY QPAssumption DEF Qps, MAX_QP
<1>2. QpRange = R /\ HalfRange = half
  BY <1>1 DEF QpRange, HalfRange, MAX_QP
<1>3. WrittenDQp(qp, pred) = m - half
  <2>1. qp - pred + MAX_QP + 1 + QpBdOffset + HalfRange = n
    BY <1>1, <1>2 DEF MAX_QP
  <2> HIDE DEF n, R, half
  <2> QED
    BY <1>2, <2>1 DEF WrittenDQp
<1>4. n = qp - pred + R + half /\ R = 64 + o
  OBVIOUS
<1> HIDE DEF n, R, half, o
<1>5. m \in Int /\ t \in Int /\ n = R * t + m
  BY <1>1
<1> HIDE DEF m, t
<1>6. pred + (m - half) + MAX_QP + 1 + 2 * o = R * (2 - t) + (qp + o)
  <2> DEFINE z == R * t
  <2>1. z \in Int
    BY <1>1, <1>5
  <2>2. R * (2 - t) = 2 * R - z
    BY <1>1, <1>5
  <2>3. n = z + m
    BY <1>5
  <2> HIDE DEF z
  <2> QED
    BY <1>1, <1>4, <1>5, <2>1, <2>2, <2>3 DEF MAX_QP
<1>7. (R * (2 - t) + (qp + o)) % R = qp + o
  <2> DEFINE k == 2 - t
             v == qp + o
  <2>1. k \in Int /\ v \in 0 .. R - 1
    BY <1>1, <1>5
  <2> HIDE DEF k, v
  <2>2. (R * k + v) % R = v
    BY <1>1, <2>1, WrapsAround
  <2> QED
    BY <2>2 DEF k, v
<1>8. ReadQp(pred, m - half) = ((pred + (m - half) + MAX_QP + 1 + 2 * o) % R) - o
  BY <1>2 DEF ReadQp, o
<1>9. ReadQp(pred, m - half) = (qp + o) - o
  BY <1>6, <1>7, <1>8
<1> QED
  BY <1>1, <1>3, <1>9

\* the QP of the CTU before
Before(cs) == IF ctuIdx = 0 THEN SliceQp ELSE cs[Slice[ctuIdx]].qp

(* In one tile, whoever knows the QPs of the CTUs before predicts the same: *)
(* in the first column from the CTU above, or for the first CTU from the   *)
(* slice's QP, and otherwise from the CTU before.                          *)
LEMMA Predicted ==
  ASSUME Stands, InOneTile(grid, Slice), NEW cs, NEW qps,
         \A r \in 1 .. ctuIdx : qps[Slice[r]] = cs[Slice[r]].qp
  PROVE  /\ PredictQP(qps, Addr, Before(cs)) = PredOf(pic, Slice, cs, ctuIdx)
         /\ PredictQP(qps, Addr, QpAt(Addr, Before(cs))) = PredOf(pic, Slice, cs, ctuIdx)
<1> DEFINE s == Slice
           g == grid
           a == Addr
           prev == Before(cs)
<1>1. IsGrid(g) /\ IsSlice(g, s) /\ Len(s) \in Nat /\ ctuIdx \in Nat /\ ctuIdx \in 0 .. Len(s) - 1
  BY Standing DEF Stands
<1>2. a = s[ctuIdx + 1] /\ pic.grid = g
  BY DEF Addr, grid
<1>3. CASE ctuIdx = 0
  <2>1. a = s[1]
    BY <1>2, <1>3
  <2>2. ~AboveAvailable(a)
    BY <1>1, <2>1, NoneAboveFirst DEF AboveAvailable
  <2>3. prev = SliceQp /\ QpAt(a, prev) = SliceQp /\ PredOf(pic, s, cs, ctuIdx) = SliceQp
    BY <1>3 DEF Before, QpAt, PredOf
  <2> HIDE DEF prev
  <2> QED
    BY <2>2, <2>3 DEF PredictQP, prev
<1>4. CASE ctuIdx # 0 /\ IsTileColBd(g, a)
  <2>1. ctuIdx \in 1 .. Len(s) - 1
    BY <1>1, <1>4
  <2>2. /\ Y(g, a) > 0 /\ TileOf(g, a - g.width) = TileOf(g, a)
        /\ \E r \in 1 .. ctuIdx : s[r] = a - g.width
    BY <1>1, <1>2, <1>4, <2>1, RowAbove
  <2>3. PICK r \in 1 .. ctuIdx : s[r] = a - g.width
    BY <2>2
  <2>4. a - g.width \in ToSet(s)
    <3>1. r \in 1 .. Len(s)
      BY <1>1
    <3> QED
      BY <2>3, <3>1 DEF ToSet
  <2>5. AboveAvailable(a)
    BY <2>2, <2>4 DEF AboveAvailable
  <2>6. qps[a - g.width] = cs[a - g.width].qp
    BY <2>3
  <2>7. PredOf(pic, s, cs, ctuIdx) = cs[a - g.width].qp
    BY <1>2, <1>4 DEF PredOf
  <2> HIDE DEF prev
  <2>8. \A v : PredictQP(qps, a, v) = qps[a - g.width]
    BY <1>4, <2>5 DEF PredictQP
  <2> QED
    BY <2>6, <2>7, <2>8 DEF prev
<1>5. CASE ctuIdx # 0 /\ ~IsTileColBd(g, a)
  <2>1. prev = cs[s[ctuIdx]].qp /\ PredOf(pic, s, cs, ctuIdx) = cs[s[ctuIdx]].qp
    BY <1>2, <1>5 DEF Before, PredOf
  <2> HIDE DEF prev
  <2>2. QpAt(a, prev) = prev
    BY <1>5 DEF QpAt, StartsTile, StartsRow
  <2>3. PredictQP(qps, a, prev) = prev
    BY <1>5 DEF PredictQP
  <2> QED
    BY <2>1, <2>2, <2>3 DEF prev
<1> QED
  BY <1>3, <1>4, <1>5

(* It is a QP, when the CTUs before have one.                              *)
LEMMA PredOfIs ==
  ASSUME Stands, InOneTile(grid, Slice), NEW cs, \A a \in Addrs(grid) : cs[a].qp \in Qps
  PROVE  PredOf(pic, Slice, cs, ctuIdx) \in Qps
<1> DEFINE s == Slice
<1>1. /\ IsGrid(grid) /\ IsSlice(grid, s) /\ Len(s) \in Nat /\ ctuIdx \in Nat /\ ctuIdx \in 0 .. Len(s) - 1
      /\ s \in Seq(Addrs(grid))
  BY Standing DEF Stands
<1>2. SliceQp \in Qps
  BY QPAssumption DEF Qps
<1>3. Addr = s[ctuIdx + 1] /\ pic.grid = grid
  BY DEF Addr, grid
<1>4. ctuIdx # 0 => cs[s[ctuIdx]].qp \in Qps
  BY <1>1
<1>5. ctuIdx # 0 /\ IsTileColBd(grid, Addr) => cs[Addr - grid.width].qp \in Qps
  <2>1. SUFFICES ASSUME ctuIdx # 0, IsTileColBd(grid, Addr)
                 PROVE  cs[Addr - grid.width].qp \in Qps
    OBVIOUS
  <2>2. ctuIdx \in 1 .. Len(s) - 1
    BY <1>1, <2>1
  <2>3. \E r \in 1 .. ctuIdx : s[r] = Addr - grid.width
    BY <1>1, <1>3, <2>1, <2>2, RowAbove
  <2>4. PICK r \in 1 .. ctuIdx : s[r] = Addr - grid.width
    BY <2>3
  <2>5. r \in 1 .. Len(s)
    BY <1>1
  <2>6. s[r] \in Addrs(grid)
    BY <1>1, <2>5
  <2> QED
    BY <2>4, <2>6
<1> QED
  BY <1>2, <1>3, <1>4, <1>5 DEF PredOf
----------------------------------------------------------------------------
(* The invariant.                                                          *)

CuSet == [qp : Qps, residual : BOOLEAN]

\* without a residual the coding unit has the predicted QP
CuOk(p, s, cs, j) == cs[s[j + 1]].residual = FALSE => cs[s[j + 1]].qp = PredOf(p, s, cs, j)

TypeInv ==
  /\ Stands /\ phase \in {"compress", "encode", "decode", "done"}
  /\ phase = "done" => sliceIdx = Len(pic.slices) /\ ctuIdx = 0
  /\ prevQP \in Qps /\ cus \in [Addrs(grid) -> CuSet] /\ decQp \in [Addrs(grid) -> Int]
  /\ enc \in EncType /\ dec \in DecType

\* between stages both coders keep the same contexts; while a slice is written
\* the encoder is where its history says, and while it is read so is the decoder
Streams ==
  /\ (ctuIdx = 0 /\ phase = "encode") \/ phase = "compress" => enc.sync = dec.sync
  /\ phase = "encode" /\ ctuIdx # 0 =>
       \E h : History(pic, Slice, h) /\ h[0].sync = dec.sync /\ EncAt(pic, Slice, h, cus, ctuIdx, enc)
  /\ phase = "decode" =>
       \E h : /\ History(pic, Slice, h) /\ EncAt(pic, Slice, h, cus, Len(Slice), enc)
              /\ ctuIdx = 0 => h[0].sync = dec.sync
              /\ ctuIdx # 0 =>
                   \E loc : /\ Layout(pic, Slice, h, cus, Given(pic, enc.streams), loc)
                            /\ DecAt(pic, Slice, h, Given(pic, enc.streams), loc, ctuIdx, dec)

Fits == Len(enc.streams) <= NumSubstreams

\* in one tile a QP that is not sent is the predicted one, and every coder goes
\* on from the QP of the CTU before
QpsKnown ==
  InOneTile(grid, Slice) =>
    /\ phase = "compress" => \A j \in 0 .. ctuIdx - 1 : CuOk(pic, Slice, cus, j)
    /\ phase \in {"encode", "decode"} => \A j \in 0 .. Len(Slice) - 1 : CuOk(pic, Slice, cus, j)
    /\ ctuIdx # 0 => /\ phase = "compress" => prevQP = Before(cus)
                     /\ phase = "encode" => enc.prevQP = Before(cus)
                     /\ phase = "decode" => dec.prevQP = Before(cus)
    /\ phase = "decode" => \A r \in 1 .. ctuIdx : decQp[Slice[r]] = cus[Slice[r]].qp

\* the slices that are done have the QPs that were chosen
Arrived ==
  \A k \in 1 .. Len(pic.slices) :
    (k < sliceIdx \/ phase = "done") /\ InOneTile(grid, pic.slices[k]) =>
      \A r \in 1 .. Len(pic.slices[k]) : decQp[pic.slices[k][r]] = cus[pic.slices[k][r]].qp

Inv == TypeInv /\ Streams /\ Fits /\ QpsKnown /\ Arrived

(* It holds at first.                                                      *)
LEMMA InvInit == Init => Inv
<1> SUFFICES ASSUME Init
             PROVE  Inv
  OBVIOUS
<1>1. /\ pic \in Pictures /\ sliceIdx = 1 /\ ctuIdx = 0 /\ phase = "compress" /\ prevQP = SliceQp
      /\ cus = [a \in 0 .. grid.width * grid.height - 1 |-> [qp |-> SliceQp, residual |-> FALSE]]
      /\ enc = EncIdle /\ dec = DecIdle /\ decQp = [a \in DOMAIN cus |-> SliceQp]
  BY DEF Init
<1>2. sliceIdx \in 1 .. Len(pic.slices)
  BY <1>1, PictureOk
<1>3. Stands
  <2>1. Len(Slice) \in Nat /\ Len(Slice) >= 1
    BY <1>1, <1>2, SliceOk DEF Slice
  <2> QED
    BY <1>1, <1>2, <2>1 DEF Stands
<1>4. SliceQp \in Qps /\ SliceQp \in Int
  BY QPAssumption DEF Qps, MAX_QP
<1>5. cus \in [Addrs(grid) -> CuSet]
  <2>1. [qp |-> SliceQp, residual |-> FALSE] \in CuSet
    BY <1>4 DEF CuSet
  <2> QED
    BY <1>1, <2>1 DEF Addrs
<1>6. decQp \in [Addrs(grid) -> Int]
  BY <1>1, <1>4, <1>5
<1>7. << >> \in Seq(Nat) /\ << << >> >> \in Seq(Seq(Symbols)) /\ 1 \in Nat \ {0}
  OBVIOUS
<1>8. enc \in EncType /\ dec \in DecType /\ enc.sync = dec.sync /\ enc.streams = << << >> >>
  BY <1>1, <1>4, <1>7 DEF EncIdle, DecIdle, EncType, DecType
<1>9. TypeInv
  BY <1>1, <1>3, <1>4, <1>5, <1>6, <1>8 DEF TypeInv
<1>10. Streams
  BY <1>1, <1>8 DEF Streams
<1>11. Fits
  <2>1. Slice \in Seq(Nat)
    <3>1. Slice \in Seq(Addrs(grid))
      BY <1>3, Standing
    <3>2. Addrs(grid) \subseteq Nat
      BY DEF Addrs
    <3> QED
      BY <3>1, <3>2
  <2>2. PICK h : History(pic, Slice, h)
    BY <1>7, <2>1, HistoryExists
  <2>3. 0 \in 0 .. Len(Slice) /\ h[0].sub = 1
    BY <2>1, <2>2 DEF History
  <2> DEFINE c == Cardinality(Cuts(pic, Slice, 0))
             n == NumSubstreams
  <2>4. c \in Nat /\ 1 = 1 + c
    BY <2>1, <2>2, <2>3, CutsCounted
  <2>5. n \in Nat /\ 1 + c <= n
    BY <1>3, CutsFit
  <2> HIDE DEF c, n
  <2>6. 1 <= n
    BY <2>4, <2>5
  <2>7. Len(enc.streams) = 1
    BY <1>8
  <2> QED
    BY <2>6, <2>7 DEF Fits, n
<1>12. QpsKnown
  BY <1>1 DEF QpsKnown
<1>13. Arrived
  BY <1>1 DEF Arrived
<1> QED
  BY <1>9, <1>10, <1>11, <1>12, <1>13 DEF Inv

(* A stage goes on with the next CTU, or makes room for the next stage.    *)
LEMMA Onward ==
  ASSUME Stands, NEW stage, Advance(stage), pic' = pic,
         sliceIdx' = sliceIdx \/ (LastCtu /\ sliceIdx' \in 1 .. Len(pic.slices))
  PROVE  /\ Stands' /\ grid' = grid /\ ctuIdx \in 0 .. Len(Slice) - 1 /\ Len(Slice) \in Nat
         /\ LastCtu => ctuIdx' = 0 /\ phase' = stage /\ ctuIdx + 1 = Len(Slice)
         /\ ~LastCtu => ctuIdx' = ctuIdx + 1 /\ phase' = phase /\ ctuIdx + 1 < Len(Slice) /\ ctuIdx' # 0
         /\ (sliceIdx' = sliceIdx => Slice' = Slice)
<1>1. ctuIdx' = (IF LastCtu THEN 0 ELSE ctuIdx + 1) /\ phase' = IF LastCtu THEN stage ELSE phase
  BY DEF Advance
<1>2. pic \in Pictures /\ sliceIdx \in 1 .. Len(pic.slices) /\ ctuIdx \in 0 .. Len(Slice) - 1
  BY DEF Stands
<1>3. sliceIdx' \in 1 .. Len(pic.slices)
  BY <1>2
<1>4. /\ grid' = grid /\ Slice' = pic.slices[sliceIdx'] /\ (sliceIdx' = sliceIdx => Slice' = Slice)
  BY DEF grid, Slice
<1>5. Len(Slice) \in Nat /\ ctuIdx \in Nat
  BY Standing
<1>6. Len(Slice') \in Nat /\ Len(Slice') >= 1
  BY <1>2, <1>3, <1>4, SliceOk
<1>7. LastCtu <=> ctuIdx + 1 = Len(Slice)
  BY <1>5 DEF LastCtu
<1>8. ctuIdx' \in 0 .. Len(Slice') - 1
  <2>1. CASE LastCtu
    BY <1>1, <1>6, <2>1
  <2>2. CASE ~LastCtu
    BY <1>1, <1>2, <1>4, <1>5, <1>7, <2>2
  <2> QED
    BY <2>1, <2>2
<1>9. Stands'
  BY <1>2, <1>3, <1>8 DEF Stands
<1> QED
  BY <1>1, <1>2, <1>4, <1>5, <1>7, <1>9
----------------------------------------------------------------------------
(* The steps.                                                              *)

(* The QP a CTU's refers to is that of a CTU before it.                    *)
LEMMA CuOkSame ==
  ASSUME NEW p, IsGrid(p.grid), NEW s, IsSlice(p.grid, s), InOneTile(p.grid, s), NEW j \in 0 .. Len(s) - 1,
         NEW cs, NEW ds, \A r \in 1 .. j : cs[s[r]] = ds[s[r]]
  PROVE  /\ PredOf(p, s, cs, j) = PredOf(p, s, ds, j)
         /\ cs[s[j + 1]] = ds[s[j + 1]] => (CuOk(p, s, cs, j) <=> CuOk(p, s, ds, j))
<1>1. Len(s) \in Nat
  BY DEF IsSlice
<1>2. j # 0 => cs[s[j]] = ds[s[j]]
  BY <1>1
<1>3. j # 0 /\ IsTileColBd(p.grid, s[j + 1]) => cs[s[j + 1] - p.grid.width] = ds[s[j + 1] - p.grid.width]
  <2>1. SUFFICES ASSUME j # 0, IsTileColBd(p.grid, s[j + 1])
                 PROVE  cs[s[j + 1] - p.grid.width] = ds[s[j + 1] - p.grid.width]
    OBVIOUS
  <2>2. j \in 1 .. Len(s) - 1
    BY <1>1, <2>1
  <2>3. \E r \in 1 .. j : s[r] = s[j + 1] - p.grid.width
    BY <2>1, <2>2, RowAbove
  <2> QED
    BY <2>3
<1>4. PredOf(p, s, cs, j) = PredOf(p, s, ds, j)
  BY <1>2, <1>3 DEF PredOf
<1> QED
  BY <1>4 DEF CuOk

(* Nothing is predicted that is no QP.                                     *)
LEMMA PredictQPStays ==
  ASSUME Stands, NEW qps, \A a \in Addrs(grid) : qps[a] \in Qps, NEW prev \in Qps
  PROVE  PredictQP(qps, Addr, QpAt(Addr, prev)) \in Qps
<1>1. SliceQp \in Qps
  BY QPAssumption DEF Qps
<1>2. AboveAvailable(Addr) => Addr - grid.width \in Addrs(grid)
  <2>1. Slice \in Seq(Addrs(grid))
    BY Standing
  <2>2. ToSet(Slice) \subseteq Addrs(grid)
    BY <2>1 DEF ToSet
  <2> QED
    BY <2>2 DEF AboveAvailable
<1>3. QpAt(Addr, prev) \in Qps
  BY <1>1 DEF QpAt
<1> QED
  BY <1>2, <1>3 DEF PredictQP

(* Another slice has other CTUs.                                           *)
LEMMA OtherSlice ==
  ASSUME Stands, NEW k \in 1 .. Len(pic.slices), NEW r \in 1 .. Len(pic.slices[k]), k # sliceIdx
  PROVE  pic.slices[k][r] # Addr
<1>1. pic \in Pictures /\ sliceIdx \in 1 .. Len(pic.slices) /\ ctuIdx + 1 \in 1 .. Len(pic.slices[sliceIdx])
  BY Standing DEF Stands, Slice
<1>2. Addr = pic.slices[sliceIdx][ctuIdx + 1]
  BY DEF Addr, Slice
<1> QED
  BY <1>1, <1>2, Distinct

(* compressSlice.                                                          *)
LEMMA Compressing ==
  ASSUME Inv, CompressCtu
  PROVE  Inv'
<1> DEFINE qps == [b \in DOMAIN cus |-> cus[b].qp]
           last == IF ctuIdx = 0 THEN SliceQp ELSE prevQP
           pred == PredictQP(qps, Addr, QpAt(Addr, last))
           s == Slice
<1>1. /\ Stands /\ prevQP \in Qps /\ cus \in [Addrs(grid) -> CuSet] /\ decQp \in [Addrs(grid) -> Int]
      /\ enc \in EncType /\ dec \in DecType /\ Streams /\ Fits /\ QpsKnown /\ Arrived
  BY DEF Inv, TypeInv
<1>2. /\ phase = "compress" /\ Advance("encode") /\ pic' = pic /\ sliceIdx' = sliceIdx
      /\ enc' = enc /\ dec' = dec /\ decQp' = decQp
  BY DEF CompressCtu
<1>3. PICK cu : /\ \/ \E qp \in pic.qps : cu = [qp |-> qp, residual |-> TRUE]
                   \/ cu = [qp |-> pred, residual |-> FALSE]
                /\ cus' = [cus EXCEPT ![Addr] = cu] /\ prevQP' = cu.qp
  <2> HIDE DEF pred
  <2>1. \E cu \in {[qp |-> qp, residual |-> TRUE] : qp \in pic.qps} \cup {[qp |-> pred, residual |-> FALSE]} :
          cus' = [cus EXCEPT ![Addr] = cu] /\ prevQP' = cu.qp
    BY DEF CompressCtu, pred
  <2> QED
    BY <2>1
<1>4. /\ Stands' /\ grid' = grid /\ Slice' = s /\ ctuIdx \in 0 .. Len(s) - 1 /\ Len(s) \in Nat
      /\ LastCtu => ctuIdx' = 0 /\ phase' = "encode" /\ ctuIdx + 1 = Len(s)
      /\ ~LastCtu => ctuIdx' = ctuIdx + 1 /\ phase' = "compress" /\ ctuIdx + 1 < Len(s) /\ ctuIdx' # 0
  <2> HIDE DEF s
  <2> QED
    BY <1>1, <1>2, Onward DEF s
<1>5. /\ IsGrid(grid) /\ IsSlice(grid, s) /\ s \in Seq(Addrs(grid)) /\ Addr \in Addrs(grid) /\ Addr = s[ctuIdx + 1]
      /\ \A q, r \in 1 .. Len(s) : s[q] = s[r] => q = r
  BY <1>1, Standing DEF Addr
<1>6. \A a \in Addrs(grid) : qps[a] = cus[a].qp /\ qps[a] \in Qps
  <2>1. SUFFICES ASSUME NEW a \in Addrs(grid)
                 PROVE  qps[a] = cus[a].qp /\ qps[a] \in Qps
    OBVIOUS
  <2>2. cus[a] \in CuSet /\ a \in DOMAIN cus
    BY <1>1
  <2> QED
    BY <2>2 DEF CuSet
<1> HIDE DEF qps
<1>7. last \in Qps
  BY <1>1, QPAssumption DEF Qps
<1>8. pred \in Qps
  <2> HIDE DEF last
  <2> QED
    BY <1>1, <1>6, <1>7, PredictQPStays
<1> HIDE DEF pred, last
<1>9. cu \in CuSet /\ (cu.residual = FALSE => cu.qp = pred)
  <2>1. CASE cu = [qp |-> pred, residual |-> FALSE]
    BY <1>8, <2>1 DEF CuSet
  <2>2. CASE \E qp \in pic.qps : cu = [qp |-> qp, residual |-> TRUE]
    <3>1. PICK qp \in pic.qps : cu = [qp |-> qp, residual |-> TRUE]
      BY <2>2
    <3>2. qp \in Qps
      BY <1>1, QPAssumption DEF Qps, Stands
    <3> QED
      BY <3>1, <3>2 DEF CuSet
  <2> QED
    BY <1>3, <2>1, <2>2
<1>10. cus' \in [Addrs(grid) -> CuSet] /\ prevQP' \in Qps /\ cus'[Addr] = cu
       /\ \A a \in Addrs(grid) : a # Addr => cus'[a] = cus[a]
  <2>1. cu.qp \in Qps
    BY <1>9 DEF CuSet
  <2> QED
    BY <1>1, <1>3, <1>5, <1>9, <2>1
<1>11. TypeInv'
  <2>1. phase' \in {"compress", "encode", "decode", "done"} /\ phase' # "done"
    BY <1>4
  <2> QED
    BY <1>1, <1>2, <1>4, <1>10, <2>1 DEF TypeInv
<1>12. Streams'
  <2>1. enc.sync = dec.sync
    BY <1>1, <1>2 DEF Streams
  <2>2. enc'.sync = dec'.sync /\ (phase' = "compress" \/ (phase' = "encode" /\ ctuIdx' = 0))
    BY <1>2, <1>4, <2>1
  <2> QED
    BY <2>2 DEF Streams
<1>13. Fits'
  BY <1>1, <1>2, <1>4 DEF Fits, NumSubstreams
<1>14. QpsKnown'
  <2>1. SUFFICES ASSUME InOneTile(grid, s)
                 PROVE  /\ phase' = "compress" => \A j \in 0 .. ctuIdx' - 1 : CuOk(pic, s, cus', j)
                        /\ phase' = "encode" => \A j \in 0 .. Len(s) - 1 : CuOk(pic, s, cus', j)
                        /\ ctuIdx' # 0 /\ phase' = "compress" => prevQP' = cus'[s[ctuIdx']].qp
    <3>1. Before(cus)' = IF ctuIdx' = 0 THEN SliceQp ELSE cus'[s[ctuIdx']].qp
      BY <1>4 DEF Before
    <3>2. phase' = "compress" \/ (phase' = "encode" /\ ctuIdx' = 0)
      BY <1>4
    <3> HIDE DEF s
    <3> QED
      BY <1>2, <1>4, <2>1, <3>1, <3>2 DEF QpsKnown
  <2>2. /\ \A j \in 0 .. ctuIdx - 1 : CuOk(pic, s, cus, j)
        /\ last = Before(cus)
    BY <1>1, <1>2, <2>1 DEF QpsKnown, last, Before
  <2>3. pic.grid = grid
    BY DEF grid
  <2>4. \A r \in 1 .. ctuIdx : cus'[s[r]] = cus[s[r]]
    <3>1. SUFFICES ASSUME NEW r \in 1 .. ctuIdx
                   PROVE  cus'[s[r]] = cus[s[r]]
      OBVIOUS
    <3>2. r \in 1 .. Len(s) /\ ctuIdx + 1 \in 1 .. Len(s) /\ r # ctuIdx + 1
      BY <1>4
    <3>3. s[r] # Addr /\ s[r] \in Addrs(grid)
      BY <1>5, <3>2
    <3> QED
      BY <1>10, <3>3
  <2>5. ASSUME NEW j \in 0 .. ctuIdx
        PROVE  CuOk(pic, s, cus', j)
    <3>1. j \in 0 .. Len(s) - 1
      BY <1>4
    <3>2. \A r \in 1 .. j : cus'[s[r]] = cus[s[r]]
      BY <1>4, <2>4
    <3>3. /\ PredOf(pic, s, cus', j) = PredOf(pic, s, cus, j)
          /\ cus'[s[j + 1]] = cus[s[j + 1]] => (CuOk(pic, s, cus', j) <=> CuOk(pic, s, cus, j))
      <4> DEFINE p == pic
                 cs == cus'
      <4>1. IsGrid(p.grid) /\ IsSlice(p.grid, s) /\ InOneTile(p.grid, s) /\ \A r \in 1 .. j : cs[s[r]] = cus[s[r]]
        BY <1>5, <2>1, <2>3, <3>2
      <4> HIDE DEF p, cs, s
      <4>2. /\ PredOf(p, s, cs, j) = PredOf(p, s, cus, j)
            /\ cs[s[j + 1]] = cus[s[j + 1]] => (CuOk(p, s, cs, j) <=> CuOk(p, s, cus, j))
        BY <3>1, <4>1, CuOkSame
      <4> QED
        BY <4>2 DEF p, cs
    <3>4. CASE j # ctuIdx
      <4>1. j \in 0 .. ctuIdx - 1 /\ j + 1 \in 1 .. ctuIdx
        BY <1>4, <3>4
      <4> QED
        BY <2>2, <2>4, <3>3, <4>1
    <3>5. CASE j = ctuIdx
      <4>1. pred = PredOf(pic, s, cus, ctuIdx)
        <5>1. \A r \in 1 .. ctuIdx : qps[s[r]] = cus[s[r]].qp
          <6>1. \A r \in 1 .. ctuIdx : s[r] \in Addrs(grid)
            BY <1>4, <1>5
          <6> QED
            BY <1>6, <6>1
        <5> QED
          BY <1>1, <2>1, <2>2, <5>1, Predicted DEF pred
      <4>2. cus'[s[j + 1]] = cu
        BY <1>5, <1>10, <3>5
      <4> QED
        BY <1>9, <3>3, <3>5, <4>1, <4>2 DEF CuOk
    <3> QED
      BY <3>4, <3>5
  <2>6. CASE LastCtu
    <3>1. \A j \in 0 .. Len(s) - 1 : j \in 0 .. ctuIdx
      BY <1>4, <2>6
    <3> QED
      BY <1>4, <2>5, <2>6, <3>1
  <2>7. CASE ~LastCtu
    <3>1. \A j \in 0 .. ctuIdx' - 1 : j \in 0 .. ctuIdx
      BY <1>4, <2>7
    <3>2. prevQP' = cus'[s[ctuIdx']].qp
      BY <1>3, <1>4, <1>5, <1>10, <2>7
    <3> QED
      BY <1>4, <2>5, <2>7, <3>1, <3>2
  <2> QED
    BY <2>6, <2>7
<1>15. Arrived'
  <2>1. SUFFICES ASSUME NEW k \in 1 .. Len(pic.slices), k < sliceIdx, InOneTile(grid, pic.slices[k]),
                        NEW r \in 1 .. Len(pic.slices[k])
                 PROVE  decQp[pic.slices[k][r]] = cus'[pic.slices[k][r]].qp
    BY <1>2, <1>4 DEF Arrived
  <2>2. decQp[pic.slices[k][r]] = cus[pic.slices[k][r]].qp
    BY <1>1, <2>1 DEF Arrived
  <2>3. pic.slices[k][r] # Addr
    <3>1. k # sliceIdx
      BY <1>1, <2>1 DEF Stands
    <3> QED
      BY <1>1, <3>1, OtherSlice
  <2>4. pic.slices[k][r] \in Addrs(grid)
    <3>1. pic.slices[k] \in Seq(Addrs(grid))
      BY <1>1, SliceOk, SMTT(30) DEF Stands, grid
    <3> QED
      BY <3>1
  <2> QED
    BY <1>10, <2>2, <2>3, <2>4
<1> QED
  BY <1>11, <1>12, <1>13, <1>14, <1>15 DEF Inv

(* encodeSlice.                                                            *)
LEMMA Encoding ==
  ASSUME Inv, EncodeCtu
  PROVE  Inv'
<1> DEFINE e == IF ctuIdx = 0 THEN EncStart ELSE enc
           s == Slice
<1>1. /\ Stands /\ prevQP \in Qps /\ cus \in [Addrs(grid) -> CuSet] /\ decQp \in [Addrs(grid) -> Int]
      /\ enc \in EncType /\ dec \in DecType /\ Streams /\ Fits /\ QpsKnown /\ Arrived
  BY DEF Inv, TypeInv
<1>2. /\ phase = "encode" /\ Advance("decode") /\ pic' = pic /\ sliceIdx' = sliceIdx
      /\ prevQP' = prevQP /\ cus' = cus /\ dec' = dec /\ decQp' = decQp
  BY DEF EncodeCtu
<1>3. /\ Stands' /\ grid' = grid /\ Slice' = s /\ ctuIdx \in 0 .. Len(s) - 1 /\ Len(s) \in Nat
      /\ LastCtu => ctuIdx' = 0 /\ phase' = "decode" /\ ctuIdx + 1 = Len(s)
      /\ ~LastCtu => ctuIdx' = ctuIdx + 1 /\ phase' = "encode" /\ ctuIdx + 1 < Len(s) /\ ctuIdx' # 0
  <2> HIDE DEF s
  <2> QED
    BY <1>1, <1>2, Onward DEF s
<1>4. s \in Seq(Nat) /\ s \in Seq(Addrs(grid)) /\ Addr \in Addrs(grid) /\ Addr = s[ctuIdx + 1] /\ pic.grid = grid
  <2>1. s \in Seq(Addrs(grid)) /\ Addr \in Addrs(grid) /\ Addr = s[ctuIdx + 1] /\ pic.grid = grid
    BY <1>1, Standing DEF Addr, grid
  <2>2. Addrs(grid) \subseteq Nat
    BY DEF Addrs
  <2> QED
    BY <2>1, <2>2
<1>5. CuTypes
  <2>1. CuSet \subseteq [qp : Int, residual : BOOLEAN]
    BY QPAssumption DEF CuSet, Qps, MAX_QP
  <2> QED
    BY <1>1, <2>1 DEF CuTypes
<1>6. PICK h : History(pic, s, h) /\ h[0].sync = dec.sync /\ EncAt(pic, s, h, cus, ctuIdx, e) /\ e \in EncType
  <2>1. CASE ctuIdx # 0
    <3>1. e = enc
      BY <2>1
    <3> QED
      BY <1>1, <1>2, <2>1, <3>1 DEF Streams
  <2>2. CASE ctuIdx = 0
    <3>1. enc.sync = dec.sync /\ enc.sync \in Seq(Nat) /\ enc.fault = FALSE
      BY <1>1, <1>2, <2>2 DEF Streams, EncType
    <3>2. e = [ctx |-> << >>, coder |-> "fresh", sync |-> enc.sync, fault |-> FALSE,
               streams |-> << << >> >>, sizes |-> << >>, prevQP |-> SliceQp]
      BY <2>2, <3>1 DEF EncStart, EncIdle
    <3>3. << >> \in Seq(Nat) /\ << << >> >> \in Seq(Seq(Symbols)) /\ SliceQp \in Int
      BY QPAssumption DEF MAX_QP
    <3> HIDE DEF e, s
    <3>4. e \in EncType
      BY <3>1, <3>2, <3>3 DEF EncType
    <3>5. PICK h : History(pic, s, h) /\ h[0].sync = enc.sync
      BY <1>4, <3>1, HistoryExists
    <3>6. h[0].ctx = << >> /\ h[0].sub = 1 /\ h[0].pos = 0
      BY <3>5 DEF History
    <3>7. EncAt(pic, s, h, cus, 0, e)
      <4>1. /\ e.ctx = << >> /\ e.sync = enc.sync /\ e.coder = "fresh"
            /\ e.streams = << << >> >> /\ e.sizes = << >>
        BY <3>2
      <4>2. Len(e.streams) = 1 /\ Len(e.streams[1]) = 0 /\ Len(e.sizes) = 1 - 1
        BY <4>1
      <4>3. CoderAt(pic, s, 0) = "fresh"
        BY DEF CoderAt
      <4> QED
        BY <3>5, <3>6, <4>1, <4>2, <4>3 DEF EncAt
    <3> QED
      BY <2>2, <3>1, <3>4, <3>5, <3>7
  <2> QED
    BY <2>1, <2>2
<1>7. InOneTile(grid, s) => e.prevQP = Before(cus) /\ EncPred(e.prevQP) = PredOf(pic, s, cus, ctuIdx)
  <2> DEFINE qps == [b \in DOMAIN cus |-> cus[b].qp]
  <2>1. SUFFICES ASSUME InOneTile(grid, s)
                 PROVE  e.prevQP = Before(cus) /\ EncPred(e.prevQP) = PredOf(pic, s, cus, ctuIdx)
    OBVIOUS
  <2>2. e.prevQP = Before(cus)
    <3>1. CASE ctuIdx = 0
      BY <3>1 DEF Before, EncStart, EncIdle
    <3>2. CASE ctuIdx # 0
      BY <1>1, <1>2, <2>1, <3>2 DEF QpsKnown
    <3> QED
      BY <3>1, <3>2
  <2>3. \A r \in 1 .. ctuIdx : qps[s[r]] = cus[s[r]].qp
    <3>1. \A r \in 1 .. ctuIdx : s[r] \in DOMAIN cus
      BY <1>1, <1>3, <1>4
    <3> QED
      BY <3>1
  <2> HIDE DEF qps
  <2>4. PredictQP(qps, Addr, Before(cus)) = PredOf(pic, s, cus, ctuIdx)
    BY <1>1, <2>1, <2>3, Predicted
  <2> QED
    BY <2>2, <2>4 DEF EncPred, qps
<1>8. /\ enc' \in EncType /\ EncAt(pic, s, h, cus, ctuIdx + 1, enc')
      /\ enc'.prevQP = IF cus[Addr].residual THEN cus[Addr].qp ELSE EncPred(e.prevQP)
  BY <1>1, <1>5, <1>6, <1>7, Encodes
<1> HIDE DEF e
<1>9. TypeInv'
  <2>1. phase' \in {"compress", "encode", "decode", "done"} /\ phase' # "done"
    BY <1>3
  <2> QED
    BY <1>1, <1>2, <1>3, <1>8, <2>1 DEF TypeInv
<1>10. Streams'
  <2> HIDE DEF s
  <2>1. CASE LastCtu
    <3>1. phase' = "decode" /\ ctuIdx' = 0 /\ EncAt(pic, s, h, cus, Len(s), enc')
      BY <1>3, <1>8, <2>1
    <3> QED
      BY <1>2, <1>3, <1>6, <3>1 DEF Streams
  <2>2. CASE ~LastCtu
    <3>1. phase' = "encode" /\ ctuIdx' = ctuIdx + 1 /\ ctuIdx' # 0
      BY <1>3, <2>2
    <3> QED
      BY <1>2, <1>3, <1>6, <1>8, <3>1 DEF Streams
  <2> QED
    BY <2>1, <2>2
<1>11. Fits'
  <2> DEFINE n == ctuIdx + 1
             c == Cardinality(Cuts(pic, s, n))
             m == NumSubstreams
  <2>1. n \in Nat /\ n \in 0 .. Len(s)
    BY <1>3
  <2> HIDE DEF n
  <2>2. c \in Nat /\ h[n].sub = 1 + c
    <3> HIDE DEF s
    <3> QED
      BY <1>4, <1>6, <2>1, CutsCounted
  <2>3. m \in Nat /\ 1 + c <= m
    BY <1>1, <2>1, CutsFit
  <2>4. Len(enc'.streams) = h[n].sub
    BY <1>8 DEF EncAt, n
  <2>5. NumSubstreams' = m
    BY <1>2, <1>3 DEF NumSubstreams
  <2> HIDE DEF c, m
  <2> QED
    BY <2>2, <2>3, <2>4, <2>5 DEF Fits
<1>12. QpsKnown'
  <2>1. SUFFICES ASSUME InOneTile(grid, s)
                 PROVE  /\ \A j \in 0 .. Len(s) - 1 : CuOk(pic, s, cus, j)
                        /\ ctuIdx' # 0 => enc'.prevQP = cus[s[ctuIdx']].qp
    <3>1. Before(cus)' = IF ctuIdx' = 0 THEN SliceQp ELSE cus[s[ctuIdx']].qp
      BY <1>2, <1>3 DEF Before
    <3>2. phase' = "encode" \/ (phase' = "decode" /\ ctuIdx' = 0)
      BY <1>3
    <3> HIDE DEF s
    <3>3. SUFFICES ASSUME InOneTile(grid, s)
                   PROVE  /\ \A j \in 0 .. Len(s) - 1 : CuOk(pic, s, cus, j)
                          /\ ctuIdx' # 0 => phase' = "encode" /\ enc'.prevQP = Before(cus)'
                          /\ phase' = "decode" => ctuIdx' = 0
      BY <1>2, <1>3, <3>2 DEF QpsKnown
    <3> QED
      BY <2>1, <3>1, <3>2, <3>3
  <2>2. \A j \in 0 .. Len(s) - 1 : CuOk(pic, s, cus, j)
    BY <1>1, <1>2, <2>1 DEF QpsKnown
  <2>3. enc'.prevQP = cus[Addr].qp
    <3>1. CASE cus[Addr].residual = FALSE
      <4>1. cus[Addr].qp = PredOf(pic, s, cus, ctuIdx)
        BY <1>3, <1>4, <2>2, <3>1 DEF CuOk
      <4> QED
        BY <1>7, <1>8, <2>1, <3>1, <4>1
    <3>2. CASE cus[Addr].residual = TRUE
      BY <1>8, <3>2
    <3>3. cus[Addr].residual \in BOOLEAN
      <4>1. cus[Addr] \in CuSet
        BY <1>1, <1>4
      <4> QED
        BY <4>1 DEF CuSet
    <3> QED
      BY <3>1, <3>2, <3>3
  <2> QED
    BY <1>3, <1>4, <2>2, <2>3
<1>13. Arrived'
  <2>1. phase' # "done"
    BY <1>3
  <2> QED
    BY <1>1, <1>2, <1>3, <2>1 DEF Arrived
<1> QED
  BY <1>9, <1>10, <1>11, <1>12, <1>13 DEF Inv

(* The QP that decompressSlice reads is the one that was chosen.           *)
LEMMA ReadsQp ==
  ASSUME Stands, InOneTile(grid, Slice), cus \in [Addrs(grid) -> CuSet], NEW h,
         NEW y, IsSymbol(pic, Slice, h, cus, ctuIdx, y), CuOk(pic, Slice, cus, ctuIdx),
         \A r \in 1 .. ctuIdx : decQp[Slice[r]] = cus[Slice[r]].qp
  PROVE  QpRead(decQp, Before(cus), y.dqp) = cus[Addr].qp
<1> DEFINE s == Slice
           pred == PredictQP(decQp, Addr, QpAt(Addr, Before(cus)))
           of == PredOf(pic, s, cus, ctuIdx)
           cu == cus[Addr]
           dqp == y.dqp
<1>1. Addr = s[ctuIdx + 1] /\ Addr \in Addrs(grid) /\ pic.grid = grid
  BY Standing DEF Addr, grid
<1>2. cu \in CuSet
  BY <1>1
<1>3. \A a \in Addrs(grid) : cus[a].qp \in Qps
  <2>1. SUFFICES ASSUME NEW a \in Addrs(grid)
                 PROVE  cus[a].qp \in Qps
    OBVIOUS
  <2>2. cus[a] \in CuSet
    OBVIOUS
  <2> QED
    BY <2>2 DEF CuSet
<1>4. pred = of
  BY Predicted
<1>5. of \in Qps
  BY <1>3, PredOfIs
<1>6. dqp = IF cu.residual THEN <<WrittenDQp(cu.qp, of)>> ELSE << >>
  BY <1>1 DEF IsSymbol, DQpOf
<1>7. QpRead(decQp, Before(cus), dqp) = IF dqp = << >> THEN pred ELSE ReadQp(pred, dqp[1])
  BY DEF QpRead
<1>8. cu.residual = FALSE => cu.qp = of
  BY <1>1 DEF CuOk
<1>9. cu.qp \in Qps /\ cu.residual \in BOOLEAN
  <2> HIDE DEF cu
  <2> QED
    BY <1>2 DEF CuSet
<1> HIDE DEF s, pred, of, cu, dqp
<1>10. CASE cu.residual = FALSE
  BY <1>4, <1>6, <1>7, <1>8, <1>10 DEF cu, dqp
<1>11. CASE cu.residual = TRUE
  <2> DEFINE w == WrittenDQp(cu.qp, of)
  <2>1. ReadQp(of, w) = cu.qp
    BY <1>5, <1>9, RoundTrip
  <2> HIDE DEF w
  <2>2. dqp = <<w>>
    BY <1>6, <1>11 DEF w
  <2>3. dqp # << >> /\ dqp[1] = w
    BY <2>2
  <2> QED
    BY <1>4, <1>7, <2>1, <2>3 DEF cu, dqp
<1> QED
  BY <1>9, <1>10, <1>11

(* decompressSlice.                                                        *)
LEMMA Decoding ==
  ASSUME Inv, DecodeCtu
  PROVE  Inv'
<1> DEFINE d == IF ctuIdx = 0 THEN DecStart ELSE dec
           s == Slice
           x == Given(pic, enc.streams)
<1>1. /\ Stands /\ prevQP \in Qps /\ cus \in [Addrs(grid) -> CuSet] /\ decQp \in [Addrs(grid) -> Int]
      /\ enc \in EncType /\ dec \in DecType /\ Streams /\ Fits /\ QpsKnown /\ Arrived
  BY DEF Inv, TypeInv
<1>2. /\ phase = "decode" /\ Advance(IF sliceIdx = Len(pic.slices) THEN "done" ELSE "compress") /\ pic' = pic
      /\ sliceIdx' = (IF LastCtu /\ sliceIdx < Len(pic.slices) THEN sliceIdx + 1 ELSE sliceIdx)
      /\ prevQP' = prevQP /\ cus' = cus /\ enc' = enc
  BY DEF DecodeCtu
<1>3. sliceIdx \in 1 .. Len(pic.slices) /\ Len(pic.slices) \in Nat
  BY <1>1, PictureOk DEF Stands
<1>4. sliceIdx' = sliceIdx \/ (LastCtu /\ sliceIdx' \in 1 .. Len(pic.slices))
  BY <1>2, <1>3
<1>5. /\ Stands' /\ grid' = grid /\ ctuIdx \in 0 .. Len(s) - 1 /\ Len(s) \in Nat
      /\ LastCtu => /\ ctuIdx' = 0 /\ ctuIdx + 1 = Len(s)
                    /\ phase' = IF sliceIdx = Len(pic.slices) THEN "done" ELSE "compress"
      /\ ~LastCtu => /\ ctuIdx' = ctuIdx + 1 /\ phase' = "decode" /\ ctuIdx + 1 < Len(s) /\ ctuIdx' # 0
                     /\ sliceIdx' = sliceIdx /\ Slice' = s
  <2> DEFINE stage == IF sliceIdx = Len(pic.slices) THEN "done" ELSE "compress"
  <2>1. Advance(stage)
    BY <1>2
  <2> HIDE DEF s, stage
  <2>2. /\ Stands' /\ grid' = grid /\ ctuIdx \in 0 .. Len(s) - 1 /\ Len(s) \in Nat
        /\ LastCtu => ctuIdx' = 0 /\ phase' = stage /\ ctuIdx + 1 = Len(s)
        /\ ~LastCtu => ctuIdx' = ctuIdx + 1 /\ phase' = phase /\ ctuIdx + 1 < Len(s) /\ ctuIdx' # 0
        /\ (sliceIdx' = sliceIdx => Slice' = s)
    BY <1>1, <1>2, <1>4, <2>1, Onward DEF s
  <2> QED
    BY <1>2, <2>2 DEF stage
<1>6. s \in Seq(Nat) /\ s \in Seq(Addrs(grid)) /\ Addr \in Addrs(grid) /\ Addr = s[ctuIdx + 1] /\ pic.grid = grid
  <2>1. s \in Seq(Addrs(grid)) /\ Addr \in Addrs(grid) /\ Addr = s[ctuIdx + 1] /\ pic.grid = grid
    BY <1>1, Standing DEF Addr, grid
  <2>2. Addrs(grid) \subseteq Nat
    BY DEF Addrs
  <2> QED
    BY <2>1, <2>2
<1>7. PICK h : /\ History(pic, s, h) /\ EncAt(pic, s, h, cus, Len(s), enc)
               /\ ctuIdx = 0 => h[0].sync = dec.sync
               /\ ctuIdx # 0 => \E loc : Layout(pic, s, h, cus, x, loc) /\ DecAt(pic, s, h, x, loc, ctuIdx, dec)
  BY <1>1, <1>2 DEF Streams
<1>8. PICK loc : Layout(pic, s, h, cus, x, loc) /\ DecAt(pic, s, h, x, loc, ctuIdx, d) /\ d \in DecType
  <2>1. CASE ctuIdx # 0
    <3>1. d = dec
      BY <2>1
    <3> HIDE DEF d, x, s
    <3> QED
      BY <1>1, <1>7, <2>1, <3>1
  <2>2. CASE ctuIdx = 0
    <3>1. PICK loc : Layout(pic, s, h, cus, x, loc)
      <4>1. pic.entryPoints \in BOOLEAN
        BY <1>1, Standing
      <4> HIDE DEF s
      <4> QED
        BY <1>1, <1>6, <1>7, <4>1, LayoutExists
    <3>2. x \in Seq(Seq(Symbols)) /\ x # << >> /\ loc[0].sub = 1 /\ loc[0].pos = 0
      BY <3>1 DEF Layout
    <3>3. Extracted = x
      BY <1>1, <1>7, ExtractedGiven
    <3>4. dec.sync \in Seq(Nat) /\ dec.fault = FALSE
      BY <1>1 DEF DecType
    <3>5. d = [ctx |-> << >>, coder |-> "fresh", sync |-> dec.sync, fault |-> FALSE,
               streams |-> x, sub |-> 1, prevQP |-> SliceQp]
      <4> HIDE DEF x
      <4>1. (dec.fault \/ Extracted = << >>) = FALSE
        BY <3>2, <3>3, <3>4
      <4> QED
        BY <2>2, <3>2, <3>3, <4>1 DEF DecStart, DecIdle
    <3>6. << >> \in Seq(Nat) /\ SliceQp \in Int /\ 1 \in Nat \ {0}
      BY QPAssumption DEF MAX_QP
    <3> HIDE DEF d, x, s
    <3>7. d \in DecType
      BY <3>2, <3>4, <3>5, <3>6 DEF DecType
    <3>8. DecAt(pic, s, h, x, loc, 0, d)
      <4>1. h[0].ctx = << >> /\ h[0].sync = dec.sync /\ CoderAt(pic, s, 0) = "fresh"
        BY <1>7, <2>2 DEF History, CoderAt
      <4>2. /\ d.ctx = << >> /\ d.sync = dec.sync /\ d.coder = "fresh" /\ d.streams = x /\ d.sub = 1
        BY <3>5
      <4>3. Rest(x[1], x[1], 0)
        <5> DEFINE z == x[1]
        <5>1. z \in Seq(Symbols)
          BY <3>2
        <5> HIDE DEF z
        <5>2. Rest(z, z, 0)
          BY <5>1 DEF Rest
        <5> QED
          BY <5>2 DEF z
      <4> QED
        BY <3>2, <4>1, <4>2, <4>3 DEF DecAt
    <3> QED
      BY <2>2, <3>1, <3>7, <3>8
  <2> QED
    BY <2>1, <2>2
<1>9. /\ dec' \in DecType /\ DecAt(pic, s, h, x, loc, ctuIdx + 1, dec')
      /\ \E y \in Symbols :
           /\ IsSymbol(pic, s, h, cus, ctuIdx, y)
           /\ decQp' = [decQp EXCEPT ![Addr] = QpRead(decQp, d.prevQP, y.dqp)]
           /\ dec'.prevQP = QpRead(decQp, d.prevQP, y.dqp)
  <2>1. \A a \in Addrs(grid) : decQp[a] \in Int
    BY <1>1
  <2> HIDE DEF x
  <2> QED
    BY <1>1, <1>7, <1>8, <2>1, Reads
<1>10. PICK y \in Symbols :
         /\ IsSymbol(pic, s, h, cus, ctuIdx, y)
         /\ decQp' = [decQp EXCEPT ![Addr] = QpRead(decQp, d.prevQP, y.dqp)]
         /\ dec'.prevQP = QpRead(decQp, d.prevQP, y.dqp)
  BY <1>9
<1> DEFINE qp == QpRead(decQp, d.prevQP, y.dqp)
<1>11. qp \in Int
  <2>1. dec'.prevQP \in Int
    BY <1>9 DEF DecType
  <2> QED
    BY <1>10, <2>1
<1>12. InOneTile(grid, s) => qp = cus[Addr].qp
  <2>1. SUFFICES ASSUME InOneTile(grid, s)
                 PROVE  qp = cus[Addr].qp
    OBVIOUS
  <2>2. d.prevQP = Before(cus)
    <3>1. CASE ctuIdx = 0
      BY <3>1 DEF Before, DecStart, DecIdle
    <3>2. CASE ctuIdx # 0
      BY <1>1, <1>2, <2>1, <3>2 DEF QpsKnown
    <3> QED
      BY <3>1, <3>2
  <2>3. /\ CuOk(pic, s, cus, ctuIdx)
        /\ \A r \in 1 .. ctuIdx : decQp[s[r]] = cus[s[r]].qp
    BY <1>1, <1>2, <1>5, <2>1 DEF QpsKnown
  <2> HIDE DEF d
  <2> QED
    BY <1>1, <1>10, <2>1, <2>2, <2>3, ReadsQp
<1> HIDE DEF d, x, qp
<1>13. /\ decQp' \in [Addrs(grid) -> Int] /\ decQp'[Addr] = qp /\ dec'.prevQP = qp
       /\ \A a \in Addrs(grid) : a # Addr => decQp'[a] = decQp[a]
  <2>1. decQp' = [decQp EXCEPT ![Addr] = qp] /\ dec'.prevQP = qp
    BY <1>10 DEF qp
  <2> QED
    BY <1>1, <1>6, <1>11, <2>1
<1>14. TypeInv'
  <2>1. phase' \in {"compress", "encode", "decode", "done"}
    BY <1>5
  <2>2. phase' = "done" => sliceIdx' = Len(pic.slices) /\ ctuIdx' = 0
    BY <1>2, <1>3, <1>5
  <2> QED
    BY <1>1, <1>2, <1>5, <1>9, <1>13, <2>1, <2>2 DEF TypeInv
<1>15. Streams'
  <2> HIDE DEF s
  <2>1. CASE LastCtu
    <3>1. enc.sync = h[Len(s)].sync
      BY <1>7 DEF EncAt
    <3>2. dec'.sync = h[ctuIdx + 1].sync
      BY <1>9 DEF DecAt
    <3>3. enc'.sync = dec'.sync
      BY <1>2, <1>5, <2>1, <3>1, <3>2
    <3>4. phase' = "compress" \/ phase' = "done"
      BY <1>5, <2>1
    <3> QED
      BY <3>3, <3>4 DEF Streams
  <2>2. CASE ~LastCtu
    <3>1. phase' = "decode" /\ ctuIdx' = ctuIdx + 1 /\ ctuIdx' # 0 /\ Slice' = s
      BY <1>5, <2>2
    <3>2. Given(pic, enc.streams)' = x
      BY <1>2 DEF x
    <3>3. DecAt(pic, s, h, x, loc, ctuIdx', dec')
      BY <1>9, <3>1
    <3> QED
      BY <1>2, <1>7, <1>8, <3>1, <3>2, <3>3 DEF Streams
  <2> QED
    BY <2>1, <2>2
<1>16. Fits'
  BY <1>1, <1>2, <1>5 DEF Fits, NumSubstreams
<1>17. QpsKnown'
  <2>1. CASE LastCtu
    <3>1. ctuIdx' = 0 /\ (phase' = "compress" \/ phase' = "done")
      BY <1>5, <2>1
    <3> QED
      BY <3>1 DEF QpsKnown
  <2>2. CASE ~LastCtu
    <3>1. phase' = "decode" /\ ctuIdx' = ctuIdx + 1 /\ ctuIdx' # 0 /\ Slice' = s
      BY <1>5, <2>2
    <3>2. SUFFICES ASSUME InOneTile(grid, s)
                   PROVE  /\ \A j \in 0 .. Len(s) - 1 : CuOk(pic, s, cus, j)
                          /\ dec'.prevQP = cus[s[ctuIdx']].qp
                          /\ \A r \in 1 .. ctuIdx' : decQp'[s[r]] = cus[s[r]].qp
      <4>1. Before(cus)' = cus[s[ctuIdx']].qp
        BY <1>2, <3>1 DEF Before
      <4> HIDE DEF s
      <4> QED
        BY <1>2, <1>5, <3>1, <4>1 DEF QpsKnown
    <3>3. /\ \A j \in 0 .. Len(s) - 1 : CuOk(pic, s, cus, j)
          /\ \A r \in 1 .. ctuIdx : decQp[s[r]] = cus[s[r]].qp
      BY <1>1, <1>2, <3>2 DEF QpsKnown
    <3>4. dec'.prevQP = cus[s[ctuIdx']].qp
      BY <1>6, <1>12, <1>13, <3>1, <3>2
    <3>5. ASSUME NEW r \in 1 .. ctuIdx'
          PROVE  decQp'[s[r]] = cus[s[r]].qp
      <4>1. CASE s[r] = Addr
        BY <1>12, <1>13, <3>2, <4>1
      <4>2. CASE s[r] # Addr
        <5>1. r \in 1 .. ctuIdx /\ r \in 1 .. Len(s)
          BY <1>5, <1>6, <3>1, <4>2
        <5>2. s[r] \in Addrs(grid)
          BY <1>6, <5>1
        <5> QED
          BY <1>13, <3>3, <4>2, <5>1, <5>2
      <4> QED
        BY <4>1, <4>2
    <3> QED
      BY <3>3, <3>4, <3>5
  <2> QED
    BY <2>1, <2>2
<1>18. Arrived'
  <2>1. SUFFICES ASSUME NEW k \in 1 .. Len(pic.slices), k < sliceIdx' \/ phase' = "done",
                        InOneTile(grid, pic.slices[k]), NEW r \in 1 .. Len(pic.slices[k])
                 PROVE  decQp'[pic.slices[k][r]] = cus[pic.slices[k][r]].qp
    BY <1>2, <1>5 DEF Arrived
  <2>2. CASE k # sliceIdx
    <3>1. k < sliceIdx
      <4>1. phase' = "done" => sliceIdx = Len(pic.slices)
        BY <1>5
      <4> QED
        BY <1>2, <1>3, <2>1, <2>2, <4>1
    <3>2. decQp[pic.slices[k][r]] = cus[pic.slices[k][r]].qp
      BY <1>1, <2>1, <3>1 DEF Arrived
    <3>3. pic.slices[k][r] # Addr
      BY <1>1, <2>2, OtherSlice
    <3>4. pic.slices[k][r] \in Addrs(grid)
      <4>1. pic.slices[k] \in Seq(Addrs(grid))
        BY <1>1, SliceOk DEF Stands, grid
      <4> QED
        BY <4>1
    <3> QED
      BY <1>13, <3>2, <3>3, <3>4
  <2>3. CASE k = sliceIdx
    <3>1. LastCtu /\ pic.slices[k] = s
      BY <1>2, <1>3, <1>5, <2>1, <2>3 DEF Slice
    <3>2. r \in 1 .. ctuIdx \/ r = ctuIdx + 1
      BY <1>5, <3>1
    <3>3. \A q \in 1 .. ctuIdx : decQp[s[q]] = cus[s[q]].qp
      BY <1>1, <1>2, <2>1, <3>1 DEF QpsKnown
    <3>4. CASE s[r] = Addr
      BY <1>12, <1>13, <2>1, <3>1, <3>4
    <3>5. CASE s[r] # Addr
      <4>1. r \in 1 .. ctuIdx
        BY <1>6, <3>2, <3>5
      <4>2. s[r] \in Addrs(grid)
        BY <1>6, <3>1
      <4> QED
        BY <1>13, <3>1, <3>3, <3>5, <4>1, <4>2
    <3> QED
      BY <3>4, <3>5
  <2> QED
    BY <2>2, <2>3
<1> QED
  BY <1>14, <1>15, <1>16, <1>17, <1>18, SMTT(30) DEF Inv

(* So it is an invariant.                                                  *)
THEOREM Invariance == Spec => []Inv
<1>1. Init => Inv
  BY InvInit
<1>2. Inv /\ [Next]_vars => Inv'
  <2>1. SUFFICES ASSUME Inv, [Next]_vars
                 PROVE  Inv'
    OBVIOUS
  <2>2. CASE CompressCtu
    BY <2>1, <2>2, Compressing
  <2>3. CASE EncodeCtu
    BY <2>1, <2>3, Encoding
  <2>4. CASE DecodeCtu
    BY <2>1, <2>4, Decoding
  <2>5. CASE UNCHANGED vars
    <3>1. /\ pic' = pic /\ sliceIdx' = sliceIdx /\ ctuIdx' = ctuIdx /\ phase' = phase /\ prevQP' = prevQP
          /\ cus' = cus /\ enc' = enc /\ dec' = dec /\ decQp' = decQp
      BY <2>5 DEF vars
    <3>2. grid' = grid /\ Slice' = Slice
      BY <3>1 DEF grid, Slice
    <3>3. TypeInv'
      BY <2>1, <3>1, <3>2 DEF Inv, TypeInv, Stands
    <3>4. Streams'
      BY <2>1, <3>1, <3>2 DEF Inv, Streams
    <3>5. Fits'
      BY <2>1, <3>1, <3>2 DEF Inv, Fits, NumSubstreams
    <3>6. QpsKnown'
      <4>1. Before(cus)' = Before(cus)
        BY <3>1, <3>2 DEF Before
      <4> QED
        BY <2>1, <3>1, <3>2, <4>1 DEF Inv, QpsKnown
    <3>7. Arrived'
      BY <2>1, <3>1, <3>2 DEF Inv, Arrived
    <3> QED
      BY <3>3, <3>4, <3>5, <3>6, <3>7 DEF Inv
  <2> QED
    BY <2>1, <2>2, <2>3, <2>4, <2>5 DEF Next
<1> QED
  BY <1>1, <1>2, PTL DEF Spec

(* For every picture, every cut of it into tiles and slices, with and      *)
(* without WPP and entry points, the two CTU loops agree on every context, *)
(* every end of a substream and every restart of the coder.                *)
THEOREM SubstreamsAgreeAlways == Spec => []SubstreamsAgree
<1>1. Inv => SubstreamsAgree
  BY DEF Inv, TypeInv, EncType, DecType, SubstreamsAgree
<1> QED
  BY <1>1, Invariance, PTL

(* And encodeSlice stays within the substreams that compressGOP allocates. *)
THEOREM SubstreamsFitAlways == Spec => []SubstreamsFit
<1>1. Inv => SubstreamsFit
  BY DEF Inv, Fits, SubstreamsFit
<1> QED
  BY <1>1, Invariance, PTL

(* While every slice of the picture is in one tile, every QP arrives: for  *)
(* every QP range, every choice of QPs and of CTUs without a residual.     *)
THEOREM QpArrivesAlways ==
  Spec => []((\A k \in 1 .. Len(pic.slices) : InOneTile(grid, pic.slices[k])) => QpArrives)
<1>1. Inv => ((\A k \in 1 .. Len(pic.slices) : InOneTile(grid, pic.slices[k])) => QpArrives)
  <2>1. SUFFICES ASSUME Inv, \A k \in 1 .. Len(pic.slices) : InOneTile(grid, pic.slices[k])
                 PROVE  QpArrives
    OBVIOUS
  <2>2. /\ Stands /\ Arrived /\ QpsKnown /\ sliceIdx \in 1 .. Len(pic.slices) /\ Slice = pic.slices[sliceIdx]
        /\ ctuIdx \in 0 .. Len(Slice) - 1 /\ Slice \in Seq(Addrs(grid)) /\ Len(Slice) \in Nat
        /\ Len(pic.slices) \in Nat
    <3>1. /\ Stands /\ Arrived /\ QpsKnown
      BY <2>1 DEF Inv, TypeInv
    <3>2. Len(pic.slices) \in Nat
      BY <3>1, PictureOk DEF Stands
    <3> QED
      BY <3>1, <3>2, Standing DEF Stands, Slice
  <2> DEFINE ok(a) == decQp[a] = cus[a].qp
  <2>3. ASSUME NEW k \in 1 .. Len(pic.slices), k < sliceIdx \/ phase = "done"
        PROVE  \A a \in ToSet(pic.slices[k]) : ok(a)
    <3>1. \A r \in 1 .. Len(pic.slices[k]) : ok(pic.slices[k][r])
      BY <2>1, <2>2, <2>3 DEF Arrived
    <3>2. pic.slices[k] \in Seq(Addrs(grid))
      BY <2>2, SliceOk DEF Stands, grid
    <3>3. ToSet(pic.slices[k]) = {pic.slices[k][r] : r \in 1 .. Len(pic.slices[k])}
      BY <3>2 DEF ToSet
    <3> HIDE DEF ok
    <3> QED
      BY <3>1, <3>3
  <2>4. ASSUME phase = "decode"
        PROVE  \A a \in ToSet(SubSeq(Slice, 1, ctuIdx)) : ok(a)
    <3> DEFINE s == Slice
               t == SubSeq(s, 1, ctuIdx)
    <3>1. \A r \in 1 .. ctuIdx : ok(s[r])
      BY <2>1, <2>2, <2>4 DEF QpsKnown
    <3>2. s \in Seq(Addrs(grid)) /\ ctuIdx \in 0 .. Len(s) - 1 /\ Len(s) \in Nat
      BY <2>2
    <3> HIDE DEF s
    <3>3. t \in Seq(Addrs(grid)) /\ Len(t) = ctuIdx /\ \A r \in 1 .. ctuIdx : t[r] = s[r]
      BY <3>2
    <3> HIDE DEF t
    <3>4. ToSet(t) = {t[r] : r \in 1 .. ctuIdx}
      BY <3>3 DEF ToSet
    <3> HIDE DEF ok
    <3>5. \A a \in ToSet(t) : ok(a)
      BY <3>1, <3>3, <3>4
    <3> QED
      BY <3>5 DEF s, t
  <2>5. \A k \in 1 .. sliceIdx - 1 : k \in 1 .. Len(pic.slices) /\ k < sliceIdx
    BY <2>2
  <2>6. phase = "done" => \A a \in ToSet(Slice) : ok(a)
    <3> HIDE DEF ok
    <3> QED
      BY <2>2, <2>3
  <2>7. \A k \in 1 .. sliceIdx - 1 : \A a \in ToSet(pic.slices[k]) : ok(a)
    <3> HIDE DEF ok
    <3> QED
      BY <2>3, <2>5
  <2> DEFINE before == UNION {ToSet(pic.slices[i]) : i \in 1 .. sliceIdx - 1}
             now == IF phase = "decode" THEN ToSet(SubSeq(Slice, 1, ctuIdx)) ELSE {}
             all == IF phase = "done" THEN ToSet(Slice) ELSE {}
  <2>8. \A a \in before \cup now \cup all : ok(a)
    <3> HIDE DEF ok
    <3>1. \A a \in before : ok(a)
      BY <2>7
    <3>2. \A a \in now : ok(a)
      BY <2>4
    <3>3. \A a \in all : ok(a)
      BY <2>6
    <3> HIDE DEF before, now, all
    <3> QED
      BY <3>1, <3>2, <3>3
  <2> QED
    BY <2>8 DEF QpArrives
<1> QED
  BY <1>1, Invariance, PTL
=============================================================================
