---------------------------- MODULE CuTreeProofs ----------------------------
(***************************************************************************)
(* The history of motion candidates and the cache of codings, for CTUs of  *)
(* any size and content: the motion the decoder derives is the encoder's,  *)
(* and a coding from the cache is the one that was found.  The invariant   *)
(* says of every open level what its structures hold (LevelOk), how it     *)
(* lies in the level above it (Linked, Nested), and of every coding in the *)
(* cache where in the search it was found (FoundIn).                       *)
(***************************************************************************)
EXTENDS CuTree, WellFoundedInduction, TLAPS

Modes == {"new", "merge", "affine", "intra"}
\* a merge index counts from 1
Cus ==
  {cu \in [area : Areas, path : Seq(Splits), mode : Modes, arg : Nat, motion : Nat, found : Nat] :
     cu.mode = "merge" => cu.arg # 0}
Codings == [lut : Luts, cus : Seq(Cus)]
Levels == [area : Areas, path : Seq(Splits), best : Codings, temp : Codings,
           stage : {"unsplit", "split", "parts"}, next : 1 .. 6,
           split : Splits \cup {"none"}, part : 0 .. 4, oldLut : Luts]

TypeInv ==
  /\ ctu \in Ctus
  /\ levels \in Seq(Levels)
  /\ \A i \in DOMAIN levels : levels[i].area \in DOMAIN ctu.content
  /\ \A a \in DOMAIN cache : cache[a] \in Cus /\ cache[a].area = a
  /\ final \in Codings

----------------------------------------------------------------------------
(* Codings.                                                                *)

\* the decoder that begins with the history lut goes through the CUs to cs.lut
Decodes(cs, lut) ==
  \E luts \in [0 .. Len(cs.cus) -> Luts] :
    /\ luts[0] = lut /\ luts[Len(cs.cus)] = cs.lut
    /\ \A n \in 1 .. Len(cs.cus) :
         /\ cs.cus[n].motion = DeriveMotion(cs.cus[n], luts[n - 1])
         /\ luts[n] = SaveMotionInHMVP(luts[n - 1], cs.cus[n])

AsFound(cs) == \A n \in DOMAIN cs.cus : cs.cus[n].motion = cs.cus[n].found

\* the best coding: none, the CU unsplit, whose motion is not in its history
\* yet, or the CUs of a split
BestOk(lv) ==
  \/ lv.best.cus = <<>>
  \/ /\ Len(lv.best.cus) = 1
     /\ lv.best.cus[1].area = lv.area
     /\ lv.best.lut = lv.oldLut
     /\ lv.best.cus[1].motion = DeriveMotion(lv.best.cus[1], lv.oldLut)
  \/ Len(lv.best.cus) > 1 /\ Decodes(lv.best, lv.oldLut)

LevelOk(lv, c) ==
  /\ AsFound(lv.best) /\ AsFound(lv.temp)
  /\ BestOk(lv)
  /\ lv.stage = "unsplit" => /\ lv.best = NoCoding(lv.oldLut) /\ lv.temp = NoCoding(lv.oldLut)
                             /\ lv.next = 1
  /\ lv.stage = "split" => lv.temp.lut = lv.oldLut
  /\ lv.stage = "parts" =>
       /\ lv.next > 1 /\ lv.split \in Splits
       /\ lv.split = TestModes(c.qtBeforeBt)[lv.next - 1]
       /\ CanSplit(lv, lv.split)
       /\ lv.part \in DOMAIN Parts(lv.area, lv.split)
       /\ Len(lv.temp.cus) >= lv.part - 1
       /\ Decodes(lv.temp, lv.oldLut)

----------------------------------------------------------------------------
(* The stack of levels.                                                    *)

Linked(lv, sub) ==
  /\ lv.stage = "parts"
  /\ sub.area = Parts(lv.area, lv.split)[lv.part]
  /\ sub.path = Append(lv.path, lv.split)
  /\ sub.oldLut = lv.temp.lut

Within(a, b) ==
  /\ b.x <= a.x /\ a.x + a.w <= b.x + b.w
  /\ b.y <= a.y /\ a.y + a.h <= b.y + b.h
SameCorner(a, b) == a.x = b.x /\ a.y = b.y
StartsWith(path, p) == Len(p) <= Len(path) /\ \A k \in 1 .. Len(p) : path[k] = p[k]

\* a level below another; in the first parts of all splits between them the
\* history is the one of the level above
Nested(lv, sub) ==
  /\ Within(sub.area, lv.area)
  /\ StartsWith(sub.path, lv.path)
  /\ SameCorner(sub.area, lv.area) => sub.oldLut = lv.oldLut

IsStack(s, c) ==
  /\ s # <<>> => /\ s[1].area = c.area /\ s[1].path = <<>> /\ s[1].oldLut = c.lut
                 /\ s[Len(s)].stage # "parts"
  /\ \A i \in DOMAIN s : LevelOk(s[i], c) /\ Len(s[i].path) = i - 1
  /\ \A i \in DOMAIN s : i > 1 => Linked(s[i - 1], s[i])
  /\ \A i, j \in DOMAIN s : i <= j => Nested(s[i], s[j])

----------------------------------------------------------------------------
(* The cache.                                                              *)

\* the split of the level in which the CU was found is one the level has tried,
\* the part one it has reached
Tried(lv, cu, c) ==
  IF Len(cu.path) = Len(lv.path) THEN lv.stage # "unsplit"
  ELSE LET s == cu.path[Len(lv.path) + 1]
       IN /\ \E k \in 1 .. lv.next - 1 : s = TestModes(c.qtBeforeBt)[k]
          /\ lv.stage = "parts" /\ s = lv.split =>
               \E p \in 1 .. lv.part : Within(cu.area, Parts(lv.area, s)[p])

\* A CU found in the call that a level stands for was found in a part the call
\* has been in, and at the level's corner with the level's history.
FoundIn(lv, cu, c) ==
  StartsWith(cu.path, lv.path) /\ Within(cu.area, lv.area) =>
    /\ Tried(lv, cu, c)
    /\ SameCorner(cu.area, lv.area) => cu.found = DeriveMotion(cu, lv.oldLut)

IsCache(s, entries, c) == \A a \in DOMAIN entries : \A i \in DOMAIN s : FoundIn(s[i], entries[a], c)

IInv ==
  /\ TypeInv
  /\ IsStack(levels, ctu)
  /\ IsCache(levels, cache, ctu)
  /\ final.cus # <<>> => Decodes(final, ctu.lut)

----------------------------------------------------------------------------
(* Induction, on sets of numbers.                                          *)

(* A set of numbers has a least one.                                       *)
LEMMA Least ==
  ASSUME NEW T \in SUBSET Nat, T # {}
  PROVE  \E n \in T : \A m \in T : n <= m
<1> DEFINE R == OpToRel(<, Nat)
<1>1. IsWellFoundedOn(R, Nat)
  BY NatLessThanWellFounded, Zenon
<1>2. \A x, y \in Nat : y < x => <<y, x>> \in R
  BY DEF OpToRel
<1> HIDE DEF R
<1>3. PICK x \in T : \A y \in T : <<y, x>> \notin R
  BY <1>1, WFMin, Zenon
<1>4. ASSUME NEW y \in T
      PROVE  x <= y
  <2>1. x \in Nat /\ y \in Nat /\ ~(y < x)
    BY <1>2, <1>3
  <2> QED
    BY <2>1
<1> QED
  BY <1>4

(* A set that holds 0 and every successor holds all numbers.               *)
LEMMA Induction ==
  ASSUME NEW S \in SUBSET Nat, 0 \in S, \A n \in S : n + 1 \in S
  PROVE  S = Nat
<1>1. ASSUME Nat \ S # {}
      PROVE  FALSE
  <2>1. PICK n \in Nat \ S : \A m \in Nat \ S : n <= m
    BY <1>1, Least
  <2>2. n # 0 /\ n - 1 \in Nat /\ n - 1 \in S
    BY <2>1
  <2> QED
    BY <2>1, <2>2
<1> QED
  BY <1>1

----------------------------------------------------------------------------
(* Areas.                                                                  *)

\* what canSplit asks of the size
Fits(a, s) ==
  CASE s = "QUAD" -> a.w = a.h /\ a.w >= 2
    [] s = "HORZ" -> a.h >= 2
    [] s = "VERT" -> a.w >= 2
    [] s = "TRIH" -> a.h >= 4
    [] s = "TRIV" -> a.w >= 4

\* one comes before the other
Apart(a, b) == a.x + a.w <= b.x \/ a.y + a.h <= b.y

(* A split is one of five.                                                 *)
LEMMA FiveSplits ==
  ASSUME NEW s \in Splits
  PROVE  s = "QUAD" \/ s = "HORZ" \/ s = "VERT" \/ s = "TRIH" \/ s = "TRIV"
  BY DEF Splits

(* CanSplit is a matter of the size, and for quad splits of the path.      *)
LEMMA CanSplitFits ==
  ASSUME NEW lv, NEW s \in Splits, CanSplit(lv, s)
  PROVE  Fits(lv.area, s)
  BY FiveSplits DEF CanSplit, Fits

(* At the root every split that fits is possible.                          *)
LEMMA FitsCanSplit ==
  ASSUME NEW a, NEW s \in Splits, Fits(a, s)
  PROVE  CanSplit([area |-> a, path |-> <<>>], s)
<1>1. [area |-> a, path |-> <<>>].area = a /\ [area |-> a, path |-> <<>>].path = <<>>
  OBVIOUS
<1>2. \A i \in DOMAIN <<>> : FALSE
  OBVIOUS
<1>3. \A i \in DOMAIN [area |-> a, path |-> <<>>].path :
        [area |-> a, path |-> <<>>].path[i] = "QUAD"
  BY <1>1, <1>2
<1> DEFINE lv == [area |-> a, path |-> <<>>]
<1>4. lv.area = a /\ \A i \in DOMAIN lv.path : lv.path[i] = "QUAD"
  BY <1>1, <1>3
<1> HIDE DEF lv
<1>5. CanSplit(lv, s)
  BY <1>4, FiveSplits DEF CanSplit, Fits
<1> QED
  BY <1>5 DEF lv

(* Halves and quarters of a side are sides.                                *)
LEMMA Halving ==
  ASSUME NEW w \in Sides
  PROVE  /\ w \in Nat /\ w >= 1
         /\ w >= 2 => w \div 2 \in Sides /\ w = 2 * (w \div 2)
         /\ w >= 4 => /\ w \div 2 \in Sides /\ w \div 4 \in Sides
                      /\ w = 4 * (w \div 4) /\ w \div 2 = 2 * (w \div 4)
<1>1. \/ w = 1 \/ w = 2 \/ w = 4 \/ w = 8 \/ w = 16 \/ w = 32 \/ w = 64 \/ w = 128
  BY DEF Sides
<1> QED
  BY <1>1 DEF Sides

(* A quad split.                                                           *)
LEMMA QuadParts ==
  ASSUME NEW a \in Areas, Fits(a, "QUAD")
  PROVE  LET p == Parts(a, "QUAD")
         IN /\ DOMAIN p = 1 .. 4 /\ Len(p) = 4
            /\ \A k \in 1 .. 4 : p[k] \in Areas /\ Within(p[k], a) /\ (k = 1 <=> SameCorner(p[k], a))
            /\ \A k, l \in 1 .. 4 : k < l => Apart(p[k], p[l])
<1>1. PICK x \in Nat, y \in Nat, w \in Sides, h \in Sides : a = Area(x, y, w, h)
  BY DEF Areas, Area
<1>2. a.x = x /\ a.y = y /\ a.w = w /\ a.h = h /\ w = h /\ w >= 2
  BY <1>1 DEF Area, Fits
<1>3. PICK n \in Sides : w \div 2 = n /\ h \div 2 = n /\ w = 2 * n /\ h = 2 * n /\ n \in Nat /\ n >= 1
  BY <1>2, Halving
<1>4. Parts(a, "QUAD") = <<Area(x, y, n, n), Area(x + n, y, n, n), Area(x, y + n, n, n), Area(x + n, y + n, n, n)>>
  BY <1>2, <1>3 DEF Parts
<1> DEFINE p == <<Area(x, y, n, n), Area(x + n, y, n, n), Area(x, y + n, n, n), Area(x + n, y + n, n, n)>>
<1>5. DOMAIN p = 1 .. 4 /\ Len(p) = 4
  OBVIOUS
<1>6. /\ p[1] = Area(x, y, n, n) /\ p[2] = Area(x + n, y, n, n)
      /\ p[3] = Area(x, y + n, n, n) /\ p[4] = Area(x + n, y + n, n, n)
  OBVIOUS
<1> HIDE DEF p
<1>7. ASSUME NEW k \in 1 .. 4
      PROVE  p[k] \in Areas /\ Within(p[k], a) /\ (k = 1 <=> SameCorner(p[k], a))
  <2>1. k = 1 \/ k = 2 \/ k = 3 \/ k = 4
    OBVIOUS
  <2>2. p[k] \in Areas
    BY <1>3, <1>6, <2>1 DEF Area, Areas
  <2>3. Within(p[k], a)
    BY <1>1, <1>3, <1>6, <2>1 DEF Area, Within
  <2>4. k = 1 <=> SameCorner(p[k], a)
    BY <1>1, <1>3, <1>6, <2>1 DEF Area, SameCorner
  <2> QED
    BY <2>2, <2>3, <2>4
<1>8. ASSUME NEW k \in 1 .. 4, NEW l \in 1 .. 4, k < l
      PROVE  Apart(p[k], p[l])
  <2>1. /\ k = 1 \/ k = 2 \/ k = 3
        /\ l = 2 \/ l = 3 \/ l = 4
    BY <1>8
  <2> QED
    BY <1>3, <1>6, <1>8, <2>1 DEF Area, Apart
<1>9. Parts(a, "QUAD") = p
  BY <1>4 DEF p
<1> QED
  BY <1>5, <1>7, <1>8, <1>9

(* A split in two or three parts, sideways: the columns of an area.        *)
Columns(a, p) ==
  /\ DOMAIN p = 1 .. Len(p) /\ Len(p) \in 2 .. 3
  /\ \A k \in DOMAIN p :
       /\ p[k] \in Areas /\ Within(p[k], a) /\ (k = 1 <=> SameCorner(p[k], a))
       /\ \A l \in DOMAIN p : k < l => Apart(p[k], p[l])

(* A horizontal or vertical split in two.                                  *)
LEMMA BinaryParts ==
  ASSUME NEW a \in Areas, NEW s \in {"HORZ", "VERT"}, Fits(a, s)
  PROVE  Columns(a, Parts(a, s))
<1>1. PICK x \in Nat, y \in Nat, w \in Sides, h \in Sides : a = Area(x, y, w, h)
  BY DEF Areas, Area
<1>2. a.x = x /\ a.y = y /\ a.w = w /\ a.h = h
  BY <1>1 DEF Area
<1>3. w \in Nat /\ w >= 1 /\ h \in Nat /\ h >= 1
  BY Halving
<1>4. CASE s = "HORZ"
  <2>1. PICK n \in Sides : h \div 2 = n /\ h = 2 * n /\ n \in Nat /\ n >= 1
    BY <1>2, <1>4, Halving DEF Fits
  <2> DEFINE p == <<Area(x, y, w, n), Area(x, y + n, w, n)>>
  <2>2. Parts(a, s) = p
    BY <1>2, <1>4, <2>1 DEF Parts
  <2>3. DOMAIN p = 1 .. 2 /\ Len(p) = 2 /\ p[1] = Area(x, y, w, n) /\ p[2] = Area(x, y + n, w, n)
    OBVIOUS
  <2> HIDE DEF p
  <2>4. \A k \in 1 .. 2 : k = 1 \/ k = 2
    OBVIOUS
  <2>5. \A k \in 1 .. 2 : p[k] \in Areas
    BY <2>1, <2>3, <2>4 DEF Area, Areas
  <2>6. \A k \in 1 .. 2 : Within(p[k], a) /\ (k = 1 <=> SameCorner(p[k], a))
    BY <1>1, <1>3, <2>1, <2>3, <2>4 DEF Area, Within, SameCorner
  <2>7. Apart(p[1], p[2])
    BY <1>3, <2>1, <2>3 DEF Area, Apart
  <2>8. \A k, l \in 1 .. 2 : k < l => k = 1 /\ l = 2
    OBVIOUS
  <2> QED
    BY <2>2, <2>3, <2>5, <2>6, <2>7, <2>8 DEF Columns
<1>5. CASE s = "VERT"
  <2>1. PICK n \in Sides : w \div 2 = n /\ w = 2 * n /\ n \in Nat /\ n >= 1
    BY <1>2, <1>5, Halving DEF Fits
  <2> DEFINE p == <<Area(x, y, n, h), Area(x + n, y, n, h)>>
  <2>2. Parts(a, s) = p
    BY <1>2, <1>5, <2>1 DEF Parts
  <2>3. DOMAIN p = 1 .. 2 /\ Len(p) = 2 /\ p[1] = Area(x, y, n, h) /\ p[2] = Area(x + n, y, n, h)
    OBVIOUS
  <2> HIDE DEF p
  <2>4. \A k \in 1 .. 2 : k = 1 \/ k = 2
    OBVIOUS
  <2>5. \A k \in 1 .. 2 : p[k] \in Areas
    BY <2>1, <2>3, <2>4 DEF Area, Areas
  <2>6. \A k \in 1 .. 2 : Within(p[k], a) /\ (k = 1 <=> SameCorner(p[k], a))
    BY <1>1, <1>3, <2>1, <2>3, <2>4 DEF Area, Within, SameCorner
  <2>7. Apart(p[1], p[2])
    BY <1>3, <2>1, <2>3 DEF Area, Apart
  <2>8. \A k, l \in 1 .. 2 : k < l => k = 1 /\ l = 2
    OBVIOUS
  <2> QED
    BY <2>2, <2>3, <2>5, <2>6, <2>7, <2>8 DEF Columns
<1> QED
  BY <1>4, <1>5

(* A horizontal or vertical split in three.                                *)
LEMMA TernaryParts ==
  ASSUME NEW a \in Areas, NEW s \in {"TRIH", "TRIV"}, Fits(a, s)
  PROVE  Columns(a, Parts(a, s))
<1>1. PICK x \in Nat, y \in Nat, w \in Sides, h \in Sides : a = Area(x, y, w, h)
  BY DEF Areas, Area
<1>2. a.x = x /\ a.y = y /\ a.w = w /\ a.h = h
  BY <1>1 DEF Area
<1>3. w \in Nat /\ w >= 1 /\ h \in Nat /\ h >= 1
  BY Halving
<1>4. CASE s = "TRIH"
  <2>1. PICK n \in Sides : h \div 4 = n /\ h = 4 * n /\ h \div 2 = 2 * n /\ 2 * n \in Sides /\ n \in Nat /\ n >= 1
    BY <1>2, <1>4, Halving DEF Fits
  <2> DEFINE p == <<Area(x, y, w, n), Area(x, y + n, w, 2 * n), Area(x, y + 3 * n, w, n)>>
  <2>2. Parts(a, s) = p
    BY <1>2, <1>4, <2>1 DEF Parts
  <2>3. /\ DOMAIN p = 1 .. 3 /\ Len(p) = 3
        /\ p[1] = Area(x, y, w, n) /\ p[2] = Area(x, y + n, w, 2 * n) /\ p[3] = Area(x, y + 3 * n, w, n)
    OBVIOUS
  <2> HIDE DEF p
  <2>4. \A k \in 1 .. 3 : k = 1 \/ k = 2 \/ k = 3
    OBVIOUS
  <2>5. \A k \in 1 .. 3 : p[k] \in Areas
    BY <2>1, <2>3, <2>4 DEF Area, Areas
  <2>6. \A k \in 1 .. 3 : Within(p[k], a) /\ (k = 1 <=> SameCorner(p[k], a))
    BY <1>1, <1>3, <2>1, <2>3, <2>4 DEF Area, Within, SameCorner
  <2>7. Apart(p[1], p[2]) /\ Apart(p[1], p[3]) /\ Apart(p[2], p[3])
    BY <1>3, <2>1, <2>3 DEF Area, Apart
  <2>8. \A k, l \in 1 .. 3 : k < l => (k = 1 /\ l = 2) \/ (k = 1 /\ l = 3) \/ (k = 2 /\ l = 3)
    OBVIOUS
  <2> QED
    BY <2>2, <2>3, <2>5, <2>6, <2>7, <2>8 DEF Columns
<1>5. CASE s = "TRIV"
  <2>1. PICK n \in Sides : w \div 4 = n /\ w = 4 * n /\ w \div 2 = 2 * n /\ 2 * n \in Sides /\ n \in Nat /\ n >= 1
    BY <1>2, <1>5, Halving DEF Fits
  <2> DEFINE p == <<Area(x, y, n, h), Area(x + n, y, 2 * n, h), Area(x + 3 * n, y, n, h)>>
  <2>2. Parts(a, s) = p
    BY <1>2, <1>5, <2>1 DEF Parts
  <2>3. /\ DOMAIN p = 1 .. 3 /\ Len(p) = 3
        /\ p[1] = Area(x, y, n, h) /\ p[2] = Area(x + n, y, 2 * n, h) /\ p[3] = Area(x + 3 * n, y, n, h)
    OBVIOUS
  <2> HIDE DEF p
  <2>4. \A k \in 1 .. 3 : k = 1 \/ k = 2 \/ k = 3
    OBVIOUS
  <2>5. \A k \in 1 .. 3 : p[k] \in Areas
    BY <2>1, <2>3, <2>4 DEF Area, Areas
  <2>6. \A k \in 1 .. 3 : Within(p[k], a) /\ (k = 1 <=> SameCorner(p[k], a))
    BY <1>1, <1>3, <2>1, <2>3, <2>4 DEF Area, Within, SameCorner
  <2>7. Apart(p[1], p[2]) /\ Apart(p[1], p[3]) /\ Apart(p[2], p[3])
    BY <1>3, <2>1, <2>3 DEF Area, Apart
  <2>8. \A k, l \in 1 .. 3 : k < l => (k = 1 /\ l = 2) \/ (k = 1 /\ l = 3) \/ (k = 2 /\ l = 3)
    OBVIOUS
  <2> QED
    BY <2>2, <2>3, <2>5, <2>6, <2>7, <2>8 DEF Columns
<1> QED
  BY <1>4, <1>5

(* The parts of a split lie in the area, the first at its corner and no    *)
(* other, and apart from each other.                                       *)
LEMMA PartsLie ==
  ASSUME NEW a \in Areas, NEW s \in Splits, Fits(a, s)
  PROVE  LET p == Parts(a, s)
         IN /\ DOMAIN p = 1 .. Len(p) /\ Len(p) \in 2 .. 4
            /\ \A k \in DOMAIN p : p[k] \in Areas /\ Within(p[k], a) /\ (k = 1 <=> SameCorner(p[k], a))
            /\ \A k, l \in DOMAIN p : k < l => Apart(p[k], p[l])
<1>1. CASE s = "QUAD"
  BY <1>1, QuadParts
<1>2. CASE s \in {"HORZ", "VERT"}
  BY <1>2, BinaryParts DEF Columns
<1>3. CASE s \in {"TRIH", "TRIV"}
  BY <1>3, TernaryParts DEF Columns
<1> QED
  BY <1>1, <1>2, <1>3, FiveSplits

(* No area is in two that are apart.                                       *)
LEMMA NotInBoth ==
  ASSUME NEW a \in Areas, NEW b \in Areas, NEW c \in Areas, Within(c, a), Within(c, b)
  PROVE  ~Apart(a, b)
<1>1. /\ c.x \in Nat /\ c.y \in Nat /\ c.w \in Sides /\ c.h \in Sides
      /\ a.x \in Nat /\ a.y \in Nat /\ a.w \in Sides /\ a.h \in Sides
      /\ b.x \in Nat /\ b.y \in Nat /\ b.w \in Sides /\ b.h \in Sides
  BY DEF Areas
<1>2. /\ c.w \in Nat /\ c.w >= 1 /\ c.h \in Nat /\ c.h >= 1
      /\ a.w \in Nat /\ a.h \in Nat /\ b.w \in Nat /\ b.h \in Nat
  BY <1>1, Halving
<1> QED
  BY <1>1, <1>2 DEF Within, Apart

(* Areas nest.                                                             *)
LEMMA WithinWithin ==
  ASSUME NEW a \in Areas, NEW b \in Areas, NEW c \in Areas, Within(a, b), Within(b, c)
  PROVE  Within(a, c) /\ (SameCorner(a, c) <=> SameCorner(a, b) /\ SameCorner(b, c))
<1>1. /\ c.x \in Nat /\ c.y \in Nat /\ c.w \in Nat /\ c.h \in Nat
      /\ a.x \in Nat /\ a.y \in Nat /\ a.w \in Nat /\ a.h \in Nat
      /\ b.x \in Nat /\ b.y \in Nat /\ b.w \in Nat /\ b.h \in Nat
  BY Halving DEF Areas
<1> QED
  BY <1>1 DEF Within, SameCorner

(* An area is within itself.                                               *)
LEMMA WithinItself ==
  ASSUME NEW a \in Areas
  PROVE  Within(a, a) /\ SameCorner(a, a)
<1>1. a.x \in Nat /\ a.y \in Nat /\ a.w \in Nat /\ a.h \in Nat
  BY Halving DEF Areas
<1> QED
  BY <1>1 DEF Within, SameCorner

----------------------------------------------------------------------------
(* The history.                                                            *)

(* SelectInSeq finds a place in the sequence, or none.                     *)
LEMMA FoundInSeq ==
  ASSUME NEW lut \in Seq(Nat), NEW mi
  PROVE  SelectInSeq(lut, LAMBDA m : m = mi) \in 0 .. Len(lut)
<1> DEFINE I == {i \in 1 .. Len(lut) : lut[i] = mi}
<1>1. CASE I = {}
  BY <1>1 DEF SelectInSeq
<1>2. CASE I # {}
  <2>1. I \in SUBSET Nat
    OBVIOUS
  <2>2. PICK n \in I : \A m \in I : n <= m
    BY <1>2, <2>1, Least
  <2>3. Min(I) \in I
    BY <2>2 DEF Min
  <2>4. SelectInSeq(lut, LAMBDA m : m = mi) = Min(I)
    BY <1>2 DEF SelectInSeq
  <2> QED
    BY <2>3, <2>4
<1> QED
  BY <1>1, <1>2

(* Two sequences after each other.                                         *)
LEMMA Joined ==
  ASSUME NEW S, NEW p \in Seq(S), NEW q \in Seq(S)
  PROVE  /\ p \o q \in Seq(S) /\ Len(p \o q) = Len(p) + Len(q)
         /\ \A n \in 1 .. Len(p) : (p \o q)[n] = p[n]
         /\ \A n \in 1 .. Len(q) : (p \o q)[Len(p) + n] = q[n]
  OBVIOUS

(* A history with one motion less.                                         *)
LEMMA OneLess ==
  ASSUME NEW lut \in Seq(Nat), NEW i \in 1 .. Len(lut)
  PROVE  RemoveAt(lut, i) \in Seq(Nat) /\ Len(RemoveAt(lut, i)) = Len(lut) - 1
<1>1. Len(lut) \in Nat /\ i \in Nat /\ 1 <= i /\ i <= Len(lut)
  OBVIOUS
<1>2. SubSeq(lut, 1, i - 1) \in Seq(Nat) /\ Len(SubSeq(lut, 1, i - 1)) = i - 1
  <2>1. \A k \in 1 .. i - 1 : lut[k] \in Nat
    BY <1>1
  <2> QED
    BY <1>1, <2>1
<1>3. SubSeq(lut, i + 1, Len(lut)) \in Seq(Nat) /\ Len(SubSeq(lut, i + 1, Len(lut))) = Len(lut) - i
  <2>1. \A k \in i + 1 .. Len(lut) : lut[k] \in Nat
    BY <1>1
  <2> QED
    BY <1>1, <2>1
<1> DEFINE p == SubSeq(lut, 1, i - 1)
           q == SubSeq(lut, i + 1, Len(lut))
<1>4. RemoveAt(lut, i) = p \o q
  BY DEF RemoveAt
<1>5. p \in Seq(Nat) /\ q \in Seq(Nat) /\ Len(p) = i - 1 /\ Len(q) = Len(lut) - i
  BY <1>2, <1>3
<1> HIDE DEF p, q
<1>6. p \o q \in Seq(Nat) /\ Len(p \o q) = Len(p) + Len(q)
  BY <1>5, Joined
<1> QED
  BY <1>1, <1>4, <1>5, <1>6

(* addMiToLut keeps the history within its room.                           *)
LEMMA LutKept ==
  ASSUME NEW lut \in Luts, NEW mi \in Nat
  PROVE  AddMiToLut(lut, mi) \in Luts
<1> DEFINE same == SelectInSeq(lut, LAMBDA m : m = mi)
<1>1. lut \in Seq(Nat) /\ Len(lut) \in Nat /\ Len(lut) <= MAX_NUM_HMVP_CANDS
  BY DEF Luts
<1>2. MAX_NUM_HMVP_CANDS \in Nat /\ MAX_NUM_HMVP_CANDS >= 1
  BY CandsAssumption
<1>3. same \in 0 .. Len(lut)
  BY <1>1, FoundInSeq DEF SelectInSeq
<1> HIDE DEF same
<1>4. CASE same # 0
  <2>1. RemoveAt(lut, same) \in Seq(Nat) /\ Len(RemoveAt(lut, same)) = Len(lut) - 1
    BY <1>1, <1>3, <1>4, OneLess
  <2>2. /\ Append(RemoveAt(lut, same), mi) \in Seq(Nat)
        /\ Len(Append(RemoveAt(lut, same), mi)) = Len(lut)
    BY <1>1, <2>1
  <2>3. AddMiToLut(lut, mi) = Append(RemoveAt(lut, same), mi)
    BY <1>4 DEF AddMiToLut, same
  <2> QED
    BY <1>1, <2>2, <2>3 DEF Luts
<1>5. CASE same = 0
  <2> DEFINE kept == IF Len(lut) = MAX_NUM_HMVP_CANDS THEN Tail(lut) ELSE lut
  <2>1. kept \in Seq(Nat) /\ Len(kept) + 1 <= MAX_NUM_HMVP_CANDS
    <3>1. CASE Len(lut) = MAX_NUM_HMVP_CANDS
      <4>1. Tail(lut) \in Seq(Nat) /\ Len(Tail(lut)) = Len(lut) - 1
        <5>1. lut # <<>>
          BY <1>1, <1>2, <3>1
        <5> QED
          BY <1>1, <5>1
      <4> QED
        BY <1>1, <3>1, <4>1
    <3>2. CASE Len(lut) # MAX_NUM_HMVP_CANDS
      BY <1>1, <1>2, <3>2
    <3> QED
      BY <3>1, <3>2
  <2>2. AddMiToLut(lut, mi) = Append(kept, mi)
    BY <1>5 DEF AddMiToLut, same
  <2> HIDE DEF kept
  <2>3. Append(kept, mi) \in Seq(Nat) /\ Len(Append(kept, mi)) = Len(kept) + 1
    BY <2>1
  <2> QED
    BY <2>1, <2>2, <2>3 DEF Luts
<1> QED
  BY <1>4, <1>5

(* The motion of a CU is a motion.                                         *)
LEMMA MotionType ==
  ASSUME NEW cu, cu.arg \in Nat, cu.mode = "merge" => cu.arg # 0, NEW lut \in Luts
  PROVE  DeriveMotion(cu, lut) \in Nat
<1>1. lut \in Seq(Nat) /\ Len(lut) \in Nat
  BY DEF Luts
<1>2. cu.mode = "merge" /\ cu.arg <= Len(lut) => lut[Len(lut) + 1 - cu.arg] \in Nat
  <2>1. cu.mode = "merge" /\ cu.arg <= Len(lut) => Len(lut) + 1 - cu.arg \in 1 .. Len(lut)
    BY <1>1
  <2> QED
    BY <1>1, <2>1
<1>3. CASE cu.mode = "new"
  BY <1>3 DEF DeriveMotion
<1>4. CASE cu.mode = "merge"
  BY <1>2, <1>4 DEF DeriveMotion, ZeroMotion
<1>5. CASE cu.mode # "new" /\ cu.mode # "merge"
  BY <1>5 DEF DeriveMotion, ZeroMotion
<1> QED
  BY <1>3, <1>4, <1>5

(* The motion is a matter of the mode and of what it takes.                *)
LEMMA MotionOf ==
  ASSUME NEW cu, NEW cv, cu.mode = cv.mode, cu.arg = cv.arg, NEW lut
  PROVE  DeriveMotion(cu, lut) = DeriveMotion(cv, lut)
  BY DEF DeriveMotion

(* What a CU leaves is a history.                                          *)
LEMMA SavedType ==
  ASSUME NEW cu \in Cus, NEW lut \in Luts
  PROVE  SaveMotionInHMVP(lut, cu) \in Luts
  BY LutKept DEF SaveMotionInHMVP, Cus

----------------------------------------------------------------------------
(* The decoder's pass.                                                     *)

(* No CUs leave the history as it is.                                      *)
LEMMA DecodesNone ==
  ASSUME NEW lut \in Luts
  PROVE  Decodes(NoCoding(lut), lut)
<1>1. NoCoding(lut).cus = <<>> /\ NoCoding(lut).lut = lut /\ Len(<<>>) = 0
  BY DEF NoCoding
<1> DEFINE luts == [n \in 0 .. 0 |-> lut]
<1>2. luts \in [0 .. 0 -> Luts] /\ luts[0] = lut
  OBVIOUS
<1> HIDE DEF luts
<1>3. \A n \in 1 .. 0 : FALSE
  OBVIOUS
<1> QED
  BY <1>1, <1>2, <1>3 DEF Decodes

(* One CU.                                                                 *)
LEMMA DecodesOne ==
  ASSUME NEW cu \in Cus, NEW lut \in Luts, cu.motion = DeriveMotion(cu, lut),
         NEW cs, cs.cus \in Seq(Cus), Len(cs.cus) = 1, cs.cus[1] = cu, cs.lut = SaveMotionInHMVP(lut, cu)
  PROVE  Decodes(cs, lut)
<1> DEFINE luts == [n \in 0 .. 1 |-> IF n = 0 THEN lut ELSE SaveMotionInHMVP(lut, cu)]
<1>1. luts \in [0 .. 1 -> Luts] /\ luts[0] = lut /\ luts[1] = SaveMotionInHMVP(lut, cu)
  BY SavedType
<1> HIDE DEF luts
<1>2. \A n \in 1 .. 1 : cs.cus[n].motion = DeriveMotion(cs.cus[n], luts[n - 1])
                        /\ luts[n] = SaveMotionInHMVP(luts[n - 1], cs.cus[n])
  <2>1. \A n \in 1 .. 1 : n = 1 /\ n - 1 = 0
    OBVIOUS
  <2> QED
    BY <1>1, <2>1
<1>3. luts[Len(cs.cus)] = cs.lut
  BY <1>1
<1> QED
  BY <1>1, <1>2, <1>3 DEF Decodes

(* One pass after the other.                                               *)
LEMMA DecodesBoth ==
  ASSUME NEW cs \in Codings, NEW sub \in Codings, NEW lut \in Luts,
         Decodes(cs, lut), Decodes(sub, cs.lut)
  PROVE  Decodes([lut |-> sub.lut, cus |-> cs.cus \o sub.cus], lut)
<1>1. PICK f \in [0 .. Len(cs.cus) -> Luts] :
        /\ f[0] = lut /\ f[Len(cs.cus)] = cs.lut
        /\ \A n \in 1 .. Len(cs.cus) :
             /\ cs.cus[n].motion = DeriveMotion(cs.cus[n], f[n - 1])
             /\ f[n] = SaveMotionInHMVP(f[n - 1], cs.cus[n])
  BY DEF Decodes
<1>2. PICK g \in [0 .. Len(sub.cus) -> Luts] :
        /\ g[0] = cs.lut /\ g[Len(sub.cus)] = sub.lut
        /\ \A n \in 1 .. Len(sub.cus) :
             /\ sub.cus[n].motion = DeriveMotion(sub.cus[n], g[n - 1])
             /\ g[n] = SaveMotionInHMVP(g[n - 1], sub.cus[n])
  BY DEF Decodes
<1>3. cs.cus \in Seq(Cus) /\ sub.cus \in Seq(Cus)
  BY DEF Codings
<1>4. PICK k \in Nat, m \in Nat : k = Len(cs.cus) /\ m = Len(sub.cus)
  BY <1>3
<1> DEFINE all == cs.cus \o sub.cus
<1>5. /\ all \in Seq(Cus) /\ Len(all) = k + m
      /\ \A n \in 1 .. k : all[n] = cs.cus[n]
      /\ \A n \in 1 .. m : all[k + n] = sub.cus[n]
  <2>1. all \in Seq(Cus) /\ Len(all) = k + m
    BY <1>3, <1>4
  <2>2. ASSUME NEW n \in 1 .. k
        PROVE  all[n] = cs.cus[n]
    BY <1>3, <1>4, SMTT(30)
  <2>3. ASSUME NEW n \in 1 .. m
        PROVE  all[k + n] = sub.cus[n]
    BY <1>3, <1>4, SMTT(30)
  <2> QED
    BY <2>1, <2>2, <2>3
<1> HIDE DEF all
<1> DEFINE luts == [n \in 0 .. k + m |-> IF n <= k THEN f[n] ELSE g[n - k]]
<1>0. f \in [0 .. k -> Luts] /\ g \in [0 .. m -> Luts] /\ f[k] = cs.lut /\ g[m] = sub.lut
  BY <1>1, <1>2, <1>4
<1>6. luts \in [0 .. k + m -> Luts]
  <2>1. ASSUME NEW n \in 0 .. k + m
        PROVE  (IF n <= k THEN f[n] ELSE g[n - k]) \in Luts
    <3>1. CASE n <= k
      <4>1. n \in 0 .. k
        BY <3>1
      <4> QED
        BY <1>0, <3>1, <4>1
    <3>2. CASE ~(n <= k)
      <4>1. n - k \in 0 .. m
        BY <3>2
      <4> QED
        BY <1>0, <3>2, <4>1
    <3> QED
      BY <3>1, <3>2
  <2> QED
    BY <2>1
<1>7. /\ \A n \in 0 .. k : luts[n] = f[n]
      /\ \A n \in 0 .. m : luts[k + n] = g[n]
  <2>1. ASSUME NEW n \in 0 .. k
        PROVE  luts[n] = f[n]
    <3>1. n \in 0 .. k + m /\ n <= k
      OBVIOUS
    <3> QED
      BY <3>1
  <2>2. ASSUME NEW n \in 0 .. m
        PROVE  luts[k + n] = g[n]
    <3>1. k + n \in 0 .. k + m
      OBVIOUS
    <3>2. CASE n = 0
      <4>1. luts[k + n] = f[k]
        BY <3>1, <3>2
      <4> QED
        BY <1>0, <1>2, <3>2, <4>1
    <3>3. CASE n # 0
      <4>1. ~(k + n <= k) /\ (k + n) - k = n
        BY <3>3
      <4> QED
        BY <3>1, <4>1
    <3> QED
      BY <3>2, <3>3
  <2> QED
    BY <2>1, <2>2
<1> HIDE DEF luts
<1>8. luts[0] = lut /\ luts[k + m] = sub.lut
  <2>1. 0 \in 0 .. k /\ m \in 0 .. m
    OBVIOUS
  <2> QED
    BY <1>0, <1>1, <1>7, <2>1
<1>9. ASSUME NEW n \in 1 .. k + m
      PROVE  /\ all[n].motion = DeriveMotion(all[n], luts[n - 1])
             /\ luts[n] = SaveMotionInHMVP(luts[n - 1], all[n])
  <2>1. CASE n <= k
    <3>1. n \in 1 .. k /\ n \in 0 .. k /\ n - 1 \in 0 .. k
      BY <2>1
    <3> QED
      BY <1>1, <1>4, <1>5, <1>7, <3>1
  <2>2. CASE ~(n <= k)
    <3>1. PICK j \in 1 .. m : n = k + j
      <4>1. n - k \in 1 .. m /\ n = k + (n - k)
        BY <2>2
      <4> QED
        BY <4>1
    <3>2. j \in 0 .. m /\ j - 1 \in 0 .. m /\ n - 1 = k + (j - 1)
      BY <3>1
    <3>3. all[n] = sub.cus[j] /\ luts[n] = g[j] /\ luts[n - 1] = g[j - 1]
      BY <1>5, <1>7, <3>1, <3>2
    <3> QED
      BY <1>2, <1>4, <3>3
  <2> QED
    BY <2>1, <2>2
<1> DEFINE both == [lut |-> sub.lut, cus |-> all]
<1>10. both.lut = sub.lut /\ both.cus = all
  OBVIOUS
<1> HIDE DEF both
<1>11. Len(both.cus) = k + m
  BY <1>5, <1>10
<1>12. Decodes(both, lut)
  BY <1>6, <1>8, <1>9, <1>10, <1>11, ZenonT(40) DEF Decodes
<1> QED
  BY <1>12 DEF both, all

\* what follows a CU in the decoder's pass
After(before, cu) ==
  LET coded == [cu EXCEPT !.motion = DeriveMotion(cu, before.lut)]
  IN [lut |-> SaveMotionInHMVP(before.lut, coded), motions |-> Append(before.motions, coded.motion)]

IsPass(d, cus, lut) ==
  d = [n \in 0 .. Len(cus) |->
         IF n = 0 THEN [lut |-> lut, motions |-> <<>>] ELSE After(d[n - 1], cus[n])]

(* The decoder's recursion, as a choice.                                   *)
LEMMA DecodeIs ==
  ASSUME NEW cus, NEW lut
  PROVE  Decode(cus, lut) = (CHOOSE d : IsPass(d, cus, lut))[Len(cus)]
  BY DEF Decode, IsPass, After

(* A CU whose motion the decoder derives as well.                          *)
LEMMA AfterSame ==
  ASSUME NEW cu \in Cus, NEW before, cu.motion = DeriveMotion(cu, before.lut)
  PROVE  After(before, cu) = [lut |-> SaveMotionInHMVP(before.lut, cu),
                              motions |-> Append(before.motions, cu.motion)]
<1> DEFINE coded == [cu EXCEPT !.motion = DeriveMotion(cu, before.lut)]
<1>1. coded.motion = cu.motion /\ coded.mode = cu.mode
  BY DEF Cus
<1>2. SaveMotionInHMVP(before.lut, coded) = SaveMotionInHMVP(before.lut, cu)
  BY <1>1 DEF SaveMotionInHMVP
<1> QED
  BY <1>1, <1>2 DEF After

(* Where the motions agree, the pass that Decodes describes is the         *)
(* decoder's.                                                              *)
LEMMA PassOf ==
  ASSUME NEW cus \in Seq(Cus), NEW lut \in Luts, NEW luts \in [0 .. Len(cus) -> Luts],
         luts[0] = lut,
         \A n \in 1 .. Len(cus) :
           /\ cus[n].motion = DeriveMotion(cus[n], luts[n - 1])
           /\ luts[n] = SaveMotionInHMVP(luts[n - 1], cus[n])
  PROVE  IsPass([n \in 0 .. Len(cus) |-> [lut |-> luts[n], motions |-> [i \in 1 .. n |-> cus[i].motion]]],
                cus, lut)
<1> DEFINE Motions(n) == [i \in 1 .. n |-> cus[i].motion]
           w == [n \in 0 .. Len(cus) |-> [lut |-> luts[n], motions |-> Motions(n)]]
<1>1. PICK len \in Nat : len = Len(cus)
  OBVIOUS
<1>2. \A n \in 0 .. len : w[n] = [lut |-> luts[n], motions |-> Motions(n)]
  BY <1>1
<1>3. ASSUME NEW n \in 1 .. len
      PROVE  Motions(n) = Append(Motions(n - 1), cus[n].motion)
  <2>1. \A i \in 1 .. len : cus[i].motion \in Nat
    <3>1. \A i \in 1 .. len : cus[i] \in Cus
      BY <1>1
    <3>2. \A cu \in Cus : cu.motion \in Nat
      BY DEF Cus
    <3> QED
      BY <3>1, <3>2
  <2>2. Motions(n - 1) \in Seq(Nat) /\ Len(Motions(n - 1)) = n - 1
    <3>1. \A i \in 1 .. n - 1 : cus[i].motion \in Nat
      BY <2>1
    <3>2. n - 1 \in Nat
      OBVIOUS
    <3> QED
      BY <3>1, <3>2
  <2>3. Motions(n) \in Seq(Nat) /\ Len(Motions(n)) = n
    <3>1. \A i \in 1 .. n : cus[i].motion \in Nat
      BY <2>1
    <3>2. n \in Nat
      OBVIOUS
    <3> QED
      BY <3>1, <3>2
  <2> QED
    BY <2>1, <2>2, <2>3
<1>4. ASSUME NEW n \in 0 .. len
      PROVE  w[n] = IF n = 0 THEN [lut |-> lut, motions |-> <<>>] ELSE After(w[n - 1], cus[n])
  <2>1. CASE n = 0
    <3>1. Motions(0) = <<>>
      OBVIOUS
    <3> QED
      BY <1>2, <2>1, <3>1
  <2>2. CASE n # 0
    <3>1. n \in 1 .. len /\ n - 1 \in 0 .. len
      BY <2>2
    <3> HIDE DEF w, Motions
    <3>2. w[n - 1].lut = luts[n - 1] /\ w[n - 1].motions = Motions(n - 1)
      <4>1. w[n - 1] = [lut |-> luts[n - 1], motions |-> Motions(n - 1)]
        BY <1>2, <3>1, Zenon
      <4> QED
        BY <4>1
    <3>3. cus[n] \in Cus /\ cus[n].motion = DeriveMotion(cus[n], luts[n - 1])
          /\ luts[n] = SaveMotionInHMVP(luts[n - 1], cus[n])
      BY <1>1, <3>1
    <3>4. After(w[n - 1], cus[n]) = [lut |-> luts[n], motions |-> Append(Motions(n - 1), cus[n].motion)]
      BY <3>2, <3>3, AfterSame, ZenonT(40)
    <3> QED
      BY <1>2, <1>3, <2>2, <3>1, <3>4
  <2> QED
    BY <2>1, <2>2
<1>5. w = [n \in 0 .. len |-> IF n = 0 THEN [lut |-> lut, motions |-> <<>>] ELSE After(w[n - 1], cus[n])]
  <2>1. w = [n \in 0 .. len |-> w[n]]
    BY <1>1
  <2> HIDE DEF w
  <2> QED
    BY <1>4, <2>1
<1> HIDE DEF w
<1>6. IsPass(w, cus, lut)
  BY <1>1, <1>5 DEF IsPass
<1> QED
  BY <1>6 DEF w

(* There is one pass.                                                      *)
LEMMA OnePass ==
  ASSUME NEW cus \in Seq(Cus), NEW lut, NEW d, NEW e, IsPass(d, cus, lut), IsPass(e, cus, lut)
  PROVE  d[Len(cus)] = e[Len(cus)]
<1>1. PICK len \in Nat : len = Len(cus)
  OBVIOUS
<1>2. \A n \in 0 .. len :
        /\ d[n] = IF n = 0 THEN [lut |-> lut, motions |-> <<>>] ELSE After(d[n - 1], cus[n])
        /\ e[n] = IF n = 0 THEN [lut |-> lut, motions |-> <<>>] ELSE After(e[n - 1], cus[n])
  BY <1>1 DEF IsPass
<1> DEFINE S == {n \in Nat : n <= len => d[n] = e[n]}
<1>3. 0 \in S
  BY <1>2
<1>4. ASSUME NEW n \in S
      PROVE  n + 1 \in S
  <2>1. CASE n + 1 <= len
    <3>1. n \in Nat /\ n + 1 \in 0 .. len /\ n + 1 # 0 /\ (n + 1) - 1 = n /\ d[n] = e[n]
      BY <2>1
    <3>2. d[n + 1] = After(d[n], cus[n + 1]) /\ e[n + 1] = After(e[n], cus[n + 1])
      BY <1>2, <3>1
    <3> QED
      BY <3>1, <3>2
  <2>2. CASE ~(n + 1 <= len)
    BY <2>2
  <2> QED
    BY <2>1, <2>2
<1>5. S = Nat
  <2> HIDE DEF S
  <2>1. S \in SUBSET Nat
    BY DEF S
  <2> QED
    BY <1>3, <1>4, <2>1, Induction
<1>6. len \in S /\ len <= len
  BY <1>5
<1> QED
  BY <1>1, <1>6

(* Where the motions agree, the decoder finds them, and the same history.  *)
LEMMA DecodeAgrees ==
  ASSUME NEW cs \in Codings, NEW lut \in Luts, Decodes(cs, lut)
  PROVE  LET decoded == Decode(cs.cus, lut)
         IN /\ decoded.motions = [i \in DOMAIN cs.cus |-> cs.cus[i].motion]
            /\ decoded.lut = cs.lut
<1> DEFINE cus == cs.cus
<1>1. cus \in Seq(Cus) /\ DOMAIN cus = 1 .. Len(cus) /\ Len(cus) \in 0 .. Len(cus)
  BY DEF Codings
<1>2. PICK luts \in [0 .. Len(cus) -> Luts] :
        /\ luts[0] = lut /\ luts[Len(cus)] = cs.lut
        /\ \A n \in 1 .. Len(cus) :
             /\ cus[n].motion = DeriveMotion(cus[n], luts[n - 1])
             /\ luts[n] = SaveMotionInHMVP(luts[n - 1], cus[n])
  BY DEF Decodes
<1> HIDE DEF cus
<1> DEFINE w == [n \in 0 .. Len(cus) |-> [lut |-> luts[n], motions |-> [i \in 1 .. n |-> cus[i].motion]]]
<1>3. IsPass(w, cus, lut)
  BY <1>1, <1>2, PassOf
<1>4. w[Len(cus)] = [lut |-> cs.lut, motions |-> [i \in 1 .. Len(cus) |-> cus[i].motion]]
  BY <1>1, <1>2
<1> HIDE DEF w
<1>5. IsPass(CHOOSE d : IsPass(d, cus, lut), cus, lut)
  BY <1>3
<1>6. Decode(cus, lut) = w[Len(cus)]
  BY <1>1, <1>3, <1>5, OnePass, DecodeIs
<1>7. Decode(cus, lut).lut = cs.lut /\ Decode(cus, lut).motions = [i \in 1 .. Len(cus) |-> cus[i].motion]
  BY <1>4, <1>6
<1> QED
  BY <1>1, <1>7 DEF cus

----------------------------------------------------------------------------
(* Stacks.                                                                 *)

\* t has the first m levels of s, and lv above them
IsTop(t, s, m, lv) ==
  t \in Seq(Levels) /\ Len(t) = m + 1 /\ (\A i \in 1 .. m : t[i] = s[i]) /\ t[m + 1] = lv

\* and sub above that
IsTops(t, s, m, lv, sub) ==
  /\ t \in Seq(Levels) /\ Len(t) = m + 2 /\ (\A i \in 1 .. m : t[i] = s[i])
  /\ t[m + 1] = lv /\ t[m + 2] = sub

(* The level changes.                                                      *)
LEMMA Changed ==
  ASSUME NEW s \in Seq(Levels), Len(s) >= 1, NEW lv \in Levels
  PROVE  IsTop([s EXCEPT ![Len(s)] = lv], s, Len(s) - 1, lv)
<1>1. PICK n \in Nat : n = Len(s) /\ n >= 1
  OBVIOUS
<1> DEFINE t == [s EXCEPT ![n] = lv]
<1>2. t \in Seq(Levels) /\ Len(t) = n /\ t[n] = lv /\ \A i \in 1 .. n - 1 : t[i] = s[i]
  BY <1>1
<1> HIDE DEF t
<1>3. (n - 1) + 1 = n
  BY <1>1
<1>4. IsTop(t, s, n - 1, lv)
  BY <1>2, <1>3 DEF IsTop
<1> QED
  BY <1>1, <1>4 DEF t

(* The level changes and enters another.                                   *)
LEMMA Entered ==
  ASSUME NEW s \in Seq(Levels), Len(s) >= 1, NEW lv \in Levels, NEW sub \in Levels
  PROVE  IsTops(Append([s EXCEPT ![Len(s)] = lv], sub), s, Len(s) - 1, lv, sub)
<1>1. PICK n \in Nat : n = Len(s) /\ n >= 1
  OBVIOUS
<1> DEFINE u == [s EXCEPT ![n] = lv]
           t == Append(u, sub)
<1>2. u \in Seq(Levels) /\ Len(u) = n /\ u[n] = lv /\ \A i \in 1 .. n - 1 : u[i] = s[i]
  BY <1>1
<1>3. (n - 1) + 1 = n /\ (n - 1) + 2 = n + 1 /\ n \in 1 .. n /\ \A i \in 1 .. n - 1 : i \in 1 .. n
  BY <1>1
<1> HIDE DEF u
<1>4. t \in Seq(Levels) /\ Len(t) = n + 1 /\ t[n + 1] = sub /\ \A i \in 1 .. n : t[i] = u[i]
  BY <1>2
<1> HIDE DEF t
<1>5. IsTops(t, s, n - 1, lv, sub)
  BY <1>2, <1>3, <1>4 DEF IsTops
<1> QED
  BY <1>1, <1>5 DEF t, u

(* The first levels of a stack.                                            *)
LEMMA Lower ==
  ASSUME NEW s \in Seq(Levels), Len(s) >= 2
  PROVE  LET u == SubSeq(s, 1, Len(s) - 2)
         IN u \in Seq(Levels) /\ Len(u) = Len(s) - 2 /\ \A i \in 1 .. Len(s) - 2 : u[i] = s[i]
<1>1. PICK n \in Nat : n = Len(s) /\ n >= 2
  OBVIOUS
<1>2. \A k \in 1 .. n - 2 : s[k] \in Levels
  BY <1>1
<1> QED
  BY <1>1, <1>2

(* The level is left; the one above it changes.                            *)
LEMMA Left ==
  ASSUME NEW s \in Seq(Levels), Len(s) >= 2, NEW lv \in Levels
  PROVE  IsTop(Append(SubSeq(s, 1, Len(s) - 2), lv), s, Len(s) - 2, lv)
<1>1. PICK m \in Nat : m = Len(s) - 2
  <2>1. Len(s) - 2 \in Nat
    OBVIOUS
  <2> QED
    BY <2>1
<1> DEFINE u == SubSeq(s, 1, Len(s) - 2)
           t == Append(u, lv)
<1>2. u \in Seq(Levels) /\ Len(u) = m /\ \A i \in 1 .. m : u[i] = s[i]
  BY <1>1, Lower
<1> HIDE DEF u
<1>3. t \in Seq(Levels) /\ Len(t) = m + 1 /\ t[m + 1] = lv /\ \A i \in 1 .. m : t[i] = u[i]
  BY <1>2
<1> HIDE DEF t
<1>4. IsTop(t, s, m, lv)
  BY <1>2, <1>3 DEF IsTop
<1> QED
  BY <1>1, <1>4 DEF t, u

(* The level is left, and the one above it enters the next.                *)
LEMMA Moved ==
  ASSUME NEW s \in Seq(Levels), Len(s) >= 2, NEW lv \in Levels, NEW sub \in Levels
  PROVE  IsTops(SubSeq(s, 1, Len(s) - 2) \o <<lv, sub>>, s, Len(s) - 2, lv, sub)
<1>1. PICK m \in Nat : m = Len(s) - 2
  <2>1. Len(s) - 2 \in Nat
    OBVIOUS
  <2> QED
    BY <2>1
<1> DEFINE u == SubSeq(s, 1, Len(s) - 2)
           v == <<lv, sub>>
           t == u \o v
<1>2. u \in Seq(Levels) /\ Len(u) = m /\ \A i \in 1 .. m : u[i] = s[i]
  BY <1>1, Lower
<1>3. v \in Seq(Levels) /\ Len(v) = 2 /\ v[1] = lv /\ v[2] = sub
  OBVIOUS
<1> HIDE DEF u, v
<1>4. /\ t \in Seq(Levels) /\ Len(t) = m + 2
      /\ \A i \in 1 .. m : t[i] = u[i]
      /\ \A i \in 1 .. 2 : t[m + i] = v[i]
  <2>1. /\ t \in Seq(Levels) /\ Len(t) = Len(u) + Len(v)
        /\ \A i \in 1 .. Len(u) : t[i] = u[i]
        /\ \A i \in 1 .. Len(v) : t[Len(u) + i] = v[i]
    <3>1. u \in Seq(Levels) /\ v \in Seq(Levels)
      BY <1>2, <1>3
    <3> QED
      BY <3>1, Joined
  <2> HIDE DEF t
  <2> QED
    BY <1>2, <1>3, <2>1
<1> HIDE DEF t
<1>5. t[m + 1] = lv /\ t[m + 2] = sub
  BY <1>3, <1>4
<1>6. IsTops(t, s, m, lv, sub)
  BY <1>2, <1>4, <1>5 DEF IsTops
<1> QED
  BY <1>1, <1>6 DEF t, u, v

\* what a level keeps while it is open
Same(lv, old) == lv.area = old.area /\ lv.path = old.path /\ lv.oldLut = old.oldLut

(* Levels that keep this nest as before.                                   *)
LEMMA NestedSame ==
  ASSUME NEW lv, NEW sub, NEW lw, NEW sup, Nested(lv, sub), Same(lw, lv), Same(sup, sub)
  PROVE  Nested(lw, sup)
  BY DEF Nested, Same

(* A level's first elements are those of its own path.                     *)
LEMMA StartsWithTrans ==
  ASSUME NEW p \in Seq(Splits), NEW q \in Seq(Splits), NEW r \in Seq(Splits),
         StartsWith(q, p), StartsWith(r, q)
  PROVE  StartsWith(r, p)
<1>1. Len(p) \in Nat /\ Len(q) \in Nat /\ Len(r) \in Nat
  OBVIOUS
<1>2. \A k \in 1 .. Len(p) : k \in 1 .. Len(q)
  BY <1>1 DEF StartsWith
<1> QED
  BY <1>1, <1>2 DEF StartsWith

(* Nested levels nest.                                                     *)
LEMMA NestedTrans ==
  ASSUME NEW a \in Levels, NEW b \in Levels, NEW c \in Levels, Nested(a, b), Nested(b, c)
  PROVE  Nested(a, c)
<1>1. /\ a.area \in Areas /\ b.area \in Areas /\ c.area \in Areas
      /\ a.path \in Seq(Splits) /\ b.path \in Seq(Splits) /\ c.path \in Seq(Splits)
  BY DEF Levels
<1>2. Within(c.area, b.area) /\ Within(b.area, a.area) /\ StartsWith(b.path, a.path) /\ StartsWith(c.path, b.path)
  BY DEF Nested
<1>3. Within(c.area, a.area) /\ (SameCorner(c.area, a.area) <=> SameCorner(c.area, b.area) /\ SameCorner(b.area, a.area))
  BY <1>1, <1>2, WithinWithin
<1>4. StartsWith(c.path, a.path)
  BY <1>1, <1>2, StartsWithTrans
<1> QED
  BY <1>3, <1>4 DEF Nested

(* The top level changes and stays at its place.                           *)
LEMMA StackTop ==
  ASSUME NEW c, NEW s \in Seq(Levels), IsStack(s, c), NEW m \in Nat, m < Len(s),
         NEW lv \in Levels, Same(lv, s[m + 1]), LevelOk(lv, c), lv.stage # "parts",
         NEW t, IsTop(t, s, m, lv)
  PROVE  IsStack(t, c)
<1>1. PICK n \in Nat : n = Len(s) /\ m + 1 <= n /\ DOMAIN s = 1 .. n /\ s # <<>>
  OBVIOUS
<1>2. /\ t \in Seq(Levels) /\ Len(t) = m + 1 /\ DOMAIN t = 1 .. m + 1 /\ t[m + 1] = lv
      /\ \A i \in 1 .. m : t[i] = s[i]
  BY DEF IsTop
<1>3. \A i \in 1 .. m + 1 : i \in 1 .. n /\ (i = m + 1 \/ i \in 1 .. m)
  BY <1>1
<1>4. \A i \in 1 .. m + 1 : Same(t[i], s[i])
  BY <1>2, <1>3 DEF Same
<1>5. /\ t[1].area = c.area /\ t[1].path = <<>> /\ t[1].oldLut = c.lut
      /\ t[Len(t)].stage # "parts"
  <2>1. 1 \in 1 .. m + 1
    OBVIOUS
  <2>2. s[1].area = c.area /\ s[1].path = <<>> /\ s[1].oldLut = c.lut
    BY <1>1 DEF IsStack
  <2> QED
    BY <1>2, <1>4, <2>1, <2>2 DEF Same
<1>6. ASSUME NEW i \in 1 .. m + 1
      PROVE  LevelOk(t[i], c) /\ Len(t[i].path) = i - 1
  <2>1. i \in DOMAIN s /\ Len(s[i].path) = i - 1 /\ LevelOk(s[i], c)
    BY <1>1, <1>3 DEF IsStack
  <2>2. Len(t[i].path) = i - 1
    BY <1>4, <2>1 DEF Same
  <2> QED
    BY <1>2, <1>3, <2>1, <2>2
<1>7. ASSUME NEW i \in 1 .. m + 1, i > 1
      PROVE  Linked(t[i - 1], t[i])
  <2>1. i \in DOMAIN s /\ Linked(s[i - 1], s[i])
    BY <1>1, <1>3, <1>7 DEF IsStack
  <2>2. i - 1 \in 1 .. m /\ t[i - 1] = s[i - 1]
    BY <1>2, <1>7
  <2> QED
    BY <1>4, <2>1, <2>2 DEF Linked, Same
<1>8. ASSUME NEW i \in 1 .. m + 1, NEW j \in 1 .. m + 1, i <= j
      PROVE  Nested(t[i], t[j])
  <2>1. i \in DOMAIN s /\ j \in DOMAIN s /\ Nested(s[i], s[j])
    BY <1>1, <1>3, <1>8 DEF IsStack
  <2> QED
    BY <1>4, <2>1, NestedSame
<1> QED
  BY <1>2, <1>5, <1>6, <1>7, <1>8 DEF IsStack

(* A level that is entered nests in the one above it.                      *)
LEMMA NestedLinked ==
  ASSUME NEW lv \in Levels, NEW sub \in Levels, lv.split \in Splits, Fits(lv.area, lv.split),
         lv.part \in DOMAIN Parts(lv.area, lv.split), Linked(lv, sub),
         lv.part = 1 => lv.temp.lut = lv.oldLut
  PROVE  Nested(lv, sub) /\ Len(sub.path) = Len(lv.path) + 1 /\ sub.path[Len(lv.path) + 1] = lv.split
<1>1. lv.area \in Areas /\ lv.path \in Seq(Splits)
  BY DEF Levels
<1>2. Within(sub.area, lv.area) /\ (lv.part = 1 <=> SameCorner(sub.area, lv.area))
  BY <1>1, PartsLie DEF Linked
<1>3. sub.path = Append(lv.path, lv.split)
  BY DEF Linked
<1>4. StartsWith(sub.path, lv.path) /\ Len(sub.path) = Len(lv.path) + 1 /\ sub.path[Len(lv.path) + 1] = lv.split
  <2>1. \A k \in 1 .. Len(lv.path) : Append(lv.path, lv.split)[k] = lv.path[k]
    BY <1>1
  <2>2. /\ Len(Append(lv.path, lv.split)) = Len(lv.path) + 1
        /\ Append(lv.path, lv.split)[Len(lv.path) + 1] = lv.split /\ Len(lv.path) \in Nat
    BY <1>1
  <2> QED
    BY <1>3, <2>1, <2>2 DEF StartsWith
<1>5. SameCorner(sub.area, lv.area) => sub.oldLut = lv.oldLut
  BY <1>2 DEF Linked
<1> QED
  BY <1>2, <1>4, <1>5 DEF Nested

(* The top level enters another.                                           *)
LEMMA StackTops ==
  ASSUME NEW c, NEW s \in Seq(Levels), IsStack(s, c), NEW m \in Nat, m < Len(s),
         NEW lv \in Levels, Same(lv, s[m + 1]), LevelOk(lv, c), NEW sub \in Levels,
         Linked(lv, sub), LevelOk(sub, c), sub.stage = "unsplit", lv.part = 1 => lv.temp.lut = lv.oldLut,
         NEW t, IsTops(t, s, m, lv, sub)
  PROVE  IsStack(t, c)
<1>1. PICK n \in Nat : n = Len(s) /\ m + 1 <= n /\ DOMAIN s = 1 .. n /\ s # <<>>
  OBVIOUS
<1>2. /\ t \in Seq(Levels) /\ Len(t) = m + 2 /\ DOMAIN t = 1 .. m + 2
      /\ t[m + 1] = lv /\ t[m + 2] = sub
      /\ \A i \in 1 .. m : t[i] = s[i]
  BY DEF IsTops
<1>3. /\ \A i \in 1 .. m + 1 : i \in 1 .. n /\ (i = m + 1 \/ i \in 1 .. m)
      /\ \A i \in 1 .. m + 2 : i = m + 2 \/ i \in 1 .. m + 1
  BY <1>1
<1>4. \A i \in 1 .. m + 1 : Same(t[i], s[i])
  BY <1>2, <1>3 DEF Same
<1>5. /\ t[1].area = c.area /\ t[1].path = <<>> /\ t[1].oldLut = c.lut
      /\ t[Len(t)].stage # "parts"
  <2>1. 1 \in 1 .. m + 1
    OBVIOUS
  <2>2. s[1].area = c.area /\ s[1].path = <<>> /\ s[1].oldLut = c.lut
    BY <1>1 DEF IsStack
  <2> QED
    BY <1>2, <1>4, <2>1, <2>2 DEF Same
<1>6. /\ Nested(lv, sub) /\ Len(sub.path) = Len(lv.path) + 1
  <2>1. lv.split \in Splits /\ Fits(lv.area, lv.split) /\ lv.part \in DOMAIN Parts(lv.area, lv.split)
    BY CanSplitFits DEF LevelOk, Linked
  <2> QED
    BY <2>1, NestedLinked
<1>7. ASSUME NEW i \in 1 .. m + 1
      PROVE  LevelOk(t[i], c) /\ Len(t[i].path) = i - 1
  <2>1. i \in DOMAIN s /\ Len(s[i].path) = i - 1 /\ LevelOk(s[i], c)
    BY <1>1, <1>3 DEF IsStack
  <2>2. Len(t[i].path) = i - 1
    BY <1>4, <2>1 DEF Same
  <2> QED
    BY <1>2, <1>3, <2>1, <2>2
<1>8. LevelOk(t[m + 2], c) /\ Len(t[m + 2].path) = (m + 2) - 1
  <2>1. m + 1 \in 1 .. m + 1
    OBVIOUS
  <2>2. Len(lv.path) = (m + 1) - 1
    BY <1>2, <1>7, <2>1
  <2> QED
    BY <1>2, <1>6, <2>2
<1>9. ASSUME NEW i \in 1 .. m + 2, i > 1
      PROVE  Linked(t[i - 1], t[i])
  <2>1. CASE i = m + 2
    <3>1. i - 1 = m + 1
      BY <2>1
    <3> QED
      BY <1>2, <2>1, <3>1
  <2>2. CASE i \in 1 .. m + 1
    <3>1. i \in DOMAIN s /\ Linked(s[i - 1], s[i])
      BY <1>1, <1>3, <1>9, <2>2 DEF IsStack
    <3>2. i - 1 \in 1 .. m /\ t[i - 1] = s[i - 1]
      BY <1>2, <1>9, <2>2
    <3> QED
      BY <1>4, <2>2, <3>1, <3>2 DEF Linked, Same
  <2> QED
    BY <1>3, <2>1, <2>2
<1>10. ASSUME NEW i \in 1 .. m + 1, NEW j \in 1 .. m + 1, i <= j
       PROVE  Nested(t[i], t[j])
  <2>1. i \in DOMAIN s /\ j \in DOMAIN s /\ Nested(s[i], s[j])
    BY <1>1, <1>3, <1>10 DEF IsStack
  <2> QED
    BY <1>4, <2>1, NestedSame
<1>11. ASSUME NEW i \in 1 .. m + 1
       PROVE  Nested(t[i], sub)
  <2>1. m + 1 \in 1 .. m + 1 /\ i <= m + 1
    OBVIOUS
  <2>2. Nested(t[i], lv) /\ t[i] \in Levels
    <3>1. i \in 1 .. m + 2
      OBVIOUS
    <3> QED
      BY <1>2, <1>10, <2>1, <3>1
  <2> QED
    BY <1>6, <2>2, NestedTrans
<1>12. Nested(sub, sub)
  <2>1. sub.area \in Areas /\ sub.path \in Seq(Splits)
    BY DEF Levels
  <2> QED
    BY <2>1, WithinItself DEF Nested, StartsWith
<1>13. ASSUME NEW i \in 1 .. m + 2, NEW j \in 1 .. m + 2, i <= j
       PROVE  Nested(t[i], t[j])
  <2>1. j \in 1 .. m + 1 => i \in 1 .. m + 1
    BY <1>13
  <2> QED
    BY <1>2, <1>3, <1>10, <1>11, <1>12, <1>13, <2>1
<1>14. \A i \in 1 .. m + 2 : LevelOk(t[i], c) /\ Len(t[i].path) = i - 1
  BY <1>3, <1>7, <1>8
<1> QED
  BY <1>2, <1>5, <1>9, <1>13, <1>14 DEF IsStack

----------------------------------------------------------------------------
(* The cache and the stack.                                                *)

(* The top level changes: what was found in it stays explained.            *)
LEMMA CacheTop ==
  ASSUME NEW c, NEW s \in Seq(Levels), NEW entries, IsCache(s, entries, c),
         NEW m \in Nat, m < Len(s), NEW lv, NEW t, IsTop(t, s, m, lv),
         \A a \in DOMAIN entries : FoundIn(s[m + 1], entries[a], c) => FoundIn(lv, entries[a], c)
  PROVE  IsCache(t, entries, c)
<1>1. PICK n \in Nat : n = Len(s) /\ m + 1 <= n /\ DOMAIN s = 1 .. n
  OBVIOUS
<1>2. DOMAIN t = 1 .. m + 1 /\ t[m + 1] = lv /\ \A i \in 1 .. m : t[i] = s[i]
  BY DEF IsTop
<1>3. ASSUME NEW a \in DOMAIN entries, NEW i \in 1 .. m + 1
      PROVE  FoundIn(t[i], entries[a], c)
  <2>1. i \in DOMAIN s /\ (i = m + 1 \/ i \in 1 .. m)
    BY <1>1
  <2>2. FoundIn(s[i], entries[a], c)
    BY <2>1 DEF IsCache
  <2> QED
    BY <1>2, <2>1, <2>2
<1> QED
  BY <1>2, <1>3 DEF IsCache

(* The top level enters another, in which nothing was found.               *)
LEMMA CacheTops ==
  ASSUME NEW c, NEW s \in Seq(Levels), NEW entries, IsCache(s, entries, c),
         NEW m \in Nat, m < Len(s), NEW lv, NEW sub, NEW t, IsTops(t, s, m, lv, sub),
         \A a \in DOMAIN entries : FoundIn(s[m + 1], entries[a], c) =>
           FoundIn(lv, entries[a], c) /\ FoundIn(sub, entries[a], c)
  PROVE  IsCache(t, entries, c)
<1>1. PICK n \in Nat : n = Len(s) /\ m + 1 <= n /\ DOMAIN s = 1 .. n
  OBVIOUS
<1>2. /\ DOMAIN t = 1 .. m + 2 /\ t[m + 1] = lv /\ t[m + 2] = sub
      /\ \A i \in 1 .. m : t[i] = s[i]
  BY DEF IsTops
<1>3. ASSUME NEW a \in DOMAIN entries, NEW i \in 1 .. m + 2
      PROVE  FoundIn(t[i], entries[a], c)
  <2>1. i = m + 2 \/ i = m + 1 \/ i \in 1 .. m
    OBVIOUS
  <2>2. m + 1 \in DOMAIN s /\ (i \in 1 .. m => i \in DOMAIN s)
    BY <1>1
  <2>3. FoundIn(s[m + 1], entries[a], c) /\ (i \in 1 .. m => FoundIn(s[i], entries[a], c))
    BY <2>2 DEF IsCache
  <2> QED
    BY <1>2, <2>1, <2>3
<1> QED
  BY <1>2, <1>3 DEF IsCache

(* No test mode comes twice.                                               *)
LEMMA ModesOnce ==
  ASSUME NEW qt
  PROVE  /\ \A k \in 1 .. 5 : TestModes(qt)[k] \in Splits
         /\ \A j, k \in 1 .. 5 : TestModes(qt)[j] = TestModes(qt)[k] => j = k
<1> DEFINE t == TestModes(qt)
<1>1. \/ t[1] = "QUAD" /\ t[2] = "HORZ" /\ t[3] = "VERT" /\ t[4] = "TRIH" /\ t[5] = "TRIV"
      \/ t[1] = "HORZ" /\ t[2] = "VERT" /\ t[3] = "TRIH" /\ t[4] = "TRIV" /\ t[5] = "QUAD"
  BY DEF TestModes
<1> HIDE DEF t
<1>2. \A k \in 1 .. 5 : k = 1 \/ k = 2 \/ k = 3 \/ k = 4 \/ k = 5
  OBVIOUS
<1>3. \A k \in 1 .. 5 : t[k] \in Splits
  BY <1>1, <1>2 DEF Splits
<1>4. \A j, k \in 1 .. 5 : t[j] = t[k] => j = k
  BY <1>1, <1>2
<1> QED
  BY <1>3, <1>4 DEF t

(* A level that is in a split.                                             *)
LEMMA InParts ==
  ASSUME NEW c, NEW lv \in Levels, LevelOk(lv, c), lv.stage = "parts"
  PROVE  /\ lv.next - 1 \in 1 .. 5 /\ lv.split = TestModes(c.qtBeforeBt)[lv.next - 1]
         /\ lv.split \in Splits /\ Fits(lv.area, lv.split)
         /\ lv.part \in DOMAIN Parts(lv.area, lv.split)
<1>1. lv.next \in 1 .. 6 /\ lv.next > 1
  BY DEF Levels, LevelOk
<1> QED
  BY <1>1, CanSplitFits DEF LevelOk

(* What was found in a level is in the level when it enters another split. *)
LEMMA FoundEnter ==
  ASSUME NEW c, NEW old \in Levels, old.stage = "split", NEW lv \in Levels, Same(lv, old),
         LevelOk(lv, c), lv.stage = "parts", lv.next > old.next, lv.part = 1,
         NEW sub \in Levels, Linked(lv, sub), lv.temp.lut = lv.oldLut,
         NEW cu \in Cus, FoundIn(old, cu, c)
  PROVE  FoundIn(lv, cu, c) /\ FoundIn(sub, cu, c)
<1>1. /\ lv.next - 1 \in 1 .. 5 /\ lv.split = TestModes(c.qtBeforeBt)[lv.next - 1]
      /\ lv.split \in Splits /\ Fits(lv.area, lv.split)
      /\ lv.part \in DOMAIN Parts(lv.area, lv.split)
  BY InParts
<1>2. old.next \in 1 .. 6 /\ lv.next \in 1 .. 6 /\ old.next - 1 < lv.next - 1
  BY DEF Levels
<1>3. ASSUME StartsWith(cu.path, lv.path), Within(cu.area, lv.area), Len(cu.path) # Len(lv.path)
      PROVE  \E k \in 1 .. old.next - 1 : cu.path[Len(lv.path) + 1] = TestModes(c.qtBeforeBt)[k]
  BY <1>3 DEF FoundIn, Tried, Same
<1>4. ASSUME StartsWith(cu.path, lv.path), Within(cu.area, lv.area), Len(cu.path) # Len(lv.path)
      PROVE  cu.path[Len(lv.path) + 1] # lv.split
  <2>1. PICK k \in 1 .. old.next - 1 : cu.path[Len(lv.path) + 1] = TestModes(c.qtBeforeBt)[k]
    BY <1>3, <1>4
  <2>2. k \in 1 .. 5 /\ k # lv.next - 1
    BY <1>2
  <2> QED
    BY <1>1, <2>1, <2>2, ModesOnce
<1>5. FoundIn(lv, cu, c)
  <2>1. SUFFICES ASSUME StartsWith(cu.path, lv.path), Within(cu.area, lv.area)
                 PROVE  /\ Tried(lv, cu, c)
                        /\ SameCorner(cu.area, lv.area) => cu.found = DeriveMotion(cu, lv.oldLut)
    BY DEF FoundIn
  <2>2. SameCorner(cu.area, lv.area) => cu.found = DeriveMotion(cu, lv.oldLut)
    BY <2>1 DEF FoundIn, Same
  <2>3. CASE Len(cu.path) = Len(lv.path)
    BY <2>2, <2>3 DEF Tried
  <2>4. CASE Len(cu.path) # Len(lv.path)
    <3>1. PICK k \in 1 .. old.next - 1 : cu.path[Len(lv.path) + 1] = TestModes(c.qtBeforeBt)[k]
      BY <1>3, <2>1, <2>4
    <3>2. k \in 1 .. lv.next - 1
      BY <1>2
    <3>3. Tried(lv, cu, c)
      BY <1>4, <2>1, <2>4, <3>1, <3>2 DEF Tried
    <3> QED
      BY <2>2, <3>3
  <2> QED
    BY <2>3, <2>4
<1>6. FoundIn(sub, cu, c)
  <2>1. SUFFICES ASSUME StartsWith(cu.path, sub.path), Within(cu.area, sub.area)
                 PROVE  FALSE
    BY DEF FoundIn
  <2>2. Nested(lv, sub) /\ Len(sub.path) = Len(lv.path) + 1 /\ sub.path[Len(lv.path) + 1] = lv.split
    BY <1>1, NestedLinked
  <2>3. /\ cu.path \in Seq(Splits) /\ lv.path \in Seq(Splits) /\ sub.path \in Seq(Splits)
        /\ cu.area \in Areas /\ lv.area \in Areas /\ sub.area \in Areas
    BY DEF Levels, Cus
  <2>4. StartsWith(cu.path, lv.path)
    BY <2>1, <2>2, <2>3, StartsWithTrans DEF Nested
  <2>5. Within(cu.area, lv.area)
    BY <2>1, <2>2, <2>3, WithinWithin DEF Nested
  <2>6. Len(cu.path) # Len(lv.path) /\ cu.path[Len(lv.path) + 1] = lv.split
    <3>1. Len(lv.path) \in Nat /\ Len(cu.path) \in Nat /\ Len(lv.path) + 1 \in 1 .. Len(sub.path)
      BY <2>2, <2>3
    <3> QED
      BY <2>1, <2>2, <3>1 DEF StartsWith
  <2> QED
    BY <1>4, <2>4, <2>5, <2>6
<1> QED
  BY <1>5, <1>6

(* Nor when it goes on to the next part.                                   *)
LEMMA FoundNext ==
  ASSUME NEW c, NEW old \in Levels, old.stage = "parts", LevelOk(old, c),
         NEW lv \in Levels, Same(lv, old), LevelOk(lv, c), lv.stage = "parts",
         lv.next = old.next /\ lv.split = old.split /\ lv.part = old.part + 1,
         NEW sub \in Levels, Linked(lv, sub), NEW cu \in Cus, FoundIn(old, cu, c)
  PROVE  FoundIn(lv, cu, c) /\ FoundIn(sub, cu, c)
<1> DEFINE parts == Parts(lv.area, lv.split)
<1>1. /\ lv.split \in Splits /\ Fits(lv.area, lv.split)
      /\ lv.part \in DOMAIN parts /\ old.part \in DOMAIN parts
  BY InParts DEF Same
<1>2. /\ cu.path \in Seq(Splits) /\ lv.path \in Seq(Splits) /\ sub.path \in Seq(Splits)
      /\ cu.area \in Areas /\ lv.area \in Areas /\ sub.area \in Areas
  BY DEF Levels, Cus
<1>3. /\ DOMAIN parts = 1 .. Len(parts) /\ Len(parts) \in 2 .. 4
      /\ \A k \in DOMAIN parts : parts[k] \in Areas
      /\ \A k, l \in DOMAIN parts : k < l => Apart(parts[k], parts[l])
  BY <1>1, <1>2, PartsLie
<1> HIDE DEF parts
<1>4. PICK n \in 2 .. 4 : DOMAIN parts = 1 .. n
  BY <1>3
<1>5. old.part \in 1 .. n /\ lv.part \in 1 .. n /\ lv.part = old.part + 1
  BY <1>1, <1>4
<1>6. lv.part # 1 /\ \A p \in 1 .. old.part : p \in DOMAIN parts /\ p < lv.part /\ p \in 1 .. lv.part
  BY <1>4, <1>5
<1>7. FoundIn(lv, cu, c)
  <2>1. SUFFICES ASSUME StartsWith(cu.path, lv.path), Within(cu.area, lv.area)
                 PROVE  /\ Tried(lv, cu, c)
                        /\ SameCorner(cu.area, lv.area) => cu.found = DeriveMotion(cu, lv.oldLut)
    BY DEF FoundIn
  <2>2. /\ SameCorner(cu.area, lv.area) => cu.found = DeriveMotion(cu, lv.oldLut)
        /\ Tried(old, cu, c)
    BY <2>1 DEF FoundIn, Same
  <2>3. CASE Len(cu.path) = Len(lv.path)
    BY <2>2, <2>3 DEF Tried
  <2>4. CASE Len(cu.path) # Len(lv.path)
    <3> DEFINE s == cu.path[Len(lv.path) + 1]
    <3>1. /\ \E k \in 1 .. lv.next - 1 : s = TestModes(c.qtBeforeBt)[k]
          /\ s = lv.split => \E p \in 1 .. old.part : Within(cu.area, Parts(lv.area, s)[p])
      BY <2>2, <2>4 DEF Tried, Same
    <3>2. s = lv.split => \E p \in 1 .. lv.part : Within(cu.area, Parts(lv.area, s)[p])
      BY <1>6, <3>1
    <3>3. Tried(lv, cu, c)
      BY <2>4, <3>1, <3>2 DEF Tried
    <3> QED
      BY <2>2, <3>3
  <2> QED
    BY <2>3, <2>4
<1>8. FoundIn(sub, cu, c)
  <2>1. SUFFICES ASSUME StartsWith(cu.path, sub.path), Within(cu.area, sub.area)
                 PROVE  FALSE
    BY DEF FoundIn
  <2>2. Nested(lv, sub) /\ Len(sub.path) = Len(lv.path) + 1 /\ sub.path[Len(lv.path) + 1] = lv.split
    BY <1>1, <1>6, NestedLinked DEF parts
  <2>3. StartsWith(cu.path, lv.path)
    BY <1>2, <2>1, <2>2, StartsWithTrans DEF Nested
  <2>4. Within(cu.area, lv.area)
    BY <1>2, <2>1, <2>2, WithinWithin DEF Nested
  <2>5. Len(cu.path) # Len(lv.path) /\ cu.path[Len(lv.path) + 1] = lv.split
    <3>1. Len(lv.path) \in Nat /\ Len(cu.path) \in Nat /\ Len(lv.path) + 1 \in 1 .. Len(sub.path)
      BY <1>2, <2>2
    <3> QED
      BY <2>1, <2>2, <3>1 DEF StartsWith
  <2>6. Tried(old, cu, c)
    BY <2>3, <2>4 DEF FoundIn, Same
  <2>7. PICK p \in 1 .. old.part : Within(cu.area, Parts(lv.area, lv.split)[p])
    BY <2>5, <2>6 DEF Tried, Same
  <2>8. Within(cu.area, parts[p]) /\ p \in DOMAIN parts /\ p < lv.part
    BY <1>6, <2>7 DEF parts
  <2>9. sub.area = parts[lv.part]
    BY DEF Linked, parts
  <2> QED
    BY <1>1, <1>2, <1>3, <2>1, <2>8, <2>9, NotInBoth
<1> QED
  BY <1>7, <1>8

(* What was found in a level is in it when it has left a split, or tested  *)
(* its own modes.                                                          *)
LEMMA FoundAfter ==
  ASSUME NEW c, NEW old \in Levels, NEW lv \in Levels, Same(lv, old),
         lv.stage = "split", lv.next = old.next, NEW cu, FoundIn(old, cu, c)
  PROVE  FoundIn(lv, cu, c)
<1>1. SUFFICES ASSUME StartsWith(cu.path, lv.path), Within(cu.area, lv.area)
               PROVE  /\ Tried(lv, cu, c)
                      /\ SameCorner(cu.area, lv.area) => cu.found = DeriveMotion(cu, lv.oldLut)
  BY DEF FoundIn
<1>2. /\ SameCorner(cu.area, lv.area) => cu.found = DeriveMotion(cu, lv.oldLut)
      /\ Tried(old, cu, c)
  BY <1>1 DEF FoundIn, Same
<1>3. Tried(lv, cu, c)
  BY <1>2 DEF Tried, Same
<1> QED
  BY <1>2, <1>3

----------------------------------------------------------------------------
(* The CU unsplit.                                                         *)

\* a CU coded in the level: its motion is derived from the level's history
Coded(cu, lv) ==
  /\ cu \in Cus /\ cu.area = lv.area /\ cu.path = lv.path
  /\ cu.motion = DeriveMotion(cu, lv.oldLut) /\ cu.found = cu.motion

(* The top of the stack.                                                   *)
LEMMA TopFacts ==
  ASSUME IInv, levels # <<>>
  PROVE  /\ levels \in Seq(Levels) /\ Len(levels) \in Nat /\ Len(levels) >= 1 /\ Len(levels) \in DOMAIN levels
         /\ Cur = levels[Len(levels)] /\ Cur \in Levels
         /\ LevelOk(Cur, ctu) /\ Len(Cur.path) = Len(levels) - 1
         /\ Cur.area \in DOMAIN ctu.content /\ ctu \in Ctus
         /\ \A i \in DOMAIN levels : Nested(levels[i], Cur) /\ Len(levels[i].path) = i - 1
<1>1. levels \in Seq(Levels) /\ ctu \in Ctus /\ IsStack(levels, ctu)
      /\ \A i \in DOMAIN levels : levels[i].area \in DOMAIN ctu.content
  BY DEF IInv, TypeInv
<1>2. PICK n \in Nat : n = Len(levels) /\ n >= 1 /\ DOMAIN levels = 1 .. n
  BY <1>1
<1>3. n \in DOMAIN levels /\ levels[n] \in Levels /\ Cur = levels[n]
  BY <1>1, <1>2 DEF Cur, Last
<1>4. LevelOk(Cur, ctu) /\ Len(Cur.path) = n - 1 /\ Cur.area \in DOMAIN ctu.content
  BY <1>1, <1>3 DEF IsStack
<1>5. ASSUME NEW i \in DOMAIN levels
      PROVE  Nested(levels[i], Cur) /\ Len(levels[i].path) = i - 1
  <2>1. i <= n
    BY <1>2
  <2> QED
    BY <1>1, <1>3, <2>1 DEF IsStack
<1> QED
  BY <1>1, <1>2, <1>3, <1>4, <1>5

(* A level that has tested nothing.                                        *)
LEMMA Untested ==
  ASSUME NEW c, NEW lv, LevelOk(lv, c), lv.stage = "unsplit"
  PROVE  /\ lv.best.lut = lv.oldLut /\ lv.best.cus = <<>> /\ lv.temp.lut = lv.oldLut /\ lv.temp.cus = <<>>
         /\ lv.next = 1
  BY DEF LevelOk, NoCoding

(* What the search finds is coded in the level.                            *)
LEMMA SearchedCoded ==
  ASSUME IInv, levels # <<>>, Cur.stage = "unsplit"
  PROVE  Coded(Searched(Cur), Cur)
<1>1. /\ Cur \in Levels /\ Cur.area \in DOMAIN ctu.content /\ ctu \in Ctus /\ Cur.temp.lut = Cur.oldLut
  BY TopFacts, Untested
<1> DEFINE content == ctu.content[Cur.area]
<1>2. content \in Contents
  BY <1>1, CtusAssumption
<1> HIDE DEF content
<1>3. /\ content.mode \in Modes /\ content.arg \in Nat
      /\ content.mode = "merge" => content.arg # 0
  BY <1>2 DEF Contents, Modes
<1>4. Cur.area \in Areas /\ Cur.path \in Seq(Splits) /\ Cur.oldLut \in Luts
  BY <1>1 DEF Levels
<1> DEFINE motion == DeriveMotion(content, Cur.oldLut)
           cu == [area |-> Cur.area, path |-> Cur.path, mode |-> content.mode, arg |-> content.arg,
                  motion |-> motion, found |-> motion]
<1>5. motion \in Nat
  BY <1>3, <1>4, MotionType
<1>6. Searched(Cur) = cu
  BY <1>1 DEF Searched, content
<1> HIDE DEF motion
<1>7. /\ cu.area = Cur.area /\ cu.path = Cur.path /\ cu.mode = content.mode /\ cu.arg = content.arg
      /\ cu.motion = motion /\ cu.found = motion
  OBVIOUS
<1>8. cu \in Cus
  BY <1>3, <1>4, <1>5 DEF Cus
<1> HIDE DEF cu
<1>9. cu.motion = DeriveMotion(cu, Cur.oldLut)
  BY <1>7, MotionOf DEF motion
<1> QED
  BY <1>6, <1>7, <1>8, <1>9 DEF Coded

(* The common depth: so far the splits are the same.                       *)
LEMMA CommonDepthIs ==
  ASSUME NEW cu, NEW path \in Seq(Splits)
  PROVE  /\ CommonDepth(cu, path) \in 0 .. Len(path)
         /\ \A i \in 1 .. CommonDepth(cu, path) : path[i] = SplitAt(cu.path, i)
<1> DEFINE Is(n) == /\ \A i \in 1 .. n : path[i] = SplitAt(cu.path, i)
                    /\ n = Len(path) \/ path[n + 1] # SplitAt(cu.path, n + 1)
           T == {i \in 1 .. Len(path) : path[i] # SplitAt(cu.path, i)}
<1>1. Len(path) \in Nat
  OBVIOUS
<1>2. \E n \in 0 .. Len(path) : Is(n)
  <2>1. CASE T = {}
    <3>1. Is(Len(path)) /\ Len(path) \in 0 .. Len(path)
      BY <1>1, <2>1
    <3> QED
      BY <3>1
  <2>2. CASE T # {}
    <3>1. T \in SUBSET Nat
      OBVIOUS
    <3>2. PICK k \in T : \A m \in T : k <= m
      BY <2>2, <3>1, Least
    <3>3. k - 1 \in 0 .. Len(path) /\ (k - 1) + 1 = k /\ path[k] # SplitAt(cu.path, k)
      BY <1>1, <3>2
    <3>4. ASSUME NEW i \in 1 .. k - 1
          PROVE  path[i] = SplitAt(cu.path, i)
      <4>1. i \in 1 .. Len(path) /\ ~(k <= i)
        BY <1>1, <3>2, <3>3
      <4> QED
        BY <3>2, <4>1
    <3>5. Is(k - 1)
      BY <3>3, <3>4
    <3> QED
      BY <3>3, <3>5
  <2> QED
    BY <2>1, <2>2
<1>3. CommonDepth(cu, path) = CHOOSE n \in 0 .. Len(path) : Is(n)
  BY DEF CommonDepth
<1> HIDE DEF Is
<1>4. CommonDepth(cu, path) \in 0 .. Len(path) /\ Is(CommonDepth(cu, path))
  BY <1>2, <1>3
<1> QED
  BY <1>4 DEF Is

(* What passes the test of isTheSameNbHood was found with this history.    *)
LEMMA ValidFound ==
  ASSUME IInv, levels # <<>>, IsValid(Cur)
  PROVE  LET cu == cache[Cur.area]
         IN cu \in Cus /\ cu.area = Cur.area /\ cu.found = DeriveMotion(cu, Cur.oldLut)
<1>1. PICK cu : cu = cache[Cur.area] /\ Cur.area \in DOMAIN cache /\ IsTheSameNbHood(cu, Cur.path)
  BY DEF IsValid
<1>2. cu \in Cus /\ cu.area = Cur.area /\ cu.path \in Seq(Splits) /\ cu.area \in Areas
  BY <1>1 DEF IInv, TypeInv, Cus
<1>3. PICK n \in Nat : n = Len(levels) /\ n >= 1 /\ DOMAIN levels = 1 .. n
  BY TopFacts
<1>4. Cur \in Levels /\ Cur.path \in Seq(Splits) /\ Len(Cur.path) = n - 1
  BY <1>3, TopFacts DEF Levels
<1>5. PICK d \in 0 .. n - 1 : /\ d = CommonDepth(cu, Cur.path)
                              /\ \A i \in 1 .. d : Cur.path[i] = SplitAt(cu.path, i)
  BY <1>4, CommonDepthIs
<1> DEFINE anc == levels[d + 1]
<1>6. d + 1 \in DOMAIN levels /\ Nested(anc, Cur) /\ Len(anc.path) = d
  <2>1. d + 1 \in DOMAIN levels
    BY <1>3
  <2>2. Nested(anc, Cur) /\ Len(anc.path) = (d + 1) - 1
    BY <2>1, TopFacts
  <2> QED
    BY <2>1, <2>2
<1>7. StartsWith(cu.path, anc.path)
  <2>1. ASSUME NEW k \in 1 .. d
        PROVE  k <= Len(cu.path) /\ cu.path[k] = anc.path[k]
    <3>1. anc.path[k] = Cur.path[k]
      BY <1>6 DEF Nested, StartsWith
    <3>2. Cur.path[k] \in Splits
      BY <1>4
    <3>3. SplitAt(cu.path, k) \in Splits
      BY <1>5, <3>2
    <3>4. k <= Len(cu.path)
      BY <3>3 DEF SplitAt, Splits
    <3> QED
      BY <1>5, <3>1, <3>4 DEF SplitAt
  <2>2. d <= Len(cu.path)
    <3>1. CASE d = 0
      BY <1>2, <3>1
    <3>2. CASE d # 0
      <4>1. d \in 1 .. d
        BY <3>2
      <4> QED
        BY <2>1, <4>1
    <3> QED
      BY <3>1, <3>2
  <2> QED
    BY <1>6, <2>1, <2>2 DEF StartsWith
<1>8. Within(cu.area, anc.area) /\ SameCorner(cu.area, anc.area)
  <2>1. AncestorArea(d) = anc.area
    BY DEF AncestorArea
  <2>2. AncestorArea(d).x = cu.area.x /\ AncestorArea(d).y = cu.area.y
    BY <1>1, <1>5 DEF IsTheSameNbHood
  <2> QED
    BY <1>2, <1>6, <2>1, <2>2 DEF SameCorner, Nested
<1>9. FoundIn(anc, cu, ctu)
  BY <1>1, <1>6 DEF IInv, IsCache
<1>10. cu.found = DeriveMotion(cu, anc.oldLut)
  BY <1>7, <1>8, <1>9 DEF FoundIn
<1>11. anc.oldLut = Cur.oldLut
  BY <1>2, <1>6, <1>8 DEF Nested
<1> QED
  BY <1>1, <1>2, <1>10, <1>11

(* A coding reused is coded in the level, with the motion found before.    *)
LEMMA ReusedCoded ==
  ASSUME IInv, levels # <<>>, Cur.stage = "unsplit", IsValid(Cur)
  PROVE  Coded(Reused(Cur), Cur)
<1>1. PICK cu : cu = cache[Cur.area]
  OBVIOUS
<1>2. cu \in Cus /\ cu.area = Cur.area /\ cu.found = DeriveMotion(cu, Cur.oldLut)
  BY <1>1, ValidFound
<1>3. Cur \in Levels /\ Cur.path \in Seq(Splits) /\ Cur.oldLut \in Luts /\ Cur.temp.lut = Cur.oldLut
  BY TopFacts, Untested DEF Levels
<1> DEFINE motion == DeriveMotion(cu, Cur.oldLut)
           new == [cu EXCEPT !.path = Cur.path, !.motion = motion]
<1>4. motion \in Nat
  BY <1>2, <1>3, MotionType DEF Cus
<1>5. Reused(Cur) = new
  BY <1>1, <1>3 DEF Reused
<1> HIDE DEF motion
<1>6. /\ new.area = cu.area /\ new.path = Cur.path /\ new.mode = cu.mode /\ new.arg = cu.arg
      /\ new.motion = motion /\ new.found = cu.found /\ new \in Cus
  BY <1>2, <1>3, <1>4 DEF Cus
<1> HIDE DEF new
<1>7. new.motion = DeriveMotion(new, Cur.oldLut)
  BY <1>6, MotionOf DEF motion
<1>8. new.found = new.motion
  BY <1>2, <1>6 DEF motion
<1> QED
  BY <1>2, <1>5, <1>6, <1>7, <1>8 DEF Coded

\* the level with the CU tested, and the level thereafter
Tested(lv, cu, delivers) == CheckBestMode([Start(lv) EXCEPT !.temp.cus = <<cu>>], delivers)
ToSplits(lv) == [lv EXCEPT !.stage = "split"]

(* The level after its unsplit modes.                                      *)
LEMMA TestedLevel ==
  ASSUME NEW c, NEW old \in Levels, LevelOk(old, c), old.stage = "unsplit",
         NEW cu, Coded(cu, old), NEW delivers \in BOOLEAN,
         NEW lv, lv = Tested(old, cu, delivers), NEW new, new = ToSplits(lv)
  PROVE  /\ new \in Levels /\ Same(new, old) /\ LevelOk(new, c)
         /\ new.stage = "split" /\ new.next = old.next
         /\ lv.area = old.area /\ (lv.best.cus = <<>> \/ lv.best.cus = <<cu>>)
<1> DEFINE none == NoCoding(old.oldLut)
           one == [lut |-> old.oldLut, cus |-> <<cu>>]
<1>1. old.best = none /\ old.temp = none /\ old.oldLut \in Luts /\ cu \in Cus
  BY DEF LevelOk, Levels, Coded
<1>2. /\ none \in Codings /\ none.lut = old.oldLut /\ none.cus = <<>>
      /\ one \in Codings /\ one.lut = old.oldLut /\ one.cus = <<cu>>
  BY <1>1 DEF NoCoding, Codings
<1>3. [none EXCEPT !.cus = <<cu>>] = one /\ [none EXCEPT !.cus = <<>>] = none
  BY DEF NoCoding
<1> HIDE DEF none, one
<1> DEFINE start == [old EXCEPT !.temp = one]
<1>4. [Start(old) EXCEPT !.temp.cus = <<cu>>] = start
  <2>1. Start(old) = [old EXCEPT !.temp = [@ EXCEPT !.cus = <<>>]]
    BY DEF Start
  <2>2. Start(old) = old
    BY <1>1, <1>3, <2>1 DEF Levels
  <2>3. [old EXCEPT !.temp.cus = <<cu>>] = [old EXCEPT !.temp = [@ EXCEPT !.cus = <<cu>>]]
    OBVIOUS
  <2> QED
    BY <1>1, <1>3, <2>2, <2>3
<1>5. /\ start \in Levels /\ start.temp = one /\ start.best = none
      /\ start.area = old.area /\ start.path = old.path /\ start.oldLut = old.oldLut /\ start.next = old.next
  BY <1>1, <1>2 DEF Levels
<1> HIDE DEF start
<1>6. /\ lv \in Levels /\ lv.area = old.area /\ lv.path = old.path /\ lv.oldLut = old.oldLut /\ lv.next = old.next
      /\ (lv.best = one /\ lv.temp = none) \/ (lv.best = none /\ lv.temp = one)
  <2>1. CASE delivers
    <3>1. lv = [start EXCEPT !.best = start.temp, !.temp = start.best]
      BY <1>4, <2>1 DEF CheckBestMode, Tested
    <3> QED
      BY <1>2, <1>5, <3>1 DEF Levels
  <2>2. CASE ~delivers
    <3>1. lv = start
      BY <1>4, <2>2 DEF CheckBestMode, Tested
    <3> QED
      BY <1>5, <3>1
  <2> QED
    BY <2>1, <2>2
<1>7. /\ new \in Levels /\ new.area = old.area /\ new.path = old.path /\ new.oldLut = old.oldLut
      /\ new.next = old.next /\ new.stage = "split" /\ new.best = lv.best /\ new.temp = lv.temp
  BY <1>6 DEF Levels, ToSplits
<1>8. AsFound(none) /\ AsFound(one)
  <2>1. \A n \in DOMAIN <<cu>> : <<cu>>[n] = cu
    OBVIOUS
  <2> QED
    BY <1>2, <2>1 DEF AsFound, Coded
<1>9. BestOk(new)
  <2>1. CASE new.best = none
    BY <1>2, <2>1 DEF BestOk
  <2>2. CASE new.best = one
    <3>1. Len(one.cus) = 1 /\ one.cus[1] = cu
      BY <1>2
    <3> QED
      BY <1>2, <1>7, <2>2, <3>1 DEF BestOk, Coded
  <2> QED
    BY <1>6, <1>7, <2>1, <2>2
<1>10. LevelOk(new, c)
  BY <1>2, <1>6, <1>7, <1>8, <1>9 DEF LevelOk
<1> QED
  BY <1>2, <1>6, <1>7, <1>10 DEF Same

(* The cache takes the coding found in the level.                          *)
LEMMA CacheTested ==
  ASSUME IInv, levels # <<>>, NEW new \in Levels, Same(new, Cur), new.stage = "split", new.next = Cur.next,
         NEW t, IsTop(t, levels, Len(levels) - 1, new), NEW cu, Coded(cu, Cur),
         NEW entries, entries = [a \in DOMAIN cache \cup {Cur.area} |-> IF a = Cur.area THEN cu ELSE cache[a]]
  PROVE  IsCache(t, entries, ctu)
<1>1. /\ levels \in Seq(Levels) /\ Cur \in Levels /\ LevelOk(Cur, ctu) /\ Cur = levels[Len(levels)]
      /\ Len(Cur.path) = Len(levels) - 1
      /\ \A i \in DOMAIN levels : Nested(levels[i], Cur) /\ Len(levels[i].path) = i - 1
  BY TopFacts
<1>2. PICK n \in Nat : n = Len(levels) /\ n >= 1 /\ DOMAIN levels = 1 .. n
  BY TopFacts
<1>3. IsCache(t, cache, ctu)
  <2>1. IsCache(levels, cache, ctu) /\ n - 1 \in Nat /\ n - 1 < Len(levels) /\ (n - 1) + 1 = n
    BY <1>2 DEF IInv
  <2>2. \A a \in DOMAIN cache : FoundIn(levels[n], cache[a], ctu) => FoundIn(new, cache[a], ctu)
    BY <1>1, <1>2, FoundAfter
  <2> QED
    BY <1>1, <1>2, <2>1, <2>2, CacheTop
<1>4. t \in Seq(Levels) /\ DOMAIN t = 1 .. n /\ t[n] = new /\ \A i \in 1 .. n - 1 : t[i] = levels[i]
  <2>1. (n - 1) + 1 = n
    BY <1>2
  <2> QED
    BY <1>2, <2>1 DEF IsTop
<1>5. cu \in Cus /\ cu.area = Cur.area /\ cu.path = Cur.path /\ cu.found = DeriveMotion(cu, Cur.oldLut)
  BY DEF Coded
<1>6. ASSUME NEW i \in 1 .. n
      PROVE  FoundIn(t[i], cu, ctu)
  <2>1. CASE i = n
    <3>1. new.path = cu.path /\ new.oldLut = Cur.oldLut
      BY <1>5 DEF Same
    <3>2. Tried(new, cu, ctu)
      BY <3>1 DEF Tried
    <3> QED
      BY <1>4, <1>5, <2>1, <3>1, <3>2 DEF FoundIn
  <2>2. CASE i # n
    <3>1. i \in 1 .. n - 1 /\ i \in DOMAIN levels /\ i + 1 \in DOMAIN levels /\ i + 1 > 1 /\ (i + 1) - 1 = i
      BY <1>2, <2>2
    <3>2. /\ Nested(levels[i], Cur) /\ Len(levels[i].path) = i - 1 /\ Len(Cur.path) = n - 1
          /\ Nested(levels[i + 1], Cur) /\ Len(levels[i + 1].path) = (i + 1) - 1
      BY <1>1, <1>2, <3>1
    <3>3. Linked(levels[i], levels[i + 1]) /\ LevelOk(levels[i], ctu) /\ levels[i] \in Levels
      <4>1. \A j \in DOMAIN levels : LevelOk(levels[j], ctu) /\ (j > 1 => Linked(levels[j - 1], levels[j]))
        BY DEF IInv, IsStack
      <4>2. Linked(levels[(i + 1) - 1], levels[i + 1]) /\ LevelOk(levels[i], ctu)
        BY <3>1, <4>1
      <4>3. levels[i] \in Levels
        BY <1>1, <3>1
      <4> QED
        BY <3>1, <4>2, <4>3
    <3>4. levels[i].stage = "parts" /\ levels[i + 1].area = Parts(levels[i].area, levels[i].split)[levels[i].part]
      BY <3>3 DEF Linked
    <3>5. /\ levels[i].next - 1 \in 1 .. 5 /\ levels[i].split = TestModes(ctu.qtBeforeBt)[levels[i].next - 1]
          /\ levels[i].split \in Splits /\ Fits(levels[i].area, levels[i].split)
          /\ levels[i].part \in DOMAIN Parts(levels[i].area, levels[i].split)
      BY <3>3, <3>4, InParts
    <3>6. cu.path[i] = levels[i].split /\ Len(cu.path) # Len(levels[i].path) /\ Len(levels[i].path) + 1 = i
      <4>1. levels[i + 1].path = Append(levels[i].path, levels[i].split) /\ levels[i].path \in Seq(Splits)
        BY <3>3 DEF Linked, Levels
      <4>2. levels[i + 1].path[i] = levels[i].split
        BY <3>2, <4>1
      <4>3. Cur.path[i] = levels[i + 1].path[i]
        BY <3>1, <3>2, SMTT(30) DEF Nested, StartsWith
      <4> QED
        BY <1>5, <2>2, <3>1, <3>2, <4>2, <4>3
    <3>7. \E k \in 1 .. levels[i].next - 1 : cu.path[i] = TestModes(ctu.qtBeforeBt)[k]
      <4>1. levels[i].next - 1 \in 1 .. levels[i].next - 1
        BY <3>5
      <4> QED
        BY <3>5, <3>6, <4>1
    <3>8. \E p \in 1 .. levels[i].part : Within(cu.area, Parts(levels[i].area, levels[i].split)[p])
      <4>1. levels[i].area \in Areas
        BY <3>3 DEF Levels
      <4>2. levels[i].part \in 1 .. levels[i].part
        BY <3>5, <4>1, PartsLie
      <4>3. Within(cu.area, Parts(levels[i].area, levels[i].split)[levels[i].part])
        BY <1>5, <3>2, <3>4 DEF Nested
      <4> QED
        BY <4>2, <4>3
    <3>9. Tried(levels[i], cu, ctu)
      BY <3>6, <3>7, <3>8 DEF Tried
    <3>10. SameCorner(cu.area, levels[i].area) => cu.found = DeriveMotion(cu, levels[i].oldLut)
      BY <1>5, <3>2 DEF Nested
    <3> QED
      BY <1>4, <3>1, <3>9, <3>10 DEF FoundIn
  <2> QED
    BY <2>1, <2>2
<1>7. ASSUME NEW a \in DOMAIN entries, NEW i \in DOMAIN t
      PROVE  FoundIn(t[i], entries[a], ctu)
  <2>1. CASE a = Cur.area
    <3>1. entries[a] = cu
      BY <2>1
    <3> QED
      BY <1>4, <1>6, <3>1
  <2>2. CASE a # Cur.area
    <3>1. a \in DOMAIN cache /\ entries[a] = cache[a]
      BY <2>2
    <3> QED
      BY <1>3, <3>1 DEF IsCache
  <2> QED
    BY <2>1, <2>2
<1> QED
  BY <1>7 DEF IsCache

(* The stack's areas have content.                                         *)
LEMMA ContentTop ==
  ASSUME IInv, NEW m \in Nat, m < Len(levels), NEW lv, lv.area \in DOMAIN ctu.content,
         NEW t, IsTop(t, levels, m, lv)
  PROVE  \A i \in DOMAIN t : t[i].area \in DOMAIN ctu.content
<1>1. PICK n \in Nat : n = Len(levels) /\ DOMAIN levels = 1 .. n
  BY DEF IInv, TypeInv
<1>2. DOMAIN t = 1 .. m + 1 /\ t[m + 1] = lv /\ \A i \in 1 .. m : t[i] = levels[i]
  BY DEF IsTop
<1>3. \A i \in 1 .. m + 1 : i = m + 1 \/ (i \in 1 .. m /\ i \in 1 .. n)
  BY <1>1
<1> QED
  BY <1>1, <1>2, <1>3 DEF IInv, TypeInv

(* The unsplit modes.                                                      *)
LEMMA UnsplitStep ==
  ASSUME IInv, TestUnsplit
  PROVE  IInv'
<1>1. PICK delivers \in BOOLEAN :
        LET cu == IF IsValid(Cur) THEN Reused(Cur) ELSE Searched(Cur)
            lv == CheckBestMode([Start(Cur) EXCEPT !.temp.cus = <<cu>>], delivers)
        IN /\ levels' = WithCur([lv EXCEPT !.stage = "split"])
           /\ SetFromCs(lv)
  BY DEF TestUnsplit
<1>2. PICK cu, lv, new :
         /\ cu = IF IsValid(Cur) THEN Reused(Cur) ELSE Searched(Cur)
         /\ lv = Tested(Cur, cu, delivers) /\ new = ToSplits(lv)
  OBVIOUS
<1>3. /\ levels # <<>> /\ Cur.stage = "unsplit" /\ ctu' = ctu /\ final' = final
      /\ levels' = WithCur(new) /\ SetFromCs(lv)
  BY <1>1, <1>2 DEF TestUnsplit, Tested, ToSplits
<1>4. Coded(cu, Cur)
  <2>1. CASE IsValid(Cur)
    BY <1>3, <1>2, <2>1, ReusedCoded
  <2>2. CASE ~IsValid(Cur)
    BY <1>3, <1>2, <2>2, SearchedCoded
  <2> QED
    BY <2>1, <2>2
<1>5. /\ Cur \in Levels /\ LevelOk(Cur, ctu) /\ levels \in Seq(Levels) /\ Len(levels) >= 1 /\ Len(levels) \in Nat
      /\ Cur = levels[Len(levels)] /\ Cur.area \in DOMAIN ctu.content
  BY <1>3, TopFacts
<1>6. /\ new \in Levels /\ Same(new, Cur) /\ LevelOk(new, ctu)
      /\ new.stage = "split" /\ new.next = Cur.next
      /\ lv.area = Cur.area /\ (lv.best.cus = <<>> \/ lv.best.cus = <<cu>>)
  BY <1>3, <1>4, <1>5, <1>2, TestedLevel, SMTT(30)
<1>7. PICK m \in Nat : m = Len(levels) - 1 /\ m < Len(levels) /\ levels[m + 1] = Cur
  <2>1. Len(levels) - 1 \in Nat /\ (Len(levels) - 1) + 1 = Len(levels) /\ Len(levels) - 1 < Len(levels)
    BY <1>5
  <2> QED
    BY <1>5, <2>1
<1>8. IsTop(levels', levels, m, new)
  BY <1>3, <1>5, <1>6, <1>7, Changed DEF WithCur
<1>9. IsStack(levels', ctu)
  BY <1>5, <1>6, <1>7, <1>8, StackTop DEF IInv
<1>10. /\ levels' \in Seq(Levels)
      /\ \A i \in DOMAIN levels' : levels'[i].area \in DOMAIN ctu.content
  <2>1. new.area \in DOMAIN ctu.content
    BY <1>5, <1>6 DEF Same
  <2> QED
    BY <1>7, <1>8, <2>1, ContentTop DEF IsTop
<1>11. IsCache(levels', cache', ctu) /\ \A a \in DOMAIN cache' : cache'[a] \in Cus /\ cache'[a].area = a
  <2>1. CASE cache' = cache
    <3>1. \A a \in DOMAIN cache : FoundIn(levels[m + 1], cache[a], ctu) => FoundIn(new, cache[a], ctu)
      BY <1>5, <1>6, <1>7, FoundAfter
    <3>2. IsCache(levels', cache, ctu)
      BY <1>5, <1>7, <1>8, <3>1, CacheTop DEF IInv
    <3> QED
      BY <2>1, <3>2 DEF IInv, TypeInv
  <2>2. CASE cache' # cache
    <3>1. cache' = [a \in DOMAIN cache \cup {lv.area} |-> IF a = lv.area THEN lv.best.cus[1] ELSE cache[a]]
          /\ Len(lv.best.cus) = 1
      BY <1>3, <2>2 DEF SetFromCs
    <3>2. lv.best.cus[1] = cu
      BY <1>6, <3>1
    <3> DEFINE entries == [a \in DOMAIN cache \cup {Cur.area} |-> IF a = Cur.area THEN cu ELSE cache[a]]
    <3>3. cache' = entries
      BY <1>6, <3>1, <3>2
    <3>4. IsCache(levels', entries, ctu)
      BY <1>3, <1>4, <1>6, <1>7, <1>8, CacheTested
    <3>5. \A a \in DOMAIN entries : entries[a] \in Cus /\ entries[a].area = a
      BY <1>4 DEF Coded, IInv, TypeInv
    <3> HIDE DEF entries
    <3> QED
      BY <3>3, <3>4, <3>5
  <2> QED
    BY <2>1, <2>2
<1>12. /\ ctu' \in Ctus /\ final' \in Codings
       /\ final'.cus # <<>> => Decodes(final', ctu.lut)
  BY <1>3 DEF IInv, TypeInv
<1> QED
  BY <1>3, <1>9, <1>10, <1>11, <1>12 DEF IInv, TypeInv

----------------------------------------------------------------------------
(* Splits.                                                                 *)

(* A level that begins.                                                    *)
LEMMA Begun ==
  ASSUME NEW c, NEW area \in Areas, NEW path \in Seq(Splits), NEW lut \in Luts,
         NEW lv, lv = Level(area, path, lut)
  PROVE  /\ lv \in Levels /\ LevelOk(lv, c) /\ lv.stage = "unsplit"
         /\ lv.area = area /\ lv.path = path /\ lv.oldLut = lut
<1>1. NoCoding(lut) \in Codings /\ NoCoding(lut).cus = <<>>
  BY DEF NoCoding, Codings
<1>2. AsFound(NoCoding(lut))
  BY <1>1 DEF AsFound
<1>3. /\ lv.area = area /\ lv.path = path /\ lv.oldLut = lut /\ lv.stage = "unsplit"
      /\ lv.best = NoCoding(lut) /\ lv.temp = NoCoding(lut) /\ lv.next = 1
  BY DEF Level
<1>4. lv \in Levels
  BY <1>1 DEF Level, Levels
<1>5. BestOk(lv)
  BY <1>1, <1>3 DEF BestOk
<1> QED
  BY <1>2, <1>3, <1>4, <1>5 DEF LevelOk

(* A first part is a part.                                                 *)
LEMMA PartIn ==
  ASSUME NEW a \in Areas, NEW s \in Splits, Fits(a, s), NEW k \in DOMAIN Parts(a, s)
  PROVE  /\ Parts(a, s)[k] \in Areas /\ 1 \in DOMAIN Parts(a, s) /\ k \in 1 .. 4
         /\ ctu \in Ctus /\ a \in DOMAIN ctu.content => Parts(a, s)[k] \in DOMAIN ctu.content
<1>1. Parts(a, s)[k] \in Areas /\ 1 \in DOMAIN Parts(a, s) /\ k \in 1 .. 4
  BY PartsLie
<1>2. ASSUME ctu \in Ctus, a \in DOMAIN ctu.content
      PROVE  Parts(a, s)[k] \in DOMAIN ctu.content
  BY <1>2, CtusAssumption, FitsCanSplit
<1> QED
  BY <1>1, <1>2

(* What can be split, where in the search the level may be.                *)
LEMMA CanSplitSame ==
  ASSUME NEW lv, NEW lw, lv.area = lw.area, lv.path = lw.path, NEW s \in Splits, CanSplit(lv, s)
  PROVE  CanSplit(lw, s)
  BY FiveSplits DEF CanSplit

\* the level in its first part
Into(lv, k, split) ==
  [Start(lv) EXCEPT !.stage = "parts", !.next = k + 1, !.split = split, !.part = 1, !.oldLut = lv.temp.lut]

(* The level when it has entered a split.                                  *)
LEMMA IntoLevel ==
  ASSUME NEW c, NEW old \in Levels, LevelOk(old, c), old.stage = "split",
         NEW k \in old.next .. 5, NEW split, split = TestModes(c.qtBeforeBt)[k], CanSplit(old, split),
         NEW lv, lv = Into(old, k, split)
  PROVE  /\ lv \in Levels /\ Same(lv, old) /\ LevelOk(lv, c)
         /\ lv.stage = "parts" /\ lv.next > old.next /\ lv.part = 1 /\ lv.temp.lut = lv.oldLut
         /\ lv.split = split /\ split \in Splits /\ Fits(lv.area, split)
<1>1. old.next \in 1 .. 6 /\ k \in 1 .. 5 /\ k + 1 \in 1 .. 6 /\ k + 1 > old.next /\ (k + 1) - 1 = k /\ k + 1 > 1
  BY DEF Levels
<1>2. split \in Splits
  BY <1>1, ModesOnce
<1>3. Fits(old.area, split) /\ old.area \in Areas
  BY <1>2, CanSplitFits DEF Levels
<1> DEFINE none == NoCoding(old.oldLut)
<1>4. old.temp.lut = old.oldLut /\ old.temp \in Codings /\ old.oldLut \in Luts
  BY DEF LevelOk, Levels
<1>5. none \in Codings /\ none.lut = old.oldLut /\ none.cus = <<>> /\ [old.temp EXCEPT !.cus = <<>>] = none
  BY <1>4 DEF NoCoding, Codings
<1>6. Decodes(none, old.oldLut)
  BY <1>4, DecodesNone
<1> HIDE DEF none
<1>7. Start(old) = [old EXCEPT !.temp = none]
  BY <1>5 DEF Start
<1>8. /\ lv.area = old.area /\ lv.path = old.path /\ lv.best = old.best /\ lv.temp = none
      /\ lv.stage = "parts" /\ lv.next = k + 1 /\ lv.split = split /\ lv.part = 1 /\ lv.oldLut = old.oldLut
      /\ lv \in Levels
  <2> DEFINE start == [old EXCEPT !.temp = none]
  <2>1. /\ start \in Levels /\ start.area = old.area /\ start.path = old.path /\ start.best = old.best
        /\ start.temp = none
    BY <1>5 DEF Levels
  <2>2. lv = [start EXCEPT !.stage = "parts", !.next = k + 1, !.split = split, !.part = 1, !.oldLut = old.oldLut]
    BY <1>4, <1>7 DEF Into
  <2> HIDE DEF start
  <2>3. /\ lv.area = start.area /\ lv.path = start.path /\ lv.best = start.best /\ lv.temp = start.temp
        /\ lv.stage = "parts" /\ lv.next = k + 1 /\ lv.split = split /\ lv.part = 1 /\ lv.oldLut = old.oldLut
    BY <2>1, <2>2 DEF Levels
  <2>4. lv \in Levels
    <3>1. PICK n \in 1 .. 6 : n = k + 1
      BY <1>1
    <3>2. split \in Splits \cup {"none"} /\ 1 \in 0 .. 4 /\ "parts" \in {"unsplit", "split", "parts"}
      BY <1>2
    <3>3. PICK part \in 0 .. 4 : part = 1
      BY <3>2
    <3>4. lv = [start EXCEPT !.stage = "parts", !.next = n, !.split = split, !.part = part, !.oldLut = old.oldLut]
      BY <2>2, <3>1, <3>3
    <3> QED
      BY <1>4, <2>1, <3>2, <3>4, ZenonT(40) DEF Levels
  <2> QED
    BY <2>1, <2>3, <2>4
<1>9. AsFound(old.best) /\ AsFound(none) /\ BestOk(old)
  BY <1>5 DEF LevelOk, AsFound
<1>10. BestOk(lv)
  BY <1>8, <1>9 DEF BestOk
<1>11. CanSplit(lv, split)
  BY <1>2, <1>8, CanSplitSame
<1>12. 1 \in DOMAIN Parts(lv.area, split) /\ Len(none.cus) = 0
  BY <1>2, <1>3, <1>5, <1>8, PartsLie
<1>13. LevelOk(lv, c)
  BY <1>1, <1>2, <1>5, <1>6, <1>8, <1>9, <1>10, <1>11, <1>12 DEF LevelOk
<1> QED
  BY <1>1, <1>2, <1>3, <1>5, <1>8, <1>13 DEF Same

(* What the actions leave alone.                                           *)
LEMMA Rest ==
  ASSUME IInv, ctu' = ctu, final' = final, cache' = cache,
         levels' \in Seq(Levels), \A i \in DOMAIN levels' : levels'[i].area \in DOMAIN ctu.content,
         IsStack(levels', ctu), IsCache(levels', cache, ctu)
  PROVE  IInv'
<1>1. TypeInv'
  BY DEF IInv, TypeInv
<1>2. /\ IsStack(levels', ctu') /\ IsCache(levels', cache', ctu')
      /\ final'.cus # <<>> => Decodes(final', ctu'.lut)
  BY DEF IInv
<1> QED
  BY <1>1, <1>2 DEF IInv

(* The stack's areas have content when a level is entered.                 *)
LEMMA ContentTops ==
  ASSUME IInv, NEW m \in Nat, m < Len(levels), NEW lv, lv.area \in DOMAIN ctu.content,
         NEW sub, sub.area \in DOMAIN ctu.content, NEW t, IsTops(t, levels, m, lv, sub)
  PROVE  t \in Seq(Levels) /\ \A i \in DOMAIN t : t[i].area \in DOMAIN ctu.content
<1>1. PICK n \in Nat : n = Len(levels) /\ DOMAIN levels = 1 .. n
  BY DEF IInv, TypeInv
<1>2. /\ t \in Seq(Levels) /\ DOMAIN t = 1 .. m + 2 /\ t[m + 1] = lv /\ t[m + 2] = sub
      /\ \A i \in 1 .. m : t[i] = levels[i]
  BY DEF IsTops
<1>3. \A i \in 1 .. m + 2 : i = m + 2 \/ i = m + 1 \/ (i \in 1 .. m /\ i \in 1 .. n)
  BY <1>1
<1> QED
  BY <1>1, <1>2, <1>3 DEF IInv, TypeInv

(* A split is entered.                                                     *)
LEMMA EnterStep ==
  ASSUME IInv, EnterSplit
  PROVE  IInv'
<1>1. PICK k \in Cur.next .. 5 : \E split \in {TestModes(ctu.qtBeforeBt)[k]} :
        /\ CanSplit(Cur, split)
        /\ levels' = Append(WithCur(Into(Cur, k, split)),
                            Level(Parts(Into(Cur, k, split).area, Into(Cur, k, split).split)[1],
                                  Append(Into(Cur, k, split).path, Into(Cur, k, split).split),
                                  Into(Cur, k, split).temp.lut))
  BY DEF EnterSplit, Into
<1>2. PICK split, lv, sub :
        /\ split = TestModes(ctu.qtBeforeBt)[k] /\ CanSplit(Cur, split)
        /\ lv = Into(Cur, k, split)
        /\ sub = Level(Parts(lv.area, lv.split)[1], Append(lv.path, lv.split), lv.temp.lut)
        /\ levels' = Append(WithCur(lv), sub)
  BY <1>1
<1>3. levels # <<>> /\ Cur.stage = "split" /\ ctu' = ctu /\ final' = final /\ cache' = cache
  BY DEF EnterSplit
<1>4. /\ Cur \in Levels /\ LevelOk(Cur, ctu) /\ levels \in Seq(Levels) /\ Len(levels) >= 1 /\ Len(levels) \in Nat
      /\ Cur = levels[Len(levels)] /\ Cur.area \in DOMAIN ctu.content /\ ctu \in Ctus
  BY <1>3, TopFacts
<1>5. /\ lv \in Levels /\ Same(lv, Cur) /\ LevelOk(lv, ctu)
      /\ lv.stage = "parts" /\ lv.next > Cur.next /\ lv.part = 1 /\ lv.temp.lut = lv.oldLut
      /\ lv.split = split /\ split \in Splits /\ Fits(lv.area, split)
  BY <1>2, <1>3, <1>4, IntoLevel
<1>6. /\ lv.area \in Areas /\ lv.path \in Seq(Splits) /\ lv.oldLut \in Luts /\ lv.area \in DOMAIN ctu.content
  BY <1>4, <1>5 DEF Levels, Same
<1>7. /\ Parts(lv.area, split)[1] \in Areas /\ Parts(lv.area, split)[1] \in DOMAIN ctu.content
  <2>1. 1 \in DOMAIN Parts(lv.area, split)
    BY <1>5, <1>6, PartsLie
  <2> QED
    BY <1>4, <1>5, <1>6, <2>1, PartIn
<1>8. Append(lv.path, split) \in Seq(Splits)
  BY <1>5, <1>6
<1>9. /\ sub \in Levels /\ LevelOk(sub, ctu) /\ sub.stage = "unsplit"
      /\ sub.area = Parts(lv.area, split)[1] /\ sub.path = Append(lv.path, split) /\ sub.oldLut = lv.oldLut
  <2>1. sub = Level(Parts(lv.area, split)[1], Append(lv.path, split), lv.oldLut)
    BY <1>2, <1>5
  <2>2. PICK area \in Areas, path \in Seq(Splits), lut \in Luts :
          area = Parts(lv.area, split)[1] /\ path = Append(lv.path, split) /\ lut = lv.oldLut
    BY <1>6, <1>7, <1>8
  <2>3. sub = Level(area, path, lut)
    BY <2>1, <2>2
  <2>4. /\ sub \in Levels /\ LevelOk(sub, ctu) /\ sub.stage = "unsplit"
        /\ sub.area = area /\ sub.path = path /\ sub.oldLut = lut
    BY <2>3, Begun
  <2> QED
    BY <2>2, <2>4
<1>10. Linked(lv, sub)
  BY <1>5, <1>9, SMTT(30) DEF Linked
<1>11. PICK m \in Nat : m = Len(levels) - 1 /\ m < Len(levels) /\ levels[m + 1] = Cur
  <2>1. Len(levels) - 1 \in Nat /\ (Len(levels) - 1) + 1 = Len(levels) /\ Len(levels) - 1 < Len(levels)
    BY <1>4, SMTT(30)
  <2> QED
    BY <1>4, <2>1
<1>12. IsTops(levels', levels, m, lv, sub)
  BY <1>2, <1>4, <1>5, <1>9, <1>11, Entered DEF WithCur
<1>13. IsStack(levels', ctu)
  BY <1>4, <1>5, <1>9, <1>10, <1>11, <1>12, StackTops DEF IInv
<1>14. IsCache(levels', cache, ctu)
  <2>1. \A a \in DOMAIN cache : FoundIn(levels[m + 1], cache[a], ctu) =>
          FoundIn(lv, cache[a], ctu) /\ FoundIn(sub, cache[a], ctu)
    <3>1. \A a \in DOMAIN cache : cache[a] \in Cus
      BY DEF IInv, TypeInv
    <3> QED
      BY <1>3, <1>4, <1>5, <1>9, <1>10, <1>11, <3>1, FoundEnter
  <2> QED
    BY <1>4, <1>11, <1>12, <2>1, CacheTops DEF IInv
<1>15. levels' \in Seq(Levels) /\ \A i \in DOMAIN levels' : levels'[i].area \in DOMAIN ctu.content
  BY <1>6, <1>7, <1>9, <1>11, <1>12, ContentTops
<1> QED
  BY <1>3, <1>13, <1>14, <1>15, Rest


----------------------------------------------------------------------------
(* Parts.                                                                  *)

(* The level above the one that is searched.                               *)
LEMMA AboveFacts ==
  ASSUME IInv, Len(levels) > 1
  PROVE  /\ levels # <<>> /\ Len(levels) >= 2 /\ Len(levels) - 2 \in Nat /\ Len(levels) - 2 < Len(levels)
         /\ levels[(Len(levels) - 2) + 1] = Above
         /\ Above \in Levels /\ LevelOk(Above, ctu) /\ Linked(Above, Cur) /\ Above.stage = "parts"
         /\ Above.area \in DOMAIN ctu.content
<1>1. levels \in Seq(Levels) /\ IsStack(levels, ctu) /\ \A i \in DOMAIN levels : levels[i].area \in DOMAIN ctu.content
  BY DEF IInv, TypeInv
<1>2. PICK n \in Nat : n = Len(levels) /\ n >= 2 /\ DOMAIN levels = 1 .. n
  BY <1>1
<1>3. /\ levels # <<>> /\ n - 2 \in Nat /\ n - 2 < n /\ (n - 2) + 1 = n - 1
      /\ n - 1 \in DOMAIN levels /\ n \in DOMAIN levels /\ n > 1
  BY <1>1, <1>2
<1>4. Above = levels[n - 1] /\ Cur = levels[n]
  BY <1>2 DEF Above, Cur, Last
<1>5. levels[n - 1] \in Levels /\ LevelOk(levels[n - 1], ctu) /\ Linked(levels[n - 1], levels[n])
  BY <1>1, <1>3, SMTT(30) DEF IsStack
<1>6. levels[n - 1].stage = "parts" /\ levels[n - 1].area \in DOMAIN ctu.content
  BY <1>1, <1>3, <1>5 DEF Linked
<1> QED
  BY <1>2, <1>3, <1>4, <1>5, <1>6

(* A level that ends with a coding: the decoder goes through it to the     *)
(* history with which it ends.                                             *)
LEMMA EndedDecodes ==
  ASSUME NEW c, NEW lv \in Levels, LevelOk(lv, c), lv.best.cus # <<>>, NEW cs, cs = Ended(lv)
  PROVE  cs \in Codings /\ Decodes(cs, lv.oldLut) /\ AsFound(cs) /\ Len(cs.cus) >= 1
<1>1. PICK best : best = lv.best
  OBVIOUS
<1>2. /\ best \in Codings /\ best.cus \in Seq(Cus) /\ best.lut \in Luts /\ lv.oldLut \in Luts
      /\ AsFound(best) /\ best.cus # <<>>
  BY <1>1 DEF Levels, Codings, LevelOk
<1>3. CASE Len(best.cus) = 1
  <2>1. PICK cu : cu = best.cus[1]
    OBVIOUS
  <2>2. cu \in Cus /\ cu.area = lv.area /\ best.lut = lv.oldLut /\ cu.motion = DeriveMotion(cu, lv.oldLut)
    <3>1. best.cus[1] \in Cus
      BY <1>2, <1>3
    <3>2. /\ best.cus[1].area = lv.area /\ best.lut = lv.oldLut
          /\ best.cus[1].motion = DeriveMotion(best.cus[1], lv.oldLut)
      BY <1>1, <1>2, <1>3 DEF LevelOk, BestOk
    <3> QED
      BY <2>1, <3>1, <3>2
  <2> DEFINE lut == SaveMotionInHMVP(lv.oldLut, cu)
  <2>3. lut \in Luts
    BY <1>2, <2>2, SavedType
  <2>4. cs = [best EXCEPT !.lut = lut]
    BY <1>1, <1>3, <2>1, <2>2 DEF Ended
  <2> HIDE DEF lut
  <2>5. cs \in Codings /\ cs.cus = best.cus /\ cs.lut = lut
    BY <1>2, <2>3, <2>4 DEF Codings
  <2>6. Decodes(cs, lv.oldLut)
    <3>1. cs.cus \in Seq(Cus) /\ Len(cs.cus) = 1 /\ cs.cus[1] = cu /\ cs.lut = SaveMotionInHMVP(lv.oldLut, cu)
      BY <1>2, <1>3, <2>1, <2>5 DEF lut
    <3> QED
      BY <1>2, <2>2, <3>1, DecodesOne
  <2> QED
    BY <1>2, <1>3, <2>5, <2>6 DEF AsFound
<1>4. CASE Len(best.cus) # 1
  <2>1. cs = best /\ Len(best.cus) > 1 /\ Decodes(best, lv.oldLut)
    BY <1>1, <1>2, <1>4 DEF LevelOk, BestOk, Ended
  <2>2. Len(best.cus) \in Nat
    BY <1>2
  <2> QED
    BY <1>2, <2>1, <2>2
<1> QED
  BY <1>3, <1>4

\* what an open level keeps, its temporary coding aside
SameButTemp(lv, old) ==
  /\ Same(lv, old) /\ lv.best = old.best /\ lv.stage = old.stage
  /\ lv.next = old.next /\ lv.split = old.split

(* The level with one more part coded.                                     *)
LEMMA PartLevel ==
  ASSUME NEW c, NEW old \in Levels, LevelOk(old, c), old.stage = "parts",
         NEW cs \in Codings, Decodes(cs, old.temp.lut), AsFound(cs), Len(cs.cus) >= 1,
         NEW lv, lv = WithPart(old, cs)
  PROVE  /\ lv \in Levels /\ SameButTemp(lv, old) /\ lv.part = old.part
         /\ Decodes(lv.temp, lv.oldLut) /\ AsFound(lv.temp) /\ Len(lv.temp.cus) >= old.part
         /\ lv.temp.lut = cs.lut
<1>1. PICK temp : temp = old.temp
  OBVIOUS
<1>2. /\ temp \in Codings /\ temp.cus \in Seq(Cus) /\ temp.lut \in Luts /\ old.oldLut \in Luts
      /\ cs.cus \in Seq(Cus) /\ cs.lut \in Luts /\ old.part \in 0 .. 4
  BY <1>1 DEF Levels, Codings
<1>3. Decodes(temp, old.oldLut) /\ AsFound(temp) /\ Len(temp.cus) >= old.part - 1 /\ Decodes(cs, temp.lut)
  BY <1>1 DEF LevelOk
<1> DEFINE both == [lut |-> cs.lut, cus |-> temp.cus \o cs.cus]
<1>4. Decodes(both, old.oldLut)
  BY <1>2, <1>3, DecodesBoth
<1>5. /\ both \in Codings /\ both.lut = cs.lut /\ both.cus = temp.cus \o cs.cus
      /\ Len(both.cus) = Len(temp.cus) + Len(cs.cus)
      /\ \A n \in 1 .. Len(temp.cus) : both.cus[n] = temp.cus[n]
      /\ \A n \in 1 .. Len(cs.cus) : both.cus[Len(temp.cus) + n] = cs.cus[n]
  <2>1. temp.cus \o cs.cus \in Seq(Cus)
    BY <1>2
  <2> QED
    BY <1>2, <2>1, Joined DEF Codings
<1>6. lv = [old EXCEPT !.temp = both]
  BY <1>1 DEF WithPart
<1> HIDE DEF both
<1>7. PICK p \in Nat, q \in Nat : p = Len(temp.cus) /\ q = Len(cs.cus)
  BY <1>2
<1>8. AsFound(both)
  <2>1. both.cus \in Seq(Cus) /\ DOMAIN both.cus = 1 .. p + q
    <3>1. both.cus \in Seq(Cus) /\ Len(both.cus) = p + q
      BY <1>5, <1>7 DEF Codings
    <3>2. DOMAIN both.cus = 1 .. Len(both.cus)
      BY <3>1
    <3> QED
      BY <3>1, <3>2
  <2>2. ASSUME NEW n \in 1 .. p + q
        PROVE  both.cus[n].motion = both.cus[n].found
    <3>1. CASE n \in 1 .. p
      <4>1. n \in DOMAIN temp.cus
        BY <1>2, <1>7, <3>1
      <4> QED
        BY <1>3, <1>5, <1>7, <3>1, <4>1 DEF AsFound
    <3>2. CASE n \notin 1 .. p
      <4>1. n - p \in 1 .. q /\ p + (n - p) = n
        BY <2>2, <3>2
      <4>2. n - p \in DOMAIN cs.cus
        BY <1>2, <1>7, <4>1
      <4>3. both.cus[n] = cs.cus[n - p]
        BY <1>5, <1>7, <4>1
      <4> QED
        BY <4>2, <4>3 DEF AsFound
    <3> QED
      BY <3>1, <3>2
  <2> QED
    BY <2>1, <2>2 DEF AsFound
<1>9. Len(both.cus) >= old.part
  <2>1. p >= old.part - 1 /\ q >= 1 /\ Len(both.cus) = p + q
    BY <1>3, <1>5, <1>7
  <2> QED
    BY <1>2, <2>1
<1>10. /\ lv \in Levels /\ lv.temp = both /\ lv.area = old.area /\ lv.path = old.path /\ lv.best = old.best
       /\ lv.stage = old.stage /\ lv.next = old.next /\ lv.split = old.split /\ lv.part = old.part
       /\ lv.oldLut = old.oldLut
  BY <1>5, <1>6 DEF Levels
<1> QED
  BY <1>4, <1>5, <1>8, <1>9, <1>10 DEF SameButTemp, Same

\* the level in its next part
Onward(lv) == [lv EXCEPT !.part = @ + 1]

(* The level when it goes on.                                              *)
LEMMA OnwardLevel ==
  ASSUME NEW c, NEW old \in Levels, LevelOk(old, c), old.stage = "parts",
         old.part < Len(Parts(old.area, old.split)),
         NEW lv \in Levels, SameButTemp(lv, old), lv.part = old.part,
         Decodes(lv.temp, lv.oldLut), AsFound(lv.temp), Len(lv.temp.cus) >= old.part,
         NEW new, new = Onward(lv)
  PROVE  /\ new \in Levels /\ Same(new, old) /\ LevelOk(new, c) /\ new.stage = "parts"
         /\ new.next = old.next /\ new.split = old.split /\ new.part = old.part + 1
         /\ new.temp = lv.temp
<1>1. /\ old.split \in Splits /\ Fits(old.area, old.split) /\ old.part \in DOMAIN Parts(old.area, old.split)
      /\ old.area \in Areas
  BY InParts DEF Levels
<1>2. /\ DOMAIN Parts(old.area, old.split) = 1 .. Len(Parts(old.area, old.split))
      /\ Len(Parts(old.area, old.split)) \in 2 .. 4
  BY <1>1, PartsLie
<1>3. old.part + 1 \in DOMAIN Parts(old.area, old.split) /\ old.part + 1 \in 0 .. 4
      /\ (old.part + 1) - 1 = old.part
  <2>1. PICK n \in 2 .. 4 : n = Len(Parts(old.area, old.split)) /\ DOMAIN Parts(old.area, old.split) = 1 .. n
    BY <1>2
  <2>2. old.part \in 1 .. n /\ old.part < n
    BY <1>1, <2>1
  <2>3. old.part + 1 \in 1 .. n /\ old.part + 1 \in 0 .. 4 /\ (old.part + 1) - 1 = old.part
    BY <2>2
  <2> QED
    BY <2>1, <2>3
<1>4. PICK part \in 0 .. 4 : part = old.part + 1
  BY <1>3
<1>5. new = [lv EXCEPT !.part = part]
  BY <1>4 DEF Onward
<1>6. /\ new \in Levels /\ new.area = lv.area /\ new.path = lv.path /\ new.best = lv.best /\ new.temp = lv.temp
      /\ new.stage = lv.stage /\ new.next = lv.next /\ new.split = lv.split /\ new.oldLut = lv.oldLut
      /\ new.part = part
  BY <1>5 DEF Levels
<1>7. /\ new.area = old.area /\ new.path = old.path /\ new.best = old.best /\ new.oldLut = old.oldLut
      /\ new.stage = "parts" /\ new.next = old.next /\ new.split = old.split
  BY <1>6 DEF SameButTemp, Same
<1>8. /\ AsFound(old.best) /\ BestOk(old) /\ old.next > 1
      /\ old.split = TestModes(c.qtBeforeBt)[old.next - 1] /\ CanSplit(old, old.split)
  BY DEF LevelOk
<1>9. BestOk(new)
  BY <1>7, <1>8 DEF BestOk
<1>10. CanSplit(new, new.split)
  BY <1>1, <1>7, <1>8, CanSplitSame
<1>11. Len(new.temp.cus) >= new.part - 1 /\ new.part \in DOMAIN Parts(new.area, new.split)
  BY <1>3, <1>4, <1>6, <1>7
<1>12. Decodes(new.temp, new.oldLut) /\ AsFound(new.temp)
  BY <1>6
<1>13. LevelOk(new, c)
  BY <1>1, <1>7, <1>8, <1>9, <1>10, <1>11, <1>12 DEF LevelOk
<1> QED
  BY <1>4, <1>6, <1>7, <1>13 DEF Same

(* A part ends, and the next begins.                                       *)
LEMMA NextStep ==
  ASSUME IInv, NextPart
  PROVE  IInv'
<1>1. PICK cs, lv, new, sub :
        /\ cs = Ended(Cur) /\ lv = WithPart(Above, cs) /\ new = Onward(lv)
        /\ sub = Level(Parts(new.area, new.split)[new.part], Cur.path, new.temp.lut)
        /\ levels' = SubSeq(levels, 1, Len(levels) - 2) \o <<new, sub>>
  BY DEF NextPart, Onward
<1>2. /\ Len(levels) > 1 /\ Cur.best.cus # <<>> /\ ctu' = ctu /\ final' = final /\ cache' = cache
      /\ Above.part < Len(Parts(Above.area, Above.split))
  BY DEF NextPart
<1>3. /\ Len(levels) >= 2 /\ Above \in Levels /\ LevelOk(Above, ctu) /\ Linked(Above, Cur)
      /\ Above.stage = "parts" /\ Above.area \in DOMAIN ctu.content
  BY <1>2, AboveFacts
<1>4. Cur \in Levels /\ LevelOk(Cur, ctu) /\ ctu \in Ctus /\ levels \in Seq(Levels)
  BY <1>2, AboveFacts, TopFacts
<1>5. cs \in Codings /\ Decodes(cs, Above.temp.lut) /\ AsFound(cs) /\ Len(cs.cus) >= 1
  <2>1. cs \in Codings /\ Decodes(cs, Cur.oldLut) /\ AsFound(cs) /\ Len(cs.cus) >= 1
    BY <1>1, <1>2, <1>4, EndedDecodes
  <2> QED
    BY <1>3, <2>1 DEF Linked
<1>6. /\ lv \in Levels /\ SameButTemp(lv, Above) /\ lv.part = Above.part
      /\ Decodes(lv.temp, lv.oldLut) /\ AsFound(lv.temp) /\ Len(lv.temp.cus) >= Above.part
  BY <1>1, <1>3, <1>5, PartLevel
<1>7. /\ new \in Levels /\ Same(new, Above) /\ LevelOk(new, ctu) /\ new.stage = "parts"
      /\ new.next = Above.next /\ new.split = Above.split /\ new.part = Above.part + 1
  <2>1. PICK old : old = Above
    OBVIOUS
  <2>2. /\ old \in Levels /\ LevelOk(old, ctu) /\ old.stage = "parts" /\ old.part < Len(Parts(old.area, old.split))
        /\ SameButTemp(lv, old) /\ lv.part = old.part /\ Len(lv.temp.cus) >= old.part
    BY <1>2, <1>3, <1>6, <2>1
  <2>3. lv \in Levels /\ Decodes(lv.temp, lv.oldLut) /\ AsFound(lv.temp) /\ new = Onward(lv)
    BY <1>1, <1>6
  <2>4. /\ new \in Levels /\ Same(new, old) /\ LevelOk(new, ctu) /\ new.stage = "parts"
        /\ new.next = old.next /\ new.split = old.split /\ new.part = old.part + 1
    BY <2>2, <2>3, OnwardLevel
  <2> QED
    BY <2>1, <2>4
<1>8. /\ new.area \in Areas /\ new.split \in Splits /\ Fits(new.area, new.split)
      /\ new.part \in DOMAIN Parts(new.area, new.split) /\ new.area \in DOMAIN ctu.content
      /\ new.temp.lut \in Luts /\ new.part # 1
  <2>1. new.area \in Areas /\ new.temp \in Codings /\ Above.part \in 0 .. 4 /\ Above.area \in Areas
    BY <1>3, <1>7 DEF Levels
  <2>2. new.split \in Splits /\ Fits(new.area, new.split) /\ new.part \in DOMAIN Parts(new.area, new.split)
    BY <1>7, InParts
  <2>3. Above.part \in DOMAIN Parts(Above.area, Above.split) /\ Above.split \in Splits /\ Fits(Above.area, Above.split)
    BY <1>3, InParts
  <2>4. Above.part >= 1
    BY <2>1, <2>3, PartsLie
  <2> QED
    BY <1>3, <1>7, <2>1, <2>2, <2>4 DEF Same, Codings
<1>9. PICK area \in Areas, path \in Seq(Splits), lut \in Luts :
        /\ area = Parts(new.area, new.split)[new.part] /\ path = Cur.path /\ lut = new.temp.lut
        /\ area \in DOMAIN ctu.content
  <2>1. Parts(new.area, new.split)[new.part] \in Areas
    BY <1>8, PartIn
  <2>2. Parts(new.area, new.split)[new.part] \in DOMAIN ctu.content
    BY <1>4, <1>8, PartIn
  <2>3. Cur.path \in Seq(Splits)
    BY <1>4 DEF Levels
  <2> QED
    BY <1>8, <2>1, <2>2, <2>3
<1>10. /\ sub \in Levels /\ LevelOk(sub, ctu) /\ sub.stage = "unsplit"
       /\ sub.area = area /\ sub.path = path /\ sub.oldLut = lut
  <2>1. sub = Level(area, path, lut)
    BY <1>1, <1>9
  <2> QED
    BY <2>1, Begun
<1>11. Linked(new, sub)
  <2>1. Cur.path = Append(Above.path, Above.split)
    BY <1>3 DEF Linked
  <2>2. path = Append(new.path, new.split)
    BY <1>7, <1>9, <2>1 DEF Same
  <2> QED
    BY <1>7, <1>9, <1>10, <2>2 DEF Linked
<1>12. PICK m \in Nat : m = Len(levels) - 2 /\ m < Len(levels) /\ levels[m + 1] = Above
  BY <1>2, AboveFacts
<1>13. IsTops(levels', levels, m, new, sub)
  BY <1>1, <1>3, <1>4, <1>7, <1>10, <1>12, Moved
<1>14. IsStack(levels', ctu)
  BY <1>4, <1>7, <1>8, <1>10, <1>11, <1>12, <1>13, StackTops DEF IInv
<1>15. IsCache(levels', cache, ctu)
  <2>1. \A a \in DOMAIN cache : cache[a] \in Cus
    BY DEF IInv, TypeInv
  <2>2. \A a \in DOMAIN cache : FoundIn(levels[m + 1], cache[a], ctu) =>
          FoundIn(new, cache[a], ctu) /\ FoundIn(sub, cache[a], ctu)
    BY <1>3, <1>7, <1>10, <1>11, <1>12, <2>1, FoundNext
  <2> QED
    BY <1>4, <1>12, <1>13, <2>2, CacheTops DEF IInv
<1>16. levels' \in Seq(Levels) /\ \A i \in DOMAIN levels' : levels'[i].area \in DOMAIN ctu.content
  BY <1>8, <1>9, <1>10, <1>12, <1>13, ContentTops
<1> QED
  BY <1>2, <1>14, <1>15, <1>16, Rest

(* The level above takes over.                                             *)
LEMMA BackStep ==
  ASSUME IInv, Len(levels) > 1, ctu' = ctu, final' = final, cache' = cache,
         NEW new \in Levels, Same(new, Above), LevelOk(new, ctu), new.stage = "split", new.next = Above.next,
         levels' = Append(SubSeq(levels, 1, Len(levels) - 2), new)
  PROVE  IInv'
<1>1. Len(levels) >= 2 /\ Above.area \in DOMAIN ctu.content /\ levels \in Seq(Levels)
  BY AboveFacts, TopFacts
<1>2. PICK m \in Nat : m = Len(levels) - 2 /\ m < Len(levels) /\ levels[m + 1] = Above
  BY AboveFacts
<1>3. IsTop(levels', levels, m, new)
  BY <1>1, <1>2, Left
<1>4. IsStack(levels', ctu)
  BY <1>1, <1>2, <1>3, StackTop DEF IInv
<1>5. IsCache(levels', cache, ctu)
  <2>1. \A a \in DOMAIN cache : FoundIn(levels[m + 1], cache[a], ctu) => FoundIn(new, cache[a], ctu)
    <3>1. levels[m + 1] \in Levels /\ Same(new, levels[m + 1]) /\ new.next = levels[m + 1].next
      BY <1>2, AboveFacts
    <3> QED
      BY <3>1, FoundAfter
  <2> QED
    BY <1>1, <1>2, <1>3, <2>1, CacheTop DEF IInv
<1>6. levels' \in Seq(Levels) /\ \A i \in DOMAIN levels' : levels'[i].area \in DOMAIN ctu.content
  <2>1. new.area \in DOMAIN ctu.content
    BY <1>1 DEF Same
  <2> QED
    BY <1>2, <1>3, <2>1, ContentTop DEF IsTop
<1> QED
  BY <1>4, <1>5, <1>6, Rest

(* The level when it leaves a split: its history is what it was.           *)
LEMMA RestoredLevel ==
  ASSUME NEW c, NEW lv \in Levels, AsFound(lv.best), AsFound(lv.temp), BestOk(lv), NEW new, new = Restored(lv)
  PROVE  /\ new \in Levels /\ Same(new, lv) /\ LevelOk(new, c) /\ new.stage = "split" /\ new.next = lv.next
<1> DEFINE temp == [lv.temp EXCEPT !.lut = lv.oldLut]
<1>1. temp \in Codings /\ temp.lut = lv.oldLut /\ temp.cus = lv.temp.cus
  BY DEF Levels, Codings
<1>2. new = [lv EXCEPT !.stage = "split", !.temp = temp]
  BY DEF Restored
<1> HIDE DEF temp
<1>3. /\ new \in Levels /\ new.temp = temp /\ new.stage = "split" /\ new.best = lv.best /\ new.next = lv.next
      /\ new.area = lv.area /\ new.path = lv.path /\ new.oldLut = lv.oldLut
  BY <1>1, <1>2 DEF Levels
<1>4. AsFound(temp)
  BY <1>1 DEF AsFound
<1>5. BestOk(new)
  BY <1>3 DEF BestOk
<1> QED
  BY <1>1, <1>3, <1>4, <1>5 DEF LevelOk, Same

(* A split is abandoned.                                                   *)
LEMMA AbandonStep ==
  ASSUME IInv, AbandonSplit
  PROVE  IInv'
<1>1. /\ Len(levels) > 1 /\ ctu' = ctu /\ final' = final /\ cache' = cache
      /\ levels' = Append(SubSeq(levels, 1, Len(levels) - 2), Restored(Above))
  BY DEF AbandonSplit
<1>2. PICK new : new = Restored(Above)
  OBVIOUS
<1>3. Above \in Levels /\ AsFound(Above.best) /\ AsFound(Above.temp) /\ BestOk(Above)
  BY <1>1, AboveFacts DEF LevelOk
<1>4. new \in Levels /\ Same(new, Above) /\ LevelOk(new, ctu) /\ new.stage = "split" /\ new.next = Above.next
  BY <1>2, <1>3, RestoredLevel
<1> QED
  BY <1>1, <1>2, <1>4, BackStep

(* The split when all its parts are coded.                                 *)
LEMMA SplitDecided ==
  ASSUME NEW c, NEW old \in Levels, LevelOk(old, c), old.stage = "parts",
         old.part = Len(Parts(old.area, old.split)),
         NEW part \in Levels, SameButTemp(part, old), Decodes(part.temp, part.oldLut), AsFound(part.temp),
         Len(part.temp.cus) >= old.part, NEW better \in BOOLEAN, NEW lv, lv = CheckBestMode(part, better)
  PROVE  lv \in Levels /\ Same(lv, old) /\ lv.next = old.next /\ AsFound(lv.best) /\ AsFound(lv.temp) /\ BestOk(lv)
<1>1. Len(part.temp.cus) > 1
  <2>1. old.split \in Splits /\ Fits(old.area, old.split) /\ old.area \in Areas
    BY InParts DEF Levels
  <2>2. old.part \in 2 .. 4
    BY <2>1, PartsLie
  <2>3. Len(part.temp.cus) \in Nat
    BY DEF Levels, Codings
  <2>4. PICK p \in 2 .. 4, n \in Nat : p = old.part /\ n = Len(part.temp.cus)
    BY <2>2, <2>3
  <2>5. n >= p
    BY <2>4
  <2>6. n > 1
    BY <2>5
  <2> QED
    BY <2>4, <2>6
<1>2. AsFound(old.best) /\ BestOk(old)
  BY DEF LevelOk
<1>3. CASE better
  <2>1. lv = [part EXCEPT !.best = part.temp, !.temp = part.best]
    BY <1>3 DEF CheckBestMode
  <2>2. /\ lv \in Levels /\ lv.best = part.temp /\ lv.temp = part.best /\ lv.area = part.area
        /\ lv.path = part.path /\ lv.oldLut = part.oldLut /\ lv.next = part.next
    BY <2>1 DEF Levels
  <2>3. BestOk(lv)
    BY <1>1, <2>2 DEF BestOk
  <2> QED
    BY <1>2, <2>2, <2>3 DEF SameButTemp, Same
<1>4. CASE ~better
  <2>1. lv = part
    BY <1>4 DEF CheckBestMode
  <2>2. BestOk(lv)
    BY <1>2, <2>1 DEF BestOk, SameButTemp, Same
  <2> QED
    BY <1>2, <2>1, <2>2 DEF SameButTemp
<1> QED
  BY <1>3, <1>4

(* The last part ends.                                                     *)
LEMMA EndStep ==
  ASSUME IInv, EndSplit
  PROVE  IInv'
<1>1. PICK better \in BOOLEAN :
        levels' = Append(SubSeq(levels, 1, Len(levels) - 2),
                         Restored(CheckBestMode(WithPart(Above, Ended(Cur)), better)))
  BY DEF EndSplit
<1>2. PICK cs, part, lv, new :
        /\ cs = Ended(Cur) /\ part = WithPart(Above, cs) /\ lv = CheckBestMode(part, better) /\ new = Restored(lv)
  OBVIOUS
<1>3. /\ Len(levels) > 1 /\ Cur.best.cus # <<>> /\ ctu' = ctu /\ final' = final /\ cache' = cache
      /\ Above.part = Len(Parts(Above.area, Above.split))
      /\ levels' = Append(SubSeq(levels, 1, Len(levels) - 2), new)
  BY <1>1, <1>2 DEF EndSplit
<1>4. Above \in Levels /\ LevelOk(Above, ctu) /\ Linked(Above, Cur) /\ Above.stage = "parts"
  BY <1>3, AboveFacts
<1>5. Cur \in Levels /\ LevelOk(Cur, ctu)
  BY <1>3, AboveFacts, TopFacts
<1>6. cs \in Codings /\ Decodes(cs, Above.temp.lut) /\ AsFound(cs) /\ Len(cs.cus) >= 1
  <2>1. cs \in Codings /\ Decodes(cs, Cur.oldLut) /\ AsFound(cs) /\ Len(cs.cus) >= 1
    BY <1>2, <1>3, <1>5, EndedDecodes
  <2> QED
    BY <1>4, <2>1 DEF Linked
<1>7. /\ part \in Levels /\ SameButTemp(part, Above)
      /\ Decodes(part.temp, part.oldLut) /\ AsFound(part.temp) /\ Len(part.temp.cus) >= Above.part
  BY <1>2, <1>4, <1>6, PartLevel
<1>8. /\ lv \in Levels /\ Same(lv, Above) /\ lv.next = Above.next
      /\ AsFound(lv.best) /\ AsFound(lv.temp) /\ BestOk(lv)
  BY <1>2, <1>3, <1>4, <1>7, SplitDecided
<1>9. new \in Levels /\ Same(new, lv) /\ LevelOk(new, ctu) /\ new.stage = "split" /\ new.next = lv.next
  BY <1>2, <1>8, RestoredLevel
<1>10. Same(new, Above) /\ new.next = Above.next
  BY <1>8, <1>9 DEF Same
<1> QED
  BY <1>3, <1>9, <1>10, BackStep

(* The CTU ends.                                                           *)
LEMMA CtuStep ==
  ASSUME IInv, EndCtu
  PROVE  IInv'
<1>1. /\ Len(levels) = 1 /\ Cur.best.cus # <<>> /\ final' = Ended(Cur) /\ levels' = <<>>
      /\ ctu' = ctu /\ cache' = cache
  BY DEF EndCtu
<1>2. levels \in Seq(Levels) /\ IsStack(levels, ctu)
  BY DEF IInv, TypeInv
<1>3. levels # <<>>
  BY <1>1
<1>4. Cur = levels[1] /\ Cur \in Levels /\ LevelOk(Cur, ctu) /\ Cur.oldLut = ctu.lut
  BY <1>1, <1>2, <1>3, TopFacts DEF IsStack
<1>5. final' \in Codings /\ Decodes(final', ctu.lut)
  BY <1>1, <1>4, EndedDecodes
<1>6. IsStack(levels', ctu) /\ IsCache(levels', cache, ctu)
  BY <1>1 DEF IsStack, IsCache
<1>7. levels' \in Seq(Levels) /\ \A i \in DOMAIN levels' : levels'[i].area \in DOMAIN ctu.content
  BY <1>1
<1> QED
  BY <1>1, <1>5, <1>6, <1>7 DEF IInv, TypeInv

----------------------------------------------------------------------------
(* The invariant.                                                          *)

(* It holds when a CTU begins.                                             *)
LEMMA Initially == Init => IInv
<1> SUFFICES ASSUME Init
             PROVE  IInv
  OBVIOUS
<1>1. ctu \in Ctus /\ cache = <<>> /\ final = NoCoding(ctu.lut)
  BY DEF Init
<1>2. PICK area \in Areas, path \in Seq(Splits), lut \in Luts :
        area = ctu.area /\ path = <<>> /\ lut = ctu.lut /\ area \in DOMAIN ctu.content
  <2>1. ctu.area \in Areas /\ ctu.lut \in Luts /\ ctu.area \in DOMAIN ctu.content
    BY <1>1, CtusAssumption
  <2>2. <<>> \in Seq(Splits)
    OBVIOUS
  <2> QED
    BY <2>1, <2>2
<1>3. PICK lv : lv = Level(area, path, lut)
  OBVIOUS
<1>4. levels = <<lv>>
  BY <1>2, <1>3 DEF Init
<1>5. /\ lv \in Levels /\ LevelOk(lv, ctu) /\ lv.stage = "unsplit"
      /\ lv.area = area /\ lv.path = path /\ lv.oldLut = lut
  BY <1>3, Begun
<1>6. levels \in Seq(Levels) /\ DOMAIN levels = {1} /\ Len(levels) = 1 /\ levels[1] = lv
  BY <1>4, <1>5
<1>7. Nested(lv, lv)
  BY <1>2, <1>5, WithinItself DEF Nested, StartsWith
<1>8. IsStack(levels, ctu)
  <2>1. Len(lv.path) = 1 - 1
    BY <1>2, <1>5
  <2> QED
    BY <1>2, <1>5, <1>6, <1>7, <2>1 DEF IsStack
<1>9. IsCache(levels, cache, ctu) /\ \A a \in DOMAIN cache : cache[a] \in Cus /\ cache[a].area = a
  <2>1. DOMAIN cache = {}
    BY <1>1
  <2> QED
    BY <2>1 DEF IsCache
<1>10. final \in Codings /\ final.cus = <<>>
  BY <1>1, <1>2 DEF NoCoding, Codings
<1> QED
  BY <1>1, <1>2, <1>5, <1>6, <1>8, <1>9, <1>10 DEF IInv, TypeInv

(* It holds always.                                                        *)
LEMMA Invariance == Spec => []IInv
<1>1. IInv /\ [Next]_vars => IInv'
  <2> SUFFICES ASSUME IInv, [Next]_vars
               PROVE  IInv'
    OBVIOUS
  <2>1. CASE TestUnsplit
    BY <2>1, UnsplitStep
  <2>2. CASE EnterSplit
    BY <2>2, EnterStep
  <2>3. CASE NextPart
    BY <2>3, NextStep
  <2>4. CASE EndSplit
    BY <2>4, EndStep
  <2>5. CASE AbandonSplit
    BY <2>5, AbandonStep
  <2>6. CASE EndCtu
    BY <2>6, CtuStep
  <2>7. CASE UNCHANGED vars
    BY <2>7 DEF vars, IInv, TypeInv
  <2> QED
    BY <2>1, <2>2, <2>3, <2>4, <2>5, <2>6, <2>7 DEF Next
<1> QED
  BY <1>1, Initially, PTL DEF Spec

----------------------------------------------------------------------------
(* The decoder that begins with the CTU's history derives for every CU of  *)
(* the coding chosen the motion the encoder predicted it with, and ends    *)
(* with the encoder's history: for every content, every history and        *)
(* whatever wins (EncCu::xCompressCU, xCheckModeSplit; DecCu).             *)
THEOREM MotionsAgreeAlways == Spec => []MotionsAgree
<1>1. IInv => MotionsAgree
  <2> SUFFICES ASSUME IInv, final.cus # <<>>
               PROVE  LET decoded == Decode(final.cus, ctu.lut)
                      IN /\ decoded.motions = [i \in DOMAIN final.cus |-> final.cus[i].motion]
                         /\ decoded.lut = final.lut
    BY DEF MotionsAgree
  <2>1. final \in Codings /\ Decodes(final, ctu.lut) /\ ctu \in Ctus
    BY DEF IInv, TypeInv
  <2>2. ctu.lut \in Luts
    BY <2>1, CtusAssumption
  <2> QED
    BY <2>1, <2>2, DecodeAgrees
<1> QED
  BY <1>1, Invariance, PTL

(* A coding that isTheSameNbHood lets pass has the motion with which it    *)
(* was searched: the history is the one it was found with.                 *)
THEOREM ReusedAlways == Spec => []ReusedAsFound
<1>1. IInv => ReusedAsFound
  <2> SUFFICES ASSUME IInv, NEW i \in DOMAIN levels
               PROVE  AsFound(levels[i].best) /\ AsFound(levels[i].temp)
    BY DEF ReusedAsFound, AsFound
  <2>1. LevelOk(levels[i], ctu)
    BY DEF IInv, IsStack
  <2> QED
    BY <2>1 DEF LevelOk
<1> QED
  BY <1>1, Invariance, PTL

(* The structures of every level are codings, and no history ever has more *)
(* than MAX_NUM_HMVP_CANDS candidates (addMiToLut makes room first).       *)
THEOREM TypeCorrect == Spec => []TypeInv
  BY Invariance, PTL DEF IInv

=============================================================================
