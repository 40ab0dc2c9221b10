------------------------ MODULE UnitPartitionerProofs ------------------------
(***************************************************************************)
(* Whatever splits are opened, walked and abandoned, leaving a split gives *)
(* back the counters and the tree status the CU had before it, and what    *)
(* its level has cached is still right: the inductive invariant relates    *)
(* each open level to the counters that were in force below it.  And       *)
(* however a CTU is split, on the boundary or not, no CHECK fires, every   *)
(* block can be coded, and what is coded is what the picture has: TreeInv, *)
(* on channel, tree and mode type, GeoInv, on the areas of the open        *)
(* levels, and SumInv, on the samples coded of them, each rest on those    *)
(* before.                                                                 *)
(*                                                                         *)
(* At the end, NetSizes: the CNN knows every CU it is asked about and has  *)
(* a value for every split the partitioner permits there; what it decides  *)
(* is what its own values say.                                             *)
(***************************************************************************)
EXTENDS NetSizes, SequenceTheorems, TLAPS

AreaT == [x : Nat, y : Nat, w : Nat, h : Nat]
SplitT == {"CTU_LEVEL", NoSplit} \cup CuSplits \cup TuSplits
Level == [split : SplitT, parts : Seq(AreaT), idx : Nat,
          checkdIfImplicit : BOOLEAN, implicitSplit : SplitT, qg : BOOLEAN]
ChT == {"LUMA", "CHROMA"}
TreeT == {"TREE_D", "TREE_L", "TREE_C"}
ModeT == {"ALL", "INTER", "INTRA"}
FrameT == [ch : ChT, tree : TreeT, mode : ModeT, childMode : ModeT,
           coded : Nat, done : Nat, base : Counters]

\* the counters while level i is the current one
C(i) == IF i = Len(stack) THEN curr ELSE frames[i].base

\* what the counters are inside level lv, when they were b before the split
Inside(c, b, lv, implicit) ==
  LET s == lv.split
  IN /\ c.depth = b.depth + 1
     /\ c.qt = b.qt + One(s = Quad)
     /\ c.tr = b.tr + One(s \in TuSplits)
     /\ c.mt = b.mt + One(s \in Mt)
     /\ c.bt = b.bt + BtDepths(s, lv.idx)
     /\ c.sub = b.sub + Subdivs(s, lv.idx)
     /\ c.implicitBt = b.implicitBt + One(s \in Mt /\ implicit)

TypeInv ==
  /\ cfg \in Configs
  /\ stack \in Seq(Level) /\ Len(stack) >= 1
  /\ curr \in Counters
  /\ frames \in Seq(FrameT)
  /\ at \in Places /\ coded \in Nat
  /\ chType \in ChT /\ treeType \in TreeT /\ modeType \in ModeT
  /\ Len(frames) = Len(stack) - (IF at = "chroma" THEN 0 ELSE 1)
  /\ at = "chroma" => frames[Len(stack)].base = curr

\* where the walk stands, level by level
PlaceOf(lv, inner) ==
  /\ lv.idx <= Len(lv.parts)
  /\ inner => lv.idx < Len(lv.parts)
  /\ lv.split \in Tt => Len(lv.parts) = 3

PlaceAt(i) ==
  /\ PlaceOf(stack[i], i < Len(stack) \/ at # "past")
  /\ i = 1 => stack[i].split = "CTU_LEVEL" /\ stack[i].qg
  /\ i > 1 => /\ stack[i].split \in CuSplits \cup TuSplits
              /\ stack[i].split \in CuSplits => stack[i - 1].split \notin TuSplits

CountAt(i) ==
  /\ stack[i].split \notin TuSplits => C(i).tr = 0
  /\ i > 1 => Inside(C(i), C(i - 1), stack[i], IsImplicit(stack[i - 1]))

\* d is the deepest of the levels up to i that open quantisation groups
QgLevel(d, i) ==
  /\ \A j \in 1 .. i : stack[j].qg <=> j <= d
  /\ d < Len(stack) \/ at # "past" => C(i).qgPos = Pos(AreaOf(stack[d]))

QgAt(i) ==
  /\ \E d \in 1 .. i : QgLevel(d, i)
  /\ i > 1 /\ ~stack[i].qg => C(i).qgPos = C(i - 1).qgPos

TopInv ==
  /\ at \in {"cu", "out", "chroma"} => Top(stack).split \notin TuSplits
  /\ at = "tu" => Top(stack).split \in TuSplits
  /\ at = "past" => Len(stack) > 1 /\ Past(Top(stack))

LevelInv(i) == PlaceAt(i) /\ CountAt(i) /\ QgAt(i)

LevelInvOnTop == LevelInv(Len(stack))

\* what level i has cached is what would be prescribed when the walk is there
CachedAt(i) ==
  stack[i].checkdIfImplicit => stack[i].implicitSplit = PrescribedSplit(AreaOf(stack[i]), C(i))

CacheInv == \A i \in 1 .. Len(stack) : CachedAt(i)

IInv == TypeInv /\ TopInv /\ \A i \in 1 .. Len(stack) : LevelInv(i)
----------------------------------------------------------------------------
(* The tilings.                                                            *)

(* The product of two naturals is one.                                     *)
LEMMA TimesNat == ASSUME NEW m \in Nat, NEW n \in Nat PROVE m * n \in Nat
  OBVIOUS

(* So is a number of quarters.                                             *)
LEMMA InFourNat == ASSUME NEW m \in Nat, NEW n \in Nat PROVE InFour(m, n) \in Nat
<1>1. m * n \in Nat
  BY TimesNat
<1> QED
  BY <1>1 DEF InFour

(* Parts cut across an area at quarters are areas, one per cut.            *)
LEMMA AcrossAreas ==
  ASSUME NEW a \in AreaT, NEW from \in Seq(Nat), NEW len \in Seq(Nat), Len(from) = Len(len)
  PROVE  Across(a, from, len) \in Seq(AreaT) /\ Len(Across(a, from, len)) = Len(from)
<1>1. ASSUME NEW i \in 1 .. Len(from)
      PROVE  Rect(a.x + InFour(a.w, from[i]), a.y, InFour(a.w, len[i]), a.h) \in AreaT
  <2>1. from[i] \in Nat /\ len[i] \in Nat
    OBVIOUS
  <2>2. InFour(a.w, from[i]) \in Nat /\ InFour(a.w, len[i]) \in Nat
    BY <2>1, InFourNat DEF AreaT
  <2> QED
    BY <2>2, SMTT(30) DEF AreaT, Rect
<1> QED
  BY <1>1 DEF Across

(* The same for parts cut down an area.                                    *)
LEMMA DownAreas ==
  ASSUME NEW a \in AreaT, NEW from \in Seq(Nat), NEW len \in Seq(Nat), Len(from) = Len(len)
  PROVE  Down(a, from, len) \in Seq(AreaT) /\ Len(Down(a, from, len)) = Len(from)
<1>1. ASSUME NEW i \in 1 .. Len(from)
      PROVE  Rect(a.x, a.y + InFour(a.h, from[i]), a.w, InFour(a.h, len[i])) \in AreaT
  <2>1. from[i] \in Nat /\ len[i] \in Nat
    OBVIOUS
  <2>2. InFour(a.h, from[i]) \in Nat /\ InFour(a.h, len[i]) \in Nat
    BY <2>1, InFourNat DEF AreaT
  <2> QED
    BY <2>2, SMTT(30) DEF AreaT, Rect
<1> QED
  BY <1>1 DEF Down

(* A quad split has four parts.                                            *)
LEMMA QuadAreas ==
  ASSUME NEW a \in AreaT
  PROVE  QuadParts(a) \in Seq(AreaT) /\ Len(QuadParts(a)) = 4
<1> DEFINE w == a.w \div 2  h == a.h \div 2
<1>1. w \in Nat /\ h \in Nat
  BY DEF AreaT
<1> HIDE DEF w, h
<1>2. ASSUME NEW i \in 1 .. 4
      PROVE  Rect(a.x + w * ((i - 1) % 2), a.y + h * ((i - 1) \div 2), w, h) \in AreaT
  <2>1. (i - 1) % 2 \in Nat /\ (i - 1) \div 2 \in Nat
    OBVIOUS
  <2>2. w * ((i - 1) % 2) \in Nat /\ h * ((i - 1) \div 2) \in Nat
    BY <1>1, <2>1, TimesNat
  <2> QED
    BY <1>1, <2>2 DEF AreaT, Rect
<1> QED
  BY <1>2 DEF QuadParts, w, h

(* The transform tiling of an area has at least one tile.                  *)
LEMMA MaxTuAreas ==
  ASSUME NEW a \in AreaT, cfg.maxTb \in {32, 64}
  PROVE  MaxTuParts(a) \in Seq(AreaT) /\ Len(MaxTuParts(a)) >= 1
<1> DEFINE size == IF a.w > 64 \/ a.h > 64 THEN 64 ELSE cfg.maxTb
           across == IF a.w >= size THEN a.w \div size ELSE 1
           down == IF a.h >= size THEN a.h \div size ELSE 1
           w == a.w \div across
           h == a.h \div down
<1>1. size \in {32, 64}
  OBVIOUS
<1> HIDE DEF size
<1>2. across \in Nat /\ across >= 1 /\ down \in Nat /\ down >= 1
  BY <1>1 DEF AreaT
<1> HIDE DEF across, down
<1>3. w \in Nat /\ h \in Nat
  BY <1>2 DEF AreaT
<1>4. across * down \in Nat /\ across * down >= 1
  BY <1>2
<1> HIDE DEF w, h
<1>5. ASSUME NEW i \in 1 .. across * down
      PROVE  Rect(a.x + w * ((i - 1) % across), a.y + h * ((i - 1) \div across), w, h) \in AreaT
  <2>1. (i - 1) % across \in Nat /\ (i - 1) \div across \in Nat
    BY <1>2, <1>4
  <2>2. w * ((i - 1) % across) \in Nat /\ h * ((i - 1) \div across) \in Nat
    BY <1>3, <2>1, TimesNat
  <2> QED
    BY <1>3, <2>2 DEF AreaT, Rect
<1>6. MaxTuParts(a) = [i \in 1 .. across * down |->
                         Rect(a.x + w * ((i - 1) % across), a.y + h * ((i - 1) \div across), w, h)]
  BY DEF MaxTuParts, size, across, down, w, h
<1> QED
  BY <1>4, <1>5, <1>6

(* Two cuts give two parts.                                                *)
LEMMA TwoParts ==
  ASSUME NEW a \in AreaT, NEW m \in Nat, NEW n \in Nat, NEW k \in Nat, NEW l \in Nat
  PROVE  /\ Down(a, <<m, n>>, <<k, l>>) \in Seq(AreaT)
         /\ Len(Down(a, <<m, n>>, <<k, l>>)) = 2
         /\ Across(a, <<m, n>>, <<k, l>>) \in Seq(AreaT)
         /\ Len(Across(a, <<m, n>>, <<k, l>>)) = 2
<1>1. /\ <<m, n>> \in Seq(Nat) /\ Len(<<m, n>>) = 2
      /\ <<k, l>> \in Seq(Nat) /\ Len(<<k, l>>) = 2
  OBVIOUS
<1>2. Down(a, <<m, n>>, <<k, l>>) \in Seq(AreaT) /\ Len(Down(a, <<m, n>>, <<k, l>>)) = 2
  BY <1>1, DownAreas
<1>3. Across(a, <<m, n>>, <<k, l>>) \in Seq(AreaT) /\ Len(Across(a, <<m, n>>, <<k, l>>)) = 2
  BY <1>1, AcrossAreas
<1> QED
  BY <1>2, <1>3

(* Every split has parts, a ternary one three.                             *)
LEMMA PartsAreas ==
  ASSUME NEW a \in AreaT, NEW s \in CuSplits \cup TuSplits, cfg.maxTb \in {32, 64}
  PROVE  /\ SubPartitions(a, s) \in Seq(AreaT) /\ Len(SubPartitions(a, s)) >= 1
         /\ s \in Tt => Len(SubPartitions(a, s)) = 3
<1> USE DEF CuSplits, TuSplits, Mt, Bt, Tt, Sbt, SbtHalf, SbtQuad, Quad, Horz, Vert, TriH, TriV, TuMax
<1>1. CASE s = Quad
  BY <1>1, QuadAreas, SMTT(30) DEF SubPartitions
<1>2. CASE s = TuMax
  BY <1>2, MaxTuAreas DEF SubPartitions
<1>3. CASE s \in Tt
  <2>1. /\ <<0, 1, 3>> \in Seq(Nat) /\ Len(<<0, 1, 3>>) = 3
        /\ <<1, 2, 1>> \in Seq(Nat) /\ Len(<<1, 2, 1>>) = 3
    OBVIOUS
  <2>2. /\ Down(a, <<0, 1, 3>>, <<1, 2, 1>>) \in Seq(AreaT)
        /\ Len(Down(a, <<0, 1, 3>>, <<1, 2, 1>>)) = 3
    BY <2>1, DownAreas, ZenonT(40)
  <2>3. /\ Across(a, <<0, 1, 3>>, <<1, 2, 1>>) \in Seq(AreaT)
        /\ Len(Across(a, <<0, 1, 3>>, <<1, 2, 1>>)) = 3
    BY <2>1, AcrossAreas
  <2>4. SubPartitions(a, s) = TriParts(a, s)
    BY <1>3 DEF SubPartitions
  <2> QED
    BY <2>2, <2>3, <2>4 DEF TriParts
<1>4. CASE s \in {Vert, "SBT_VER_HALF"}
  <2>1. SubPartitions(a, s) = Across(a, <<0, 2>>, <<2, 2>>)
    BY <1>4 DEF SubPartitions
  <2> QED
    BY <1>4, <2>1, TwoParts, SMTT(30)
<1>5. CASE s \in {Horz, "SBT_HOR_HALF"}
  <2>1. SubPartitions(a, s) = Down(a, <<0, 2>>, <<2, 2>>)
    BY <1>5 DEF SubPartitions
  <2> QED
    BY <1>5, <2>1, TwoParts, SMTT(30)
<1>6. CASE s \in {"SBT_VER_QUAD_POS0"}
  <2>1. SubPartitions(a, s) = Across(a, <<0, 1>>, <<1, 3>>)
    BY <1>6 DEF SubPartitions
  <2> QED
    BY <1>6, <2>1, TwoParts
<1>7. CASE s \in {"SBT_VER_QUAD_POS1"}
  <2>1. SubPartitions(a, s) = Across(a, <<0, 3>>, <<3, 1>>)
    BY <1>7 DEF SubPartitions
  <2> QED
    BY <1>7, <2>1, TwoParts
<1>8. CASE s \in {"SBT_HOR_QUAD_POS0"}
  <2>1. SubPartitions(a, s) = Down(a, <<0, 1>>, <<1, 3>>)
    BY <1>8 DEF SubPartitions
  <2> QED
    BY <1>8, <2>1, TwoParts
<1>9. CASE s \in {"SBT_HOR_QUAD_POS1"}
  <2>1. SubPartitions(a, s) = Down(a, <<0, 3>>, <<3, 1>>)
    BY <1>9 DEF SubPartitions
  <2> QED
    BY <1>9, <2>1, TwoParts
<1> QED
  BY <1>1, <1>2, <1>3, <1>4, <1>5, <1>6, <1>7, <1>8, <1>9
----------------------------------------------------------------------------
(* The counters: entering a split, going to its next part, leaving it.     *)

(* The kinds of split exclude each other.                                  *)
LEMMA Kinds ==
  /\ \A s \in TuSplits : s \notin Mt /\ s # Quad /\ s \notin CuSplits
  /\ \A s \in CuSplits : s \notin TuSplits /\ (s \in Mt <=> s # Quad)
  /\ Tt \subseteq Mt /\ Quad \notin Mt
  /\ "CTU_LEVEL" \notin CuSplits \cup TuSplits /\ NoSplit \notin CuSplits
  BY DEF CuSplits, TuSplits, Mt, Bt, Tt, Sbt, SbtHalf, SbtQuad, Quad, Horz, Vert, TriH, TriV,
     TuMax, NoSplit

(* Entering a split establishes what holds inside it.                      *)
LEMMA EnterInside ==
  ASSUME NEW c \in Counters, NEW s \in CuSplits \cup TuSplits, NEW implicit \in BOOLEAN,
         NEW imp \in BOOLEAN, s \in Mt => (implicit = imp),
         s \in CuSplits => c.tr = 0, s = Quad => c.mt = 0 /\ c.bt = 0,
         NEW lv, lv.split = s, lv.idx = 0
  PROVE  LET d == CountersAfterSplit(c, s, implicit)
         IN d \in Counters /\ d.qgPos = c.qgPos /\ Inside(d, c, lv, imp)
  BY Kinds DEF CountersAfterSplit, Counters, Inside, BtDepths, Subdivs, One

(* Moving the quantisation group changes no depth.                         *)
LEMMA MoveInside ==
  ASSUME NEW c \in Counters, NEW b \in Counters, NEW lv, NEW imp \in BOOLEAN,
         NEW qg \in BOOLEAN, NEW a \in AreaT, Inside(c, b, lv, imp)
  PROVE  /\ QgMove(c, qg, a) \in Counters /\ Inside(QgMove(c, qg, a), b, lv, imp)
         /\ QgMove(c, qg, a).qgPos = IF qg THEN Pos(a) ELSE c.qgPos
         /\ QgMove(c, qg, a).tr = c.tr
<1>1. Pos(a) \in Nat \X Nat
  BY DEF Pos, AreaT
<1> QED
  BY <1>1 DEF QgMove, Counters, Inside

(* Going to the next part keeps what holds inside, for the new part.       *)
LEMMA NextInside ==
  ASSUME NEW c \in Counters, NEW b \in Counters, NEW lv, NEW imp \in BOOLEAN,
         lv.split \in CuSplits \cup TuSplits, lv.idx \in Nat,
         Inside(c, b, lv, imp), lv.split \in Tt => lv.idx < 2,
         NEW mv, mv.split = lv.split, mv.idx = lv.idx + 1
  PROVE  LET d == CountersAtNextPart(c, mv)
         IN d \in Counters /\ Inside(d, b, mv, imp) /\ d.qgPos = c.qgPos /\ d.tr = c.tr
<1>1. CASE lv.split \in Tt
  <2>1. lv.idx \in {0, 1}
    BY <1>1
  <2> QED
    BY <1>1, <2>1, Kinds DEF CountersAtNextPart, Counters, Inside, BtDepths, Subdivs, One
<1>2. CASE lv.split \notin Tt
  BY <1>2, Kinds DEF CountersAtNextPart, Counters, Inside, BtDepths, Subdivs, One
<1> QED
  BY <1>1, <1>2

(* Counters are the same when each is.                                     *)
LEMMA SameCounters ==
  ASSUME NEW b \in Counters,
         NEW d, d = [depth |-> b.depth, qt |-> b.qt, tr |-> b.tr, bt |-> b.bt, mt |-> b.mt,
                     sub |-> b.sub, implicitBt |-> b.implicitBt, qgPos |-> b.qgPos]
  PROVE  d = b
  BY DEF Counters

(* Leaving a split takes back what entering it and its parts added.        *)
LEMMA LeaveInside ==
  ASSUME NEW c \in Counters, NEW b \in Counters, NEW lv, NEW imp \in BOOLEAN,
         Inside(c, b, lv, imp), lv.qg \in BOOLEAN,
         NEW pqg \in BOOLEAN, NEW a \in AreaT,
         pqg => b.qgPos = Pos(a), lv.qg => pqg, ~lv.qg => c.qgPos = b.qgPos
  PROVE  QgMove(CountersAtExit(c, lv, imp), pqg, a) = b
<1> DEFINE d == CountersAtExit(c, lv, imp)
<1>1. /\ BtDepths(lv.split, lv.idx) \in Int /\ Subdivs(lv.split, lv.idx) \in Int
      /\ One(lv.split = Quad) \in Int /\ One(lv.split \in TuSplits) \in Int
      /\ One(lv.split \in Mt) \in Int /\ One(lv.split \in Mt /\ imp) \in Int
  BY DEF BtDepths, Subdivs, One
<1>2. /\ c.depth - 1 = b.depth
      /\ c.qt - One(lv.split = Quad) = b.qt
      /\ c.tr - One(lv.split \in TuSplits) = b.tr
      /\ c.mt - One(lv.split \in Mt) = b.mt
      /\ c.bt - BtDepths(lv.split, lv.idx) = b.bt
      /\ c.sub - Subdivs(lv.split, lv.idx) = b.sub
      /\ c.implicitBt - One(lv.split \in Mt /\ imp) = b.implicitBt
  BY <1>1 DEF Counters, Inside
<1>3. d = [depth |-> b.depth, qt |-> b.qt, tr |-> b.tr, mt |-> b.mt, bt |-> b.bt,
           sub |-> b.sub, implicitBt |-> b.implicitBt, qgPos |-> c.qgPos]
  BY <1>2 DEF CountersAtExit, CountersBefore
<1> HIDE DEF d
<1>4. QgMove(d, pqg, a) = [depth |-> b.depth, qt |-> b.qt, tr |-> b.tr, bt |-> b.bt, mt |-> b.mt,
                           sub |-> b.sub, implicitBt |-> b.implicitBt, qgPos |-> b.qgPos]
  <2>1. CASE pqg
    <3>1. QgMove(d, pqg, a) = [d EXCEPT !.qgPos = b.qgPos]
      BY <2>1 DEF QgMove
    <3> QED
      BY <1>3, <3>1
  <2>2. CASE ~pqg
    <3>1. QgMove(d, pqg, a) = d /\ c.qgPos = b.qgPos
      BY <2>2 DEF QgMove
    <3> QED
      BY <1>3, <3>1
  <2> QED
    BY <2>1, <2>2
<1> QED
  BY <1>4, SameCounters DEF d
----------------------------------------------------------------------------
(* The stack.                                                              *)

(* The top of a stack that is not empty is one of its elements.            *)
LEMMA TopOf ==
  ASSUME NEW S, NEW s \in Seq(S), Len(s) >= 1
  PROVE  Len(s) \in 1 .. Len(s) /\ Top(s) = s[Len(s)] /\ Top(s) \in S
  BY DEF Top

(* Replacing the top changes nothing else.                                 *)
LEMMA WithTopOf ==
  ASSUME NEW S, NEW s \in Seq(S), Len(s) >= 1, NEW e \in S
  PROVE  /\ WithTop(s, e) \in Seq(S) /\ Len(WithTop(s, e)) = Len(s)
         /\ WithTop(s, e)[Len(s)] = e
         /\ \A i \in 1 .. Len(s) - 1 : WithTop(s, e)[i] = s[i]
  BY DEF WithTop

(* Popping keeps what is below the top.                                    *)
LEMMA PopOf ==
  ASSUME NEW S, NEW s \in Seq(S), Len(s) >= 1
  PROVE  /\ Pop(s) \in Seq(S) /\ Len(Pop(s)) = Len(s) - 1
         /\ \A i \in 1 .. Len(s) - 1 : Pop(s)[i] = s[i]
<1>1. PICK k \in Int : k = Len(s) - 1
  OBVIOUS
<1>2. k >= 0 /\ 1 \in Int /\ \A i \in 1 .. k : s[i] \in S
  BY <1>1
<1>3. /\ SubSeq(s, 1, k) \in Seq(S)
      /\ Len(SubSeq(s, 1, k)) = IF 1 <= k THEN k - 1 + 1 ELSE 0
      /\ \A i \in 1 .. k - 1 + 1 : SubSeq(s, 1, k)[i] = s[1 + i - 1]
  BY <1>2, SubSeqProperties
<1>4. Pop(s) = SubSeq(s, 1, k)
  BY <1>1 DEF Pop
<1>5. /\ k - 1 + 1 = k /\ \A i \in 1 .. k : 1 + i - 1 = i
      /\ (IF 1 <= k THEN k ELSE 0) = k
  BY <1>2
<1>6. Len(Pop(s)) = k /\ \A i \in 1 .. k : Pop(s)[i] = s[i]
  BY <1>3, <1>4, <1>5
<1> QED
  BY <1>1, <1>3, <1>4, <1>6

(* Pushing keeps what was there.                                           *)
LEMMA PushOf ==
  ASSUME NEW S, NEW s \in Seq(S), NEW e \in S
  PROVE  /\ Append(s, e) \in Seq(S) /\ Len(Append(s, e)) = Len(s) + 1
         /\ Append(s, e)[Len(s) + 1] = e
         /\ \A i \in 1 .. Len(s) : Append(s, e)[i] = s[i]
  OBVIOUS

(* The current level while parts are left: its area and counters.          *)
LEMMA Here ==
  ASSUME IInv
  PROVE  /\ Len(stack) \in Nat /\ Len(stack) >= 1 /\ Top(stack) = stack[Len(stack)]
         /\ Top(stack) \in Level /\ stack \in Seq(Level) /\ curr \in Counters
         /\ LevelInv(Len(stack)) /\ C(Len(stack)) = curr
         /\ at # "past" => Area \in AreaT /\ ~Past(Top(stack))
         /\ at \in {"cu", "out", "chroma"} => curr.tr = 0
<1>1. /\ Len(stack) \in 1 .. Len(stack) /\ Top(stack) = stack[Len(stack)] /\ Top(stack) \in Level
      /\ stack \in Seq(Level) /\ curr \in Counters
  BY TopOf DEF IInv, TypeInv
<1>2. LevelInv(Len(stack)) /\ C(Len(stack)) = curr
  BY <1>1 DEF IInv, C
<1>3. at # "past" => Top(stack).idx < Len(Top(stack).parts)
  BY <1>1, <1>2 DEF LevelInv, PlaceAt, PlaceOf
<1>4. at # "past" => Area \in AreaT /\ ~Past(Top(stack))
  BY <1>1, <1>3 DEF Area, AreaOf, Level, Past
<1>5. at \in {"cu", "out", "chroma"} => curr.tr = 0
  BY <1>1, <1>2 DEF IInv, LevelInv, TopInv, CountAt
<1> QED
  BY <1>1, <1>2, <1>4, <1>5

(* The implicit split is a split or none.                                  *)
LEMMA ImplicitIsSplit == ASSUME IInv PROVE ImplicitSplit \in SplitT
<1>1. ComputeImplicitSplit \in SplitT
  BY DEF ComputeImplicitSplit, PrescribedSplit, SplitT, CuSplits, Mt, Bt
<1> QED
  BY <1>1, Here DEF ImplicitSplit, Level

(* Asking for the implicit split changes only the cached answer.           *)
LEMMA CheckedLevel ==
  ASSUME IInv
  PROVE  LET lv == Checked(Top(stack))
         IN /\ lv \in Level
            /\ lv.split = Top(stack).split /\ lv.parts = Top(stack).parts
            /\ lv.idx = Top(stack).idx /\ lv.qg = Top(stack).qg
            /\ IsImplicit(lv) <=> ImplicitSplit # NoSplit
  BY Here, ImplicitIsSplit DEF Checked, Level, IsImplicit
----------------------------------------------------------------------------
(* The steps.                                                              *)

(* What holds inside a level depends on its split and part alone.          *)
LEMMA SameInside ==
  ASSUME NEW c, NEW b, NEW lv, NEW mv, NEW imp, mv.split = lv.split, mv.idx = lv.idx
  PROVE  Inside(c, b, mv, imp) <=> Inside(c, b, lv, imp)
  BY DEF Inside

(* A step disturbs the top of the stack only: below it the levels keep     *)
(* what they are, and the invariant needs to be looked at on top.          *)
LEMMA OnlyTop ==
  ASSUME IInv, TypeInv', TopInv',
         Len(stack') >= 1, Len(stack') <= Len(stack) + 1,
         Len(stack') = Len(stack) + 1 => at # "past",
         \A i \in 1 .. Len(stack') - 1 :
           /\ stack'[i].split = stack[i].split /\ stack'[i].parts = stack[i].parts
           /\ stack'[i].idx = stack[i].idx /\ stack'[i].qg = stack[i].qg
           /\ i < Len(stack') - 1 => stack'[i] = stack[i]
           /\ frames'[i].base = C(i),
         LevelInvOnTop'
  PROVE  IInv'
<1>0. PICK k \in Nat : k = Len(stack')
  BY DEF TypeInv
<1>1. ASSUME NEW i \in 1 .. k - 1
      PROVE  C(i)' = C(i)
  BY <1>0 DEF C
<1>2. ASSUME NEW i \in 1 .. k - 1
      PROVE  LevelInv(i)'
  <2>1. PICK n \in Nat : n = Len(stack)
    BY DEF IInv, TypeInv
  <2>2. i \in 1 .. n /\ (i < n \/ at # "past") /\ i < k
    BY <1>0, <2>1
  <2>3. PlaceAt(i) /\ CountAt(i) /\ QgAt(i)
    BY <2>1, <2>2 DEF IInv, LevelInv
  <2>4. i > 1 => i - 1 \in 1 .. k - 1 /\ i - 1 < k - 1
    OBVIOUS
  <2>5. PlaceAt(i)'
    BY <1>0, <2>1, <2>2, <2>3, <2>4 DEF PlaceAt, PlaceOf
  <2>6. CountAt(i)'
    <3>1. C(i)' = C(i) /\ (i > 1 => C(i - 1)' = C(i - 1) /\ stack'[i - 1] = stack[i - 1])
      BY <1>0, <1>1, <2>4
    <3>0. stack'[i].split = stack[i].split /\ stack'[i].idx = stack[i].idx
      BY <1>0
    <3>2. i > 1 => Inside(C(i)', C(i - 1)', stack'[i], IsImplicit(stack'[i - 1]))
      BY <2>3, <3>0, <3>1, SameInside DEF CountAt
    <3> QED
      BY <2>3, <3>0, <3>1, <3>2 DEF CountAt
  <2>7. QgAt(i)'
    <3>1. PICK d \in 1 .. i : QgLevel(d, i)
      BY <2>3 DEF QgAt
    <3>2. AreaOf(stack'[d]) = AreaOf(stack[d])
      BY <1>0, <3>1 DEF AreaOf
    <3>3. QgLevel(d, i)'
      BY <1>0, <1>1, <2>1, <2>2, <3>1, <3>2, SMTT(30) DEF QgLevel
    <3>4. i > 1 /\ ~stack'[i].qg => C(i)'.qgPos = C(i - 1)'.qgPos
      BY <1>0, <1>1, <2>3, <2>4 DEF QgAt
    <3> QED
      BY <3>3, <3>4 DEF QgAt
  <2> QED
    BY <2>5, <2>6, <2>7 DEF LevelInv
<1>3. LevelInv(k)'
  BY <1>0 DEF LevelInvOnTop
<1>4. \A i \in 1 .. k : LevelInv(i)'
  BY <1>2, <1>3
<1> QED
  BY <1>0, <1>4 DEF IInv

(* Opening a split.                                                        *)
LEMMA SplitStep ==
  ASSUME IInv, at \in {"cu", "tu"},
         NEW s \in CuSplits \cup TuSplits, NEW child \in ModeT, NEW place \in {"cu", "tu"},
         SplitCurrArea(s, child, place),
         treeType' \in TreeT, modeType' \in ModeT,
         s \in TuSplits <=> place = "tu", s \in CuSplits => at = "cu",
         s = Quad => curr.mt = 0 /\ curr.bt = 0,
         s \in Mt => (s = ImplicitSplit <=> ImplicitSplit # NoSplit)
  PROVE  IInv'
<1>0. PICK n \in Nat : n = Len(stack)
  BY Here
<1> DEFINE implicit == s = ImplicitSplit
           counters == CountersAfterSplit(curr, s, implicit)
           qg == QgAfterSplit(Top(stack), counters)
           level == NewLevel(s, Area, qg)
           top == Checked(Top(stack))
<1>1. /\ n = Len(stack) /\ n >= 1 /\ Top(stack) = stack[n] /\ Top(stack) \in Level
      /\ Area \in AreaT /\ (s \in CuSplits => curr.tr = 0) /\ curr \in Counters
  BY <1>0, Here
<1>2. /\ top \in Level /\ top.split = stack[n].split /\ top.parts = stack[n].parts
      /\ top.idx = stack[n].idx /\ top.qg = stack[n].qg
      /\ IsImplicit(top) <=> ImplicitSplit # NoSplit
  BY <1>1, CheckedLevel
<1>3. cfg.maxTb \in {32, 64}
  BY ConfigsAssumption DEF IInv, TypeInv, Legal
<1>4. /\ SubPartitions(Area, s) \in Seq(AreaT) /\ Len(SubPartitions(Area, s)) >= 1
      /\ s \in Tt => Len(SubPartitions(Area, s)) = 3
  BY <1>1, <1>3, PartsAreas
<1>5. /\ level \in Level /\ level.split = s /\ level.idx = 0 /\ level.qg = qg
      /\ qg \in BOOLEAN /\ (qg => stack[n].qg)
      /\ PlaceOf(level, TRUE)
  BY <1>1, <1>4 DEF NewLevel, Level, SplitT, QgAfterSplit, PlaceOf
<1>6. AreaOf(level) \in AreaT
  BY <1>5 DEF PlaceOf, AreaOf, Level
<1>7. counters \in Counters /\ counters.qgPos = curr.qgPos /\ Inside(counters, curr, level, IsImplicit(top))
  <2>1. implicit \in BOOLEAN /\ IsImplicit(top) \in BOOLEAN /\ (s \in Mt => (implicit = IsImplicit(top)))
    BY <1>2 DEF IsImplicit
  <2> QED
    BY <1>1, <1>5, <2>1, EnterInside
<1>8. /\ curr' \in Counters /\ Inside(curr', curr, level, IsImplicit(top))
      /\ curr'.qgPos = IF qg THEN Pos(AreaOf(level)) ELSE curr.qgPos
  <2>1. curr' = QgMove(counters, qg, AreaOf(level))
    BY DEF SplitCurrArea
  <2>2. IsImplicit(top) \in BOOLEAN
    BY DEF IsImplicit
  <2> HIDE DEF counters, level, qg, top
  <2> QED
    BY <1>1, <1>5, <1>6, <1>7, <2>1, <2>2, MoveInside
<1>9. /\ stack' = Append(WithTop(stack, top), level) /\ frames' = Append(frames, Frame(child))
      /\ at' = place /\ coded' = 0 /\ cfg' = cfg /\ chType' = chType
  BY DEF SplitCurrArea
<1> HIDE DEF counters, level, qg, top
<1>10. /\ stack' \in Seq(Level) /\ Len(stack') = n + 1
       /\ stack'[n + 1] = level /\ stack'[n] = top
       /\ \A i \in 1 .. n - 1 : stack'[i] = stack[i]
  <2>1. stack \in Seq(Level) /\ Len(stack) >= 1 /\ top \in Level
    BY <1>2, Here
  <2>2. /\ WithTop(stack, top) \in Seq(Level) /\ Len(WithTop(stack, top)) = Len(stack)
        /\ WithTop(stack, top)[Len(stack)] = top
        /\ \A i \in 1 .. Len(stack) - 1 : WithTop(stack, top)[i] = stack[i]
    BY <2>1, WithTopOf
  <2> QED
    BY <1>1, <1>5, <1>9, <2>2, PushOf
<1>11. /\ frames' \in Seq(FrameT) /\ Len(frames') = n
       /\ frames'[n].base = curr
       /\ \A i \in 1 .. n - 1 : frames'[i] = frames[i]
  <2>1. frames \in Seq(FrameT) /\ Len(frames) = n - 1
    BY <1>1 DEF IInv, TypeInv
  <2>2. Frame(child) \in FrameT /\ Frame(child).base = curr
    BY DEF IInv, TypeInv, Frame, FrameT
  <2> QED
    BY <1>1, <1>9, <2>1, <2>2, PushOf
<1>12. C(n + 1)' = curr' /\ (\A i \in 1 .. n : C(i)' = C(i)) /\ C(n) = curr
  BY <1>1, <1>10, <1>11 DEF C
<1>13. TypeInv'
  BY <1>1, <1>8, <1>9, <1>10, <1>11 DEF IInv, TypeInv, Places
<1>14. Top(stack') = level
  BY <1>1, <1>10 DEF Top
<1>15. TopInv'
  BY <1>5, <1>9, <1>14, Kinds DEF TopInv
<1>16. PlaceAt(n + 1)'
  <2>1. s \in CuSplits => stack[n].split \notin TuSplits
    BY <1>1 DEF IInv, TopInv
  <2> QED
    BY <1>1, <1>2, <1>5, <1>9, <1>10, <2>1 DEF PlaceAt, PlaceOf
<1>17. CountAt(n + 1)'
  <2>1. Inside(curr', curr, level, IsImplicit(top)) /\ n + 1 - 1 = n
    BY <1>8
  <2>2. level.split \notin TuSplits => curr'.tr = 0
    BY <1>1, <1>5, <1>8, Kinds DEF Inside, One, Counters
  <2> QED
    BY <1>1, <1>10, <1>12, <2>1, <2>2 DEF CountAt
<1>18. QgAt(n + 1)'
  <2>1. PICK d \in 1 .. n : QgLevel(d, n)
    BY <1>1, Here DEF LevelInv, QgAt
  <2>2. AreaOf(stack'[d]) = AreaOf(stack[d]) /\ (\A j \in 1 .. n : stack'[j].qg = stack[j].qg)
    BY <1>1, <1>2, <1>10, <2>1 DEF AreaOf
  <2>3. curr.qgPos = Pos(AreaOf(stack[d]))
    BY <1>1, <1>12, <2>1 DEF QgLevel
  <2>4. CASE qg
    <3>1. d = n
      BY <1>1, <1>5, <2>1, <2>4 DEF QgLevel
    <3>0. stack'[n + 1].qg = TRUE
      BY <1>5, <1>10, <2>4
    <3>2. \A j \in 1 .. n + 1 : stack'[j].qg <=> j <= n + 1
      <4>1. \A j \in 1 .. n : stack'[j].qg
        BY <2>1, <2>2, <3>1 DEF QgLevel
      <4> QED
        BY <3>0, <4>1
    <3>3. C(n + 1)'.qgPos = Pos(AreaOf(stack'[n + 1]))
      BY <1>8, <1>10, <1>12, <2>4
    <3>4. QgLevel(n + 1, n + 1)'
      BY <3>2, <3>3 DEF QgLevel
    <3>5. n + 1 \in 1 .. n + 1 /\ stack'[n + 1].qg
      BY <3>0
    <3> QED
      BY <3>4, <3>5 DEF QgAt
  <2>5. CASE ~qg
    <3>1. QgLevel(d, n + 1)'
      BY <1>1, <1>5, <1>8, <1>10, <1>12, <2>1, <2>2, <2>3, <2>5 DEF QgLevel
    <3>2. C(n + 1)'.qgPos = C(n)'.qgPos /\ n + 1 - 1 = n /\ d \in 1 .. n + 1
      BY <1>1, <1>8, <1>12, <2>1, <2>5
    <3> QED
      BY <3>1, <3>2 DEF QgAt
  <2> QED
    BY <1>5, <2>4, <2>5
<1>19. LevelInvOnTop'
  BY <1>10, <1>16, <1>17, <1>18 DEF LevelInv, LevelInvOnTop
<1>20. Len(stack') = n + 1 /\ n + 1 >= 1 /\ n + 1 <= Len(stack) + 1 /\ at # "past"
  BY <1>1, <1>10
<1>21. \A i \in 1 .. Len(stack') - 1 :
         /\ stack'[i].split = stack[i].split /\ stack'[i].parts = stack[i].parts
         /\ stack'[i].idx = stack[i].idx /\ stack'[i].qg = stack[i].qg
         /\ i < Len(stack') - 1 => stack'[i] = stack[i]
         /\ frames'[i].base = C(i)
  BY <1>1, <1>2, <1>10, <1>11 DEF C
<1> QED
  BY <1>13, <1>15, <1>19, <1>20, <1>21, OnlyTop

(* Popping a level gives back the counters of the level below.             *)
LEMMA PopGivesBack ==
  ASSUME IInv, Len(stack) > 1, at # "chroma", Popped
  PROVE  /\ stack' \in Seq(Level) /\ Len(stack') = Len(stack) - 1
         /\ \A i \in 1 .. Len(stack) - 1 : stack'[i] = stack[i]
         /\ Len(frames) = Len(stack) - 1 /\ frames \in Seq(FrameT)
         /\ Top(frames) \in FrameT /\ Top(frames) = frames[Len(stack) - 1]
         /\ curr' = Top(frames).base /\ curr' \in Counters
<1>1. PICK n \in Nat : n = Len(stack)
  BY Here
<1>2. /\ n > 1 /\ stack \in Seq(Level) /\ curr \in Counters
      /\ Top(stack) = stack[n] /\ stack[n] \in Level /\ stack[n - 1] \in Level
  BY <1>1, Here
<1>3. stack' = Pop(stack) /\ Pop(stack) \in Seq(Level) /\ Len(Pop(stack)) = n - 1
      /\ (\A i \in 1 .. n - 1 : Pop(stack)[i] = stack[i])
  BY <1>1, <1>2, PopOf DEF Popped
<1>4. Top(Pop(stack)) = stack[n - 1]
  BY <1>2, <1>3 DEF Top
<1>5. Len(frames) = n - 1 /\ frames \in Seq(FrameT)
  BY <1>1, <1>2 DEF IInv, TypeInv
<1>6. Top(frames) \in FrameT /\ Top(frames) = frames[n - 1]
  BY <1>2, <1>5, TopOf
<1>7. C(n) = curr /\ C(n - 1) = Top(frames).base /\ C(n - 1) \in Counters
  BY <1>1, <1>2, <1>6 DEF C, FrameT
<1>8. n \in 1 .. Len(stack) /\ n - 1 \in 1 .. Len(stack) /\ n - 1 < n
  BY <1>1, <1>2
<1>9. PlaceAt(n - 1) /\ QgAt(n - 1) /\ CountAt(n) /\ QgAt(n)
  BY <1>8 DEF IInv, LevelInv
<1>10. AreaOf(stack[n - 1]) \in AreaT
  <2>1. stack[n - 1].idx < Len(stack[n - 1].parts)
    BY <1>1, <1>8, <1>9 DEF PlaceAt, PlaceOf
  <2> QED
    BY <1>2, <2>1 DEF AreaOf, Level
<1>11. stack[n - 1].qg => C(n - 1).qgPos = Pos(AreaOf(stack[n - 1]))
  <2>1. PICK d \in 1 .. n - 1 : QgLevel(d, n - 1)
    BY <1>9 DEF QgAt
  <2>2. n - 1 \in 1 .. n - 1 /\ d < Len(stack)
    BY <1>1, <1>2, <2>1
  <2>3. stack[n - 1].qg => d = n - 1
    BY <2>1, <2>2 DEF QgLevel
  <2> QED
    BY <2>1, <2>2, <2>3 DEF QgLevel
<1>12. stack[n].qg => stack[n - 1].qg
  <2>1. PICK d \in 1 .. n : QgLevel(d, n)
    BY <1>9 DEF QgAt
  <2> QED
    BY <1>2, <2>1 DEF QgLevel
<1>13. ~stack[n].qg => curr.qgPos = C(n - 1).qgPos
  BY <1>2, <1>7, <1>9 DEF QgAt
<1>14. Inside(curr, C(n - 1), stack[n], IsImplicit(stack[n - 1]))
  BY <1>2, <1>7, <1>9 DEF CountAt
<1>15. curr' = QgMove(CountersAtExit(curr, stack[n], IsImplicit(stack[n - 1])),
                      stack[n - 1].qg, AreaOf(stack[n - 1]))
  BY <1>2, <1>4 DEF Popped
<1>16. IsImplicit(stack[n - 1]) \in BOOLEAN /\ stack[n].qg \in BOOLEAN /\ stack[n - 1].qg \in BOOLEAN
  BY <1>2 DEF IsImplicit, Level
<1>17. curr' = C(n - 1)
  BY <1>2, <1>7, <1>10, <1>11, <1>12, <1>13, <1>14, <1>15, <1>16, LeaveInside
<1> QED
  BY <1>1, <1>3, <1>5, <1>6, <1>7, <1>17

(* Leaving a split, for the CU below or for its chroma.                    *)
LEMMA PopStep ==
  ASSUME IInv, Len(stack) > 1, at # "chroma", Popped,
         cfg' = cfg, coded' \in Nat, chType' \in ChT, treeType' \in TreeT, modeType' \in ModeT,
         \/ at' = "chroma" /\ frames' = frames /\ Top(stack).split \in CuSplits
         \/ at' = PlaceBelow /\ frames' = Pop(frames)
  PROVE  IInv'
<1>1. PICK n \in Nat : n = Len(stack)
  BY Here
<1>2. /\ n > 1 /\ stack' \in Seq(Level) /\ Len(stack') = n - 1
      /\ \A i \in 1 .. n - 1 : stack'[i] = stack[i]
      /\ Len(frames) = n - 1 /\ frames \in Seq(FrameT)
      /\ Top(frames) = frames[n - 1] /\ curr' = Top(frames).base /\ curr' \in Counters
  BY <1>1, PopGivesBack
<1>3. /\ Pop(frames) \in Seq(FrameT) /\ Len(Pop(frames)) = n - 2
      /\ \A i \in 1 .. n - 2 : Pop(frames)[i] = frames[i]
  <2>1. frames \in Seq(FrameT) /\ Len(frames) >= 1
    BY <1>2
  <2>2. /\ Pop(frames) \in Seq(FrameT) /\ Len(Pop(frames)) = Len(frames) - 1
        /\ \A i \in 1 .. Len(frames) - 1 : Pop(frames)[i] = frames[i]
    BY <2>1, PopOf
  <2> QED
    BY <1>2, <2>2, SMTT(30)
<1>4. Top(stack') = stack[n - 1] /\ Top(Pop(stack)) = stack[n - 1] /\ Top(stack) = stack[n]
  BY <1>1, <1>2, Here DEF Top, Popped
<1>5. n \in 1 .. Len(stack) /\ n - 1 \in 1 .. Len(stack) /\ n - 1 < Len(stack)
  BY <1>1, <1>2
<1>6. PlaceAt(n - 1) /\ QgAt(n - 1) /\ CountAt(n - 1) /\ PlaceAt(n)
  BY <1>5 DEF IInv, LevelInv
<1>7. at' \in {"chroma", "tu", "cu"} /\ at' # "past"
  BY DEF PlaceBelow
<1>8. TypeInv'
  <2>1. CASE at' = "chroma" /\ frames' = frames
    BY <1>2, <2>1 DEF IInv, TypeInv, Places
  <2>2. CASE at' = PlaceBelow /\ frames' = Pop(frames)
    <3>1. at' \in {"tu", "cu"}
      BY <2>2 DEF PlaceBelow
    <3> QED
      BY <1>2, <1>3, <2>2, <3>1 DEF IInv, TypeInv, Places
  <2> QED
    BY <2>1, <2>2
<1>9. TopInv'
  <2>1. stack[n].split \in CuSplits => stack[n - 1].split \notin TuSplits
    BY <1>2, <1>6 DEF PlaceAt
  <2> QED
    BY <1>4, <2>1 DEF TopInv, PlaceBelow
<1>10. C(n - 1) = Top(frames).base /\ \A i \in 1 .. n - 2 : C(i) = frames[i].base /\ frames'[i] = frames[i]
  BY <1>1, <1>2, <1>3 DEF C
<1>11. C(n - 1)' = C(n - 1) /\ (n - 1 > 1 => C(n - 1 - 1)' = C(n - 1 - 1))
  <2>1. n - 1 > 1 => n - 1 - 1 \in 1 .. n - 2 /\ n - 1 - 1 # n - 1
    BY <1>2
  <2> QED
    BY <1>2, <1>10, <2>1 DEF C
<1>12. PlaceAt(n - 1)'
  BY <1>2, <1>5, <1>6, <1>7 DEF PlaceAt, PlaceOf
<1>13. CountAt(n - 1)'
  BY <1>2, <1>5, <1>6, <1>11 DEF CountAt
<1>14. QgAt(n - 1)'
  <2>1. PICK d \in 1 .. n - 1 : QgLevel(d, n - 1)
    BY <1>6 DEF QgAt
  <2>2. QgLevel(d, n - 1)'
    BY <1>1, <1>2, <1>11, <2>1 DEF QgLevel, AreaOf
  <2> QED
    BY <1>2, <1>6, <1>11, <2>1, <2>2 DEF QgAt
<1>15. LevelInvOnTop'
  BY <1>2, <1>12, <1>13, <1>14 DEF LevelInv, LevelInvOnTop
<1>16. \A i \in 1 .. Len(stack') - 1 :
         /\ stack'[i].split = stack[i].split /\ stack'[i].parts = stack[i].parts
         /\ stack'[i].idx = stack[i].idx /\ stack'[i].qg = stack[i].qg
         /\ i < Len(stack') - 1 => stack'[i] = stack[i]
         /\ frames'[i].base = C(i)
  BY <1>2, <1>10
<1>17. Len(stack') >= 1 /\ Len(stack') <= Len(stack) + 1 /\ Len(stack') # Len(stack) + 1
  BY <1>1, <1>2
<1> QED
  BY <1>8, <1>9, <1>15, <1>16, <1>17, OnlyTop

(* Steps that keep the stack but for what the top has cached, and with it  *)
(* the counters: coding a CU or a TU unsplit, or the local chroma.         *)
LEMMA CodeStep ==
  ASSUME IInv, NEW lv \in Level, stack' = WithTop(stack, lv), at # "past",
         lv.split = Top(stack).split, lv.parts = Top(stack).parts,
         lv.idx = Top(stack).idx, lv.qg = Top(stack).qg,
         cfg' = cfg, curr' = curr, coded' \in Nat,
         chType' \in ChT, treeType' \in TreeT, modeType' \in ModeT,
         \/ at' = at /\ frames' = frames
         \/ at = "chroma" /\ at' = "cu" /\ frames' = Pop(frames)
  PROVE  IInv'
<1>1. PICK n \in Nat : n = Len(stack)
  BY Here
<1>2. /\ n >= 1 /\ stack' \in Seq(Level) /\ Len(stack') = n /\ stack'[n] = lv
      /\ (\A i \in 1 .. n - 1 : stack'[i] = stack[i]) /\ Top(stack) = stack[n]
  <2>1. stack \in Seq(Level) /\ Len(stack) >= 1 /\ Top(stack) = stack[Len(stack)]
    BY Here
  <2> QED
    BY <1>1, <2>1 DEF WithTop
<1>3. /\ frames' \in Seq(FrameT)
      /\ Len(frames') = n - (IF at' = "chroma" THEN 0 ELSE 1)
      /\ \A i \in 1 .. n - 1 : frames'[i] = frames[i]
  <2>1. frames \in Seq(FrameT) /\ Len(frames) = n - (IF at = "chroma" THEN 0 ELSE 1)
    BY <1>1 DEF IInv, TypeInv
  <2>2. CASE at' = at /\ frames' = frames
    BY <2>1, <2>2
  <2>3. CASE at = "chroma" /\ at' = "cu" /\ frames' = Pop(frames)
    <3>1. frames \in Seq(FrameT) /\ Len(frames) = n /\ Len(frames) >= 1
      BY <1>2, <2>1, <2>3
    <3>2. /\ Pop(frames) \in Seq(FrameT) /\ Len(Pop(frames)) = Len(frames) - 1
          /\ \A i \in 1 .. Len(frames) - 1 : Pop(frames)[i] = frames[i]
      BY <3>1, PopOf
    <3> QED
      BY <2>3, <3>1, <3>2
  <2> QED
    BY <2>2, <2>3
<1>4. LevelInv(n) /\ curr \in Counters
  BY <1>1, Here
<1>5. C(n)' = C(n) /\ (n > 1 => C(n - 1)' = C(n - 1)) /\ \A i \in 1 .. n - 1 : frames'[i].base = C(i)
  BY <1>1, <1>2, <1>3 DEF C
<1>6. /\ \A i \in 1 .. n : /\ stack'[i].split = stack[i].split /\ stack'[i].parts = stack[i].parts
                           /\ stack'[i].idx = stack[i].idx /\ stack'[i].qg = stack[i].qg
      /\ n > 1 => stack'[n - 1] = stack[n - 1]
  BY <1>2
<1>7. at' # "past"
  OBVIOUS
<1>8. TypeInv'
  <2>1. at' \in Places /\ (at' = "chroma" => frames'[n].base = curr')
    <3>1. at \in Places /\ (at = "chroma" => frames[n].base = curr)
      BY <1>1 DEF IInv, TypeInv
    <3> QED
      BY <3>1 DEF Places
  <2> QED
    BY <1>2, <1>3, <1>4, <2>1 DEF IInv, TypeInv
<1>9. TopInv'
  <2>1. Top(stack') = lv
    BY <1>2 DEF Top
  <2> QED
    BY <2>1 DEF IInv, TopInv
<1>10. PlaceAt(n)'
  BY <1>1, <1>2, <1>4, <1>6, <1>7 DEF LevelInv, PlaceAt, PlaceOf
<1>11. CountAt(n)'
  <2>1. n > 1 => Inside(C(n), C(n - 1), lv, IsImplicit(stack[n - 1]))
    BY <1>2, <1>4, SameInside DEF LevelInv, CountAt
  <2> QED
    BY <1>2, <1>4, <1>5, <1>6, <2>1 DEF LevelInv, CountAt
<1>12. QgAt(n)'
  <2>1. PICK d \in 1 .. n : QgLevel(d, n)
    BY <1>4 DEF LevelInv, QgAt
  <2>2. AreaOf(stack'[d]) = AreaOf(stack[d])
    BY <1>6, <2>1 DEF AreaOf
  <2>3. QgLevel(d, n)'
    BY <1>5, <1>6, <1>7, <2>1, <2>2 DEF QgLevel
  <2>4. n > 1 /\ ~stack'[n].qg => C(n)'.qgPos = C(n - 1)'.qgPos
    BY <1>2, <1>4, <1>5, <1>6 DEF LevelInv, QgAt
  <2> QED
    BY <2>1, <2>3, <2>4 DEF QgAt
<1>13. LevelInvOnTop'
  BY <1>2, <1>10, <1>11, <1>12 DEF LevelInv, LevelInvOnTop
<1>14. \A i \in 1 .. Len(stack') - 1 :
         /\ stack'[i].split = stack[i].split /\ stack'[i].parts = stack[i].parts
         /\ stack'[i].idx = stack[i].idx /\ stack'[i].qg = stack[i].qg
         /\ i < Len(stack') - 1 => stack'[i] = stack[i]
         /\ frames'[i].base = C(i)
  BY <1>2, <1>5
<1>15. Len(stack') >= 1 /\ Len(stack') <= Len(stack) + 1 /\ Len(stack') # Len(stack) + 1
  BY <1>1, <1>2
<1> QED
  BY <1>8, <1>9, <1>13, <1>14, <1>15, OnlyTop

(* Adding to what the open split has coded so far.                         *)
LEMMA AddDone ==
  ASSUME NEW f \in Seq(FrameT), Len(f) >= 1, NEW m \in Nat
  PROVE  /\ [f EXCEPT ![Len(f)].done = @ + m] \in Seq(FrameT)
         /\ Len([f EXCEPT ![Len(f)].done = @ + m]) = Len(f)
         /\ \A i \in 1 .. Len(f) : [f EXCEPT ![Len(f)].done = @ + m][i].base = f[i].base
<1>1. f[Len(f)] \in FrameT
  BY TopOf
<1> DEFINE e == [f[Len(f)] EXCEPT !.done = f[Len(f)].done + m]
<1>2. f[Len(f)].done + m \in Nat
  BY <1>1 DEF FrameT
<1>3. e \in FrameT /\ e.base = f[Len(f)].base
  BY <1>1, <1>2 DEF FrameT
<1>4. [f EXCEPT ![Len(f)].done = @ + m] = [f EXCEPT ![Len(f)] = e]
  OBVIOUS
<1> HIDE DEF e
<1> QED
  BY <1>1, <1>3, <1>4

(* A level that has moved on.                                              *)
LEMMA MovedOn ==
  ASSUME NEW lv \in Level, NEW mv, mv = [lv EXCEPT !.idx = @ + 1, !.checkdIfImplicit = FALSE]
  PROVE  /\ mv \in Level /\ mv.split = lv.split /\ mv.parts = lv.parts
         /\ mv.idx = lv.idx + 1 /\ mv.qg = lv.qg
<1>1. PICK k \in Nat : k = lv.idx + 1
  BY DEF Level
<1>2. mv = [lv EXCEPT !.idx = k, !.checkdIfImplicit = FALSE]
  BY <1>1
<1> QED
  BY <1>1, <1>2 DEF Level

(* Going to the next part of a split, or past its last one.                *)
LEMMA NextStep == ASSUME IInv, NextPart PROVE IInv'
<1>1. PICK n \in Nat : n = Len(stack)
  BY Here
<1> DEFINE level == [Top(stack) EXCEPT !.idx = @ + 1, !.checkdIfImplicit = FALSE]
           last == Past(level)
           moved == CountersAtNextPart(curr, level)
<1>2. /\ n > 1 /\ at \in {"out", "cu", "tu"} /\ stack' = WithTop(stack, level)
      /\ frames' = [frames EXCEPT ![Len(frames)].done = @ + coded]
      /\ coded' = 0 /\ cfg' = cfg /\ chType' = chType /\ treeType' = treeType /\ modeType' = modeType
      /\ curr' = IF last THEN curr ELSE QgMove(moved, level.qg, AreaOf(level))
  BY <1>1 DEF NextPart, walkVars
<1>3. at' = IF last THEN "past" ELSE IF level.split \in TuSplits THEN "tu"
            ELSE IF ~InPicture(AreaOf(level).x, AreaOf(level).y) THEN "out" ELSE "cu"
  BY DEF NextPart
<1>4. /\ Top(stack) = stack[n] /\ stack[n] \in Level /\ stack \in Seq(Level) /\ curr \in Counters
      /\ PlaceAt(n) /\ CountAt(n) /\ QgAt(n) /\ C(n) = curr /\ ~Past(stack[n])
  BY <1>1, <1>2, Here DEF LevelInv
<1>5. /\ level \in Level /\ level.split = stack[n].split /\ level.parts = stack[n].parts
      /\ level.idx = stack[n].idx + 1 /\ level.qg = stack[n].qg
  BY <1>4, MovedOn
<1>6. last <=> level.idx >= Len(level.parts)
  BY DEF Past
<1> HIDE DEF level, last, moved
<1>7. /\ level.idx <= Len(level.parts) /\ (~last => level.idx < Len(level.parts))
      /\ level.split \in Tt => Len(level.parts) = 3
  BY <1>4, <1>5, <1>6 DEF PlaceAt, PlaceOf, Past, Level
<1>8. /\ stack' \in Seq(Level) /\ Len(stack') = n /\ stack'[n] = level
      /\ \A i \in 1 .. n - 1 : stack'[i] = stack[i]
  <2>1. stack \in Seq(Level) /\ Len(stack) >= 1 /\ level \in Level
    BY <1>1, <1>2, <1>4, <1>5
  <2>2. stack' = WithTop(stack, level) /\ Len(stack) = n
    BY <1>1, <1>2
  <2> QED
    BY <2>1, <2>2 DEF WithTop
<1>9. /\ frames' \in Seq(FrameT) /\ Len(frames') = n - 1 /\ Len(frames) = n - 1
      /\ \A i \in 1 .. n - 1 : frames'[i].base = frames[i].base
  <2>1. frames \in Seq(FrameT) /\ Len(frames) = n - 1 /\ coded \in Nat /\ Len(frames) >= 1
    BY <1>1, <1>2 DEF IInv, TypeInv
  <2>2. /\ frames' \in Seq(FrameT) /\ Len(frames') = Len(frames)
        /\ \A i \in 1 .. Len(frames) : frames'[i].base = frames[i].base
    BY <1>2, <2>1, AddDone, Zenon
  <2> QED
    BY <2>1, <2>2
<1>10. C(n - 1) \in Counters
  <2>1. frames \in Seq(FrameT) /\ n - 1 \in 1 .. Len(frames) /\ n - 1 # n
    BY <1>1, <1>2, <1>9 DEF IInv, TypeInv
  <2>2. frames[n - 1] \in FrameT /\ C(n - 1) = frames[n - 1].base
    BY <1>1, <2>1 DEF C
  <2> QED
    BY <2>2 DEF FrameT
<1>11. Inside(curr, C(n - 1), stack[n], IsImplicit(stack[n - 1]))
  BY <1>2, <1>4 DEF CountAt
<1>12. /\ curr' \in Counters /\ Inside(curr', C(n - 1), level, IsImplicit(stack[n - 1]))
       /\ curr'.tr = curr.tr
       /\ last => curr'.qgPos = curr.qgPos
       /\ ~last => curr'.qgPos = IF level.qg THEN Pos(AreaOf(level)) ELSE curr.qgPos
  <2>1. CASE last
    <3>1. curr' = curr
      BY <1>2, <2>1
    <3>2. level.split \in Tt => stack[n].idx = 2
      <4>1. stack[n].idx \in Nat /\ stack[n].idx < Len(stack[n].parts) /\ level.idx >= Len(level.parts)
        BY <1>4, <1>6, <2>1 DEF Past, Level
      <4>2. PICK k \in Nat : k = stack[n].idx
        BY <4>1
      <4>3. level.split \in Tt => k < 3 /\ k + 1 >= 3
        BY <1>5, <1>7, <4>1, <4>2
      <4> QED
        BY <4>2, <4>3
    <3>3. BtDepths(level.split, level.idx) = BtDepths(stack[n].split, stack[n].idx)
      BY <1>5, <3>2 DEF BtDepths
    <3>4. Subdivs(level.split, level.idx) = Subdivs(stack[n].split, stack[n].idx)
      BY <1>5, <3>3 DEF Subdivs
    <3>5. Inside(curr, C(n - 1), level, IsImplicit(stack[n - 1]))
      BY <1>5, <1>11, <3>3, <3>4 DEF Inside
    <3> QED
      BY <1>4, <2>1, <3>1, <3>5
  <2>2. CASE ~last
    <3>1. IsImplicit(stack[n - 1]) \in BOOLEAN
      BY DEF IsImplicit
    <3>2. stack[n].idx \in Nat /\ stack[n].split \in CuSplits \cup TuSplits
          /\ (stack[n].split \in Tt => stack[n].idx < 2)
      <4>1. stack[n].idx \in Nat
        BY <1>4 DEF Level
      <4>2. stack[n].split \in CuSplits \cup TuSplits
        BY <1>2, <1>4 DEF PlaceAt
      <4>3. PICK k \in Nat : k = stack[n].idx
        BY <4>1
      <4>4. level.split \in Tt => k + 1 < 3
        BY <1>5, <1>7, <2>2, <4>3
      <4> QED
        BY <1>5, <4>2, <4>3, <4>4
    <3>3. /\ moved \in Counters /\ Inside(moved, C(n - 1), level, IsImplicit(stack[n - 1]))
          /\ moved.qgPos = curr.qgPos /\ moved.tr = curr.tr
      BY <1>4, <1>5, <1>10, <1>11, <3>1, <3>2, NextInside DEF moved
    <3>4. AreaOf(level) \in AreaT /\ level.qg \in BOOLEAN
      BY <1>5, <1>7, <2>2 DEF AreaOf, Level
    <3>5. curr' = QgMove(moved, level.qg, AreaOf(level))
      BY <1>2, <2>2
    <3> QED
      BY <1>10, <2>2, <3>1, <3>3, <3>4, <3>5, MoveInside
  <2> QED
    BY <2>1, <2>2
<1>13. C(n)' = curr' /\ C(n - 1)' = C(n - 1) /\ \A i \in 1 .. n - 1 : frames'[i].base = C(i)
  <2>1. n - 1 \in 1 .. n - 1 /\ n - 1 # n
    BY <1>2
  <2> QED
    BY <1>1, <1>8, <1>9, <2>1 DEF C
<1>14. TypeInv'
  <2>1. at' \in Places /\ at' # "chroma"
    BY <1>3 DEF Places
  <2>2. coded' \in Nat /\ cfg' \in Configs /\ chType' \in ChT /\ treeType' \in TreeT /\ modeType' \in ModeT
    BY <1>2 DEF IInv, TypeInv
  <2> QED
    BY <1>2, <1>8, <1>9, <1>12, <2>1, <2>2 DEF TypeInv
<1>15. TopInv'
  <2>1. Top(stack') = level /\ Len(stack') > 1
    BY <1>2, <1>8 DEF Top
  <2>2. last <=> Past(level)
    BY DEF last
  <2> QED
    BY <1>3, <2>1, <2>2 DEF TopInv
<1>16. PlaceAt(n)'
  <2>1. at' # "past" => ~last
    BY <1>3
  <2> QED
    BY <1>2, <1>4, <1>5, <1>7, <1>8, <2>1, SMTT(30) DEF PlaceAt, PlaceOf
<1>17. CountAt(n)'
  <2>1. level.split \notin TuSplits => curr'.tr = 0
    BY <1>4, <1>5, <1>12 DEF CountAt
  <2>2. stack'[n - 1] = stack[n - 1]
    BY <1>2, <1>8
  <2> QED
    BY <1>8, <1>12, <1>13, <2>1, <2>2 DEF CountAt
<1>18. QgAt(n)'
  <2>1. PICK d \in 1 .. n : QgLevel(d, n)
    BY <1>4 DEF QgAt
  <2>2. \A j \in 1 .. n : stack'[j].qg <=> j <= d
    BY <1>5, <1>8, <2>1 DEF QgLevel
  <2>3. d < n \/ at' # "past" => curr'.qgPos = Pos(AreaOf(stack'[d]))
    <3>1. CASE d < n
      <4>1. ~level.qg /\ curr'.qgPos = curr.qgPos
        BY <1>8, <1>12, <2>2, <3>1
      <4>2. AreaOf(stack'[d]) = AreaOf(stack[d])
        BY <1>8, <3>1
      <4> QED
        BY <1>1, <1>4, <2>1, <3>1, <4>1, <4>2 DEF QgLevel
    <3>2. CASE d = n
      <4>1. level.qg /\ stack'[d] = level
        BY <1>8, <2>2, <3>2
      <4>2. at' # "past" => ~last
        BY <1>3
      <4> QED
        BY <1>12, <3>2, <4>1, <4>2
    <3> QED
      BY <3>1, <3>2
  <2>4. QgLevel(d, n)'
    BY <1>8, <1>13, <2>2, <2>3 DEF QgLevel
  <2>5. ~level.qg => C(n)'.qgPos = C(n - 1)'.qgPos
    BY <1>2, <1>4, <1>5, <1>12, <1>13 DEF QgAt
  <2> QED
    BY <1>8, <2>1, <2>4, <2>5 DEF QgAt
<1>19. LevelInvOnTop'
  BY <1>8, <1>16, <1>17, <1>18 DEF LevelInv, LevelInvOnTop
<1>20. \A i \in 1 .. Len(stack') - 1 :
         /\ stack'[i].split = stack[i].split /\ stack'[i].parts = stack[i].parts
         /\ stack'[i].idx = stack[i].idx /\ stack'[i].qg = stack[i].qg
         /\ i < Len(stack') - 1 => stack'[i] = stack[i]
         /\ frames'[i].base = C(i)
  BY <1>8, <1>13
<1>21. Len(stack') >= 1 /\ Len(stack') <= Len(stack) + 1 /\ Len(stack') # Len(stack) + 1
  BY <1>1, <1>2, <1>8
<1> QED
  BY <1>14, <1>15, <1>19, <1>20, <1>21, OnlyTop
----------------------------------------------------------------------------
(* The theorems.                                                           *)

(* A permitted binary or ternary split is the implicit one, if there is one. *)
LEMMA PermittedSplits ==
  ASSUME NEW s \in Permitted, s # NoSplit
  PROVE  s \in CuSplits /\ (s \in Mt => (s = ImplicitSplit <=> ImplicitSplit # NoSplit))
<1>1. Quad \notin Mt /\ NoSplit \notin Mt /\ Mt \subseteq CuSplits /\ Quad \in CuSplits
  BY DEF CuSplits, Mt, Bt, Tt, Quad, Horz, Vert, TriH, TriV, NoSplit
<1>2. Bt \subseteq Mt /\ Tt \subseteq Mt /\ QtIfAllowed \subseteq {Quad}
  BY DEF Mt, QtIfAllowed
<1>3. CASE treeType = "TREE_C"
  BY <1>3 DEF Permitted
<1>4. CASE treeType # "TREE_C" /\ ImplicitSplit # NoSplit
  <2>1. s \in UnderImplicit
    BY <1>4 DEF Permitted
  <2>2. s = Quad \/ (s \in Bt /\ s = ImplicitSplit)
    BY <1>2, <2>1 DEF UnderImplicit
  <2> QED
    BY <1>1, <1>2, <1>4, <2>2
<1>5. CASE treeType # "TREE_C" /\ ImplicitSplit = NoSplit
  <2>1. s \in {NoSplit} \cup QtIfAllowed
             \cup {r \in Bt : CanBtt /\ CanBt(r)} \cup {r \in Tt : CanBtt /\ CanTt(r)}
    BY <1>5 DEF Permitted
  <2> QED
    BY <1>1, <1>2, <1>5, <2>1
<1> QED
  BY <1>3, <1>4, <1>5

(* Before anything is split the invariant holds.                           *)
LEMMA Initially == Init => IInv
<1> SUFFICES ASSUME Init PROVE IInv
  OBVIOUS
<1>1. Legal(cfg) /\ cfg \in Configs
  BY ConfigsAssumption DEF Init
<1>2. cfg.ctu \in Nat /\ cfg.ctu > 0 /\ cfg.ch \in ChT
  BY <1>1 DEF Legal, ChT
<1> DEFINE a == Rect(0, 0, cfg.ctu, cfg.ctu)
           lv == [split |-> "CTU_LEVEL", parts |-> <<a>>, idx |-> 0,
                  checkdIfImplicit |-> FALSE, implicitSplit |-> NoSplit, qg |-> TRUE]
<1>3. a \in AreaT /\ Pos(a) = <<0, 0>> /\ lv.parts = <<a>>
  BY <1>2 DEF AreaT, Rect, Pos
<1>4. lv \in Level
  BY <1>3 DEF Level, SplitT
<1>5. /\ lv.split = "CTU_LEVEL" /\ lv.idx = 0 /\ lv.qg = TRUE
      /\ AreaOf(lv) = a /\ Len(lv.parts) = 1
  BY <1>3 DEF AreaOf
<1>6. stack = <<lv>> /\ frames = <<>> /\ curr = NoCounters /\ at = "cu" /\ coded = 0
  BY DEF Init
<1> HIDE DEF a, lv
<1>7. /\ Len(stack) = 1 /\ stack[1] = lv /\ stack \in Seq(Level) /\ C(1) = curr
      /\ Top(stack) = lv /\ frames \in Seq(FrameT) /\ Len(frames) = 0
  BY <1>4, <1>6 DEF C, Top
<1>8. curr \in Counters /\ curr.tr = 0 /\ curr.qgPos = <<0, 0>>
  BY <1>6 DEF NoCounters, Counters
<1>9. lv.split \notin TuSplits /\ lv.split \notin Tt
  BY <1>5 DEF TuSplits, Sbt, SbtHalf, SbtQuad, TuMax, Tt, TriH, TriV
<1>10. TypeInv
  BY <1>1, <1>2, <1>6, <1>7, <1>8 DEF Init, TypeInv, Places, TreeT, ModeT
<1>11. TopInv
  BY <1>6, <1>7, <1>9 DEF TopInv
<1>12. PlaceAt(1) /\ CountAt(1)
  <2>1. PlaceOf(stack[1], 1 < Len(stack) \/ at # "past")
    <3>1. stack[1].idx = 0 /\ Len(stack[1].parts) = 1 /\ stack[1].split \notin Tt
      BY <1>5, <1>7, <1>9
    <3> QED
      BY <3>1 DEF PlaceOf
  <2>2. stack[1].split = "CTU_LEVEL" /\ stack[1].qg
    BY <1>5, <1>7
  <2>3. PlaceAt(1)
    BY <2>1, <2>2 DEF PlaceAt
  <2>4. CountAt(1)
    BY <1>7, <1>8 DEF CountAt
  <2> QED
    BY <2>3, <2>4
<1>13. QgLevel(1, 1)
  BY <1>3, <1>5, <1>7, <1>8 DEF QgLevel
<1>14. QgAt(1)
  BY <1>13 DEF QgAt
<1> QED
  BY <1>7, <1>10, <1>11, <1>12, <1>14 DEF IInv, LevelInv

(* Leaving goes back to a CU or a TU whose locals were kept.               *)
LEMMA FrameBelow ==
  ASSUME IInv, Len(stack) > 1 \/ at = "chroma"
  PROVE  /\ Top(frames).ch \in ChT /\ Top(frames).tree \in TreeT /\ Top(frames).mode \in ModeT
         /\ Top(frames).done \in Nat /\ Top(frames).coded \in Nat
<1>1. frames \in Seq(FrameT) /\ Len(frames) >= 1
  BY Here DEF IInv, TypeInv
<1>2. Top(frames) \in FrameT
  BY <1>1, TopOf
<1> QED
  BY <1>2 DEF FrameT

(* Every step keeps the invariant.                                         *)
LEMMA EveryStep == IInv /\ [Next]_vars => IInv'
<1> SUFFICES ASSUME IInv, [Next]_vars PROVE IInv'
  OBVIOUS
<1>0. /\ cfg \in Configs /\ coded \in Nat /\ Len(stack) >= 1
      /\ chType \in ChT /\ treeType \in TreeT /\ modeType \in ModeT
  BY DEF IInv, TypeInv
<1>1. CASE Leaf
  <2>1. Area.w \in Nat /\ Area.h \in Nat
    BY <1>1, Here DEF Leaf, AreaT
  <2>2. coded' \in Nat
    BY <1>1, <2>1, TimesNat DEF Leaf
  <2>3. PICK lv \in Level : lv = Checked(Top(stack))
    BY CheckedLevel
  <2>4. /\ lv.split = Top(stack).split /\ lv.parts = Top(stack).parts
        /\ lv.idx = Top(stack).idx /\ lv.qg = Top(stack).qg
    BY <2>3, CheckedLevel
  <2>5. /\ stack' = WithTop(stack, lv) /\ at = "cu" /\ at' = at /\ frames' = frames
        /\ cfg' = cfg /\ curr' = curr /\ chType' = chType /\ treeType' = treeType /\ modeType' = modeType
    BY <1>1, <2>3, SMTT(30) DEF Leaf, walkVars
  <2> QED
    BY <1>0, <2>2, <2>4, <2>5, CodeStep
<1>2. ASSUME stack' = stack, at # "past", cfg' = cfg, curr' = curr, coded' \in Nat,
             chType' \in ChT, treeType' \in TreeT, modeType' \in ModeT,
             \/ at' = at /\ frames' = frames
             \/ at = "chroma" /\ at' = "cu" /\ frames' = Pop(frames)
      PROVE  IInv'
  <2>1. PICK lv \in Level : lv = Top(stack)
    BY Here
  <2>2. stack' = WithTop(stack, lv)
    BY <1>2, <2>1, Here DEF WithTop
  <2> QED
    BY <1>2, <2>1, <2>2, CodeStep
<1>3. CASE CodeTu
  <2>1. Area.w \in Nat /\ Area.h \in Nat
    BY <1>3, Here DEF CodeTu, AreaT
  <2>2. coded' \in Nat
    BY <1>3, <2>1, TimesNat DEF CodeTu
  <2> QED
    BY <1>0, <1>2, <1>3, <2>2 DEF CodeTu, walkVars
<1>4. CASE CodeLocalChroma
  <2>1. at = "chroma"
    BY <1>4 DEF CodeLocalChroma
  <2> QED
    BY <1>2, <1>4, <2>1, FrameBelow DEF CodeLocalChroma, Recover
<1>5. CASE NextPart
  BY <1>5, NextStep
<1>6. CASE ExitCurrSplit
  <2>1. Len(stack) > 1 /\ at # "chroma"
    BY <1>6 DEF ExitCurrSplit, IInv, TopInv
  <2> QED
    BY <1>6, <2>1, FrameBelow, PopStep DEF ExitCurrSplit, Recover
<1>7. CASE EnterLocalChroma
  <2>1. Len(stack) > 1 /\ at # "chroma"
    BY <1>7 DEF EnterLocalChroma, IInv, TopInv
  <2> QED
    BY <1>0, <1>7, <2>1, PopStep DEF EnterLocalChroma, ChT, TreeT
<1>8. CASE Abort
  <2>1. Len(stack) > 1 /\ at = "cu" /\ Popped /\ Recover /\ at' = "cu" /\ cfg' = cfg
        /\ coded' = Top(frames).coded
    BY <1>8 DEF Abort
  <2>2. PICK n \in Nat : n = Len(stack)
    BY Here
  <2>3. PlaceAt(n) /\ stack[n].split \notin TuSplits
    BY <2>1, <2>2, Here DEF LevelInv, IInv, TopInv
  <2>4. stack[n - 1].split \notin TuSplits
    BY <2>1, <2>2, <2>3 DEF PlaceAt
  <2>5. Pop(stack) \in Seq(Level) /\ Len(Pop(stack)) = n - 1 /\ Pop(stack)[n - 1] = stack[n - 1]
    BY <2>1, <2>2, Here, PopOf
  <2>6. at' = PlaceBelow
    BY <2>1, <2>4, <2>5 DEF PlaceBelow, Top
  <2> QED
    BY <2>1, <2>6, FrameBelow, PopStep DEF Recover
<1>9. ASSUME NEW s \in CuSplits, NEW m \in {"ALL", "INTER", "INTRA"}, Split(s, m)
      PROVE  IInv'
  <2>1. /\ at = "cu" /\ s \in Permitted /\ s # NoSplit /\ ~SplitThrows(s)
        /\ SplitCurrArea(s, m, "cu") /\ modeType' = m
    BY <1>9 DEF Split
  <2>2. treeType' \in TreeT
    BY <1>0, <1>9 DEF Split, TreeT
  <2>3. curr.bt \in Nat /\ curr.mt \in Nat
    BY Here DEF Counters
  <2>4. s = Quad => curr.mt = 0 /\ curr.bt = 0
    BY <2>1, <2>3 DEF SplitThrows
  <2>5. s \in Mt => (s = ImplicitSplit <=> ImplicitSplit # NoSplit)
    BY <2>1, PermittedSplits
  <2>6. m \in ModeT /\ s \notin TuSplits
    BY Kinds DEF ModeT
  <2> QED
    BY <2>1, <2>2, <2>4, <2>5, <2>6, SplitStep
<1>10. ASSUME NEW s \in TuSplits, SplitTu(s)
       PROVE  IInv'
  <2>1. /\ at \in {"cu", "tu"} /\ SplitCurrArea(s, modeType, "tu")
        /\ treeType' = treeType /\ modeType' = modeType
    BY <1>10 DEF SplitTu
  <2>2. s \notin CuSplits /\ s # Quad /\ s \notin Mt
    BY Kinds
  <2>3. PICK child \in ModeT : child = modeType
    BY <1>0
  <2>4. SplitCurrArea(s, child, "tu")
    BY <2>1, <2>3
  <2> QED
    BY <1>0, <2>1, <2>2, <2>4, SplitStep
<1>11. CASE UNCHANGED vars
  BY <1>11 DEF vars, IInv, TypeInv, TopInv, LevelInv, PlaceAt, CountAt, QgAt, QgLevel, C, Past,
     AreaOf, Top
<1> QED
  BY <1>1, <1>3, <1>4, <1>5, <1>6, <1>7, <1>8, <1>9, <1>10, <1>11 DEF Next

(* The invariant holds in every state.                                     *)
LEMMA Invariance == Spec => []IInv
  BY Initially, EveryStep, PTL DEF Spec

(* The counters stay natural numbers, and one frame is kept per open split, *)
(* whatever the picture, the CTU and the partitioning limits.              *)
THEOREM TypeCorrect == Spec => []TypeOK
<1>1. IInv => TypeOK
  BY DEF IInv, TypeInv, TypeOK, ChT, TreeT, ModeT
<1> QED
  BY <1>1, Invariance, PTL

(* Leaving a split, after its last part or in the middle, gives back the   *)
(* counters and the quantisation group the CU had before it.               *)
THEOREM CountersRestored == Spec => ExitRestoresCounters
<1>1. IInv /\ [Next]_vars => [Len(stack') < Len(stack) => curr' = Top(frames).base]_vars
  <2> SUFFICES ASSUME IInv, Next, Len(stack') < Len(stack)
               PROVE  curr' = Top(frames).base
    BY DEF vars
  <2>1. ASSUME Popped, Len(stack) > 1, at # "chroma" PROVE curr' = Top(frames).base
    BY <2>1, PopGivesBack
  <2>2. CASE ExitCurrSplit \/ EnterLocalChroma \/ Abort
    BY <2>1, <2>2 DEF ExitCurrSplit, EnterLocalChroma, Abort, IInv, TopInv
  <2>3. Len(stack) \in Nat /\ stack \in Seq(Level) /\ Top(stack) \in Level /\ Len(stack) >= 1
    BY Here
  <2>4. ASSUME NEW e, stack' = WithTop(stack, e) PROVE FALSE
    BY <2>3, <2>4 DEF WithTop
  <2>5. CASE Leaf \/ CodeTu \/ CodeLocalChroma \/ NextPart
    BY <2>3, <2>4, <2>5 DEF Leaf, CodeTu, CodeLocalChroma, NextPart
  <2>6. ASSUME NEW s, NEW child, NEW place, SplitCurrArea(s, child, place) PROVE FALSE
    <3>1. PICK e, lv : stack' = Append(WithTop(stack, e), lv)
      BY <2>6 DEF SplitCurrArea
    <3>2. Len(WithTop(stack, e)) = Len(stack)
      BY <2>3 DEF WithTop
    <3> QED
      BY <2>3, <3>1, <3>2
  <2>7. CASE \E s \in CuSplits, m \in {"ALL", "INTER", "INTRA"} : Split(s, m)
    BY <2>6, <2>7 DEF Split
  <2>8. CASE \E s \in TuSplits : SplitTu(s)
    BY <2>6, <2>8 DEF SplitTu
  <2> QED
    BY <2>2, <2>5, <2>7, <2>8 DEF Next
<1> QED
  BY <1>1, Invariance, PTL DEF Spec, ExitRestoresCounters

(* A CU that gets control back, from xCheckModeSplit or from the chroma of a *)
(* local dual tree, has the channel, tree and mode type it was entered with: *)
(* the frames of the calls below shrink only where all three are recovered.  *)
THEOREM TreeRestored == Spec => ExitRestoresTree
<1> DEFINE Restored == /\ chType' = Top(frames).ch /\ treeType' = Top(frames).tree
                       /\ modeType' = Top(frames).mode
<1>1. IInv /\ [Next]_vars => [Len(frames') < Len(frames) => Restored]_vars
  <2> SUFFICES ASSUME IInv, Next, Len(frames') < Len(frames)
               PROVE  Restored
    BY DEF vars
  <2>1. frames \in Seq(FrameT) /\ Len(frames) \in Nat
    BY DEF IInv, TypeInv
  <2>2. CASE ExitCurrSplit \/ CodeLocalChroma \/ Abort
    BY <2>2 DEF ExitCurrSplit, CodeLocalChroma, Abort, Recover
  <2>3. CASE Leaf \/ CodeTu \/ EnterLocalChroma
    BY <2>1, <2>3 DEF Leaf, CodeTu, EnterLocalChroma
  <2>4. CASE NextPart
    <3>1. PICK f : frames' = [frames EXCEPT ![Len(frames)].done = f]
      BY <2>4 DEF NextPart
    <3>2. Len(frames') = Len(frames)
      BY <2>1, <3>1
    <3> QED
      BY <2>1, <3>2
  <2>5. ASSUME NEW s, NEW child, NEW place, SplitCurrArea(s, child, place) PROVE FALSE
    BY <2>1, <2>5 DEF SplitCurrArea
  <2>6. CASE \E s \in CuSplits, m \in {"ALL", "INTER", "INTRA"} : Split(s, m)
    BY <2>5, <2>6 DEF Split
  <2>7. CASE \E s \in TuSplits : SplitTu(s)
    BY <2>5, <2>7 DEF SplitTu
  <2> QED
    BY <2>2, <2>3, <2>4, <2>6, <2>7 DEF Next
<1>2. Restored <=> <<chType', treeType', modeType'>>
                     = <<Top(frames).ch, Top(frames).tree, Top(frames).mode>>
  BY SMTT(30)
<1> QED
  BY <1>1, <1>2, Invariance, PTL DEF Spec, ExitRestoresTree

(* Levels that keep their content, their counters and all below the top.   *)
LEMMA CacheBelow ==
  ASSUME CacheInv, cfg' = cfg, NEW i \in 1 .. Len(stack),
         stack'[i] = stack[i], C(i)' = C(i)
  PROVE  CachedAt(i)'
  BY DEF CacheInv, CachedAt, PrescribedSplit, InPicture, AreaOf

(* Asking for the implicit split leaves the right answer in the level.     *)
LEMMA CacheChecked ==
  ASSUME IInv, CacheInv
  PROVE  Checked(Top(stack)).implicitSplit = PrescribedSplit(AreaOf(Checked(Top(stack))), curr)
<1>1. Top(stack) \in Level /\ Top(stack) = stack[Len(stack)] /\ C(Len(stack)) = curr
      /\ Len(stack) \in 1 .. Len(stack)
  BY Here
<1>2. ImplicitSplit = PrescribedSplit(Area, curr)
  BY <1>1 DEF CacheInv, CachedAt, ImplicitSplit, ComputeImplicitSplit, Area
<1>3. AreaOf(Checked(Top(stack))) = Area
  BY <1>1 DEF AreaOf, Area, Checked, Level
<1>4. Checked(Top(stack)).implicitSplit = ImplicitSplit
  BY <1>1 DEF Checked, Level
<1> QED
  BY <1>2, <1>3, <1>4

(* What the levels have cached stays right when a split is opened.         *)
LEMMA CacheSplit ==
  ASSUME IInv, IInv', CacheInv, at \in {"cu", "tu"},
         NEW s \in CuSplits \cup TuSplits, NEW child, NEW place, SplitCurrArea(s, child, place)
  PROVE  CacheInv'
<1>1. PICK n \in Nat : n = Len(stack)
  BY Here
<1> DEFINE top == Checked(Top(stack))
           level == NewLevel(s, Area, QgAfterSplit(Top(stack), CountersAfterSplit(curr, s, s = ImplicitSplit)))
<1>2. /\ n >= 1 /\ stack \in Seq(Level) /\ top \in Level
      /\ frames \in Seq(FrameT) /\ Len(frames) = n - 1 /\ cfg' = cfg
  BY <1>1, Here, CheckedLevel DEF IInv, TypeInv, SplitCurrArea
<1>3. stack' = Append(WithTop(stack, top), level) /\ frames' = Append(frames, Frame(child))
  BY DEF SplitCurrArea
<1> HIDE DEF top, level
<1>4. /\ Len(stack') = n + 1 /\ stack'[n] = top /\ stack'[n + 1] = level
      /\ \A i \in 1 .. n - 1 : stack'[i] = stack[i]
  BY <1>1, <1>2, <1>3 DEF WithTop
<1>5. frames'[n] = Frame(child) /\ \A i \in 1 .. n - 1 : frames'[i] = frames[i]
  BY <1>2, <1>3
<1>6. C(n)' = curr /\ \A i \in 1 .. n - 1 : C(i)' = C(i)
  BY <1>1, <1>2, <1>4, <1>5 DEF C, Frame
<1>7. CachedAt(n)'
  <2>1. top.implicitSplit = PrescribedSplit(AreaOf(top), curr)
    BY CacheChecked DEF top
  <2> QED
    BY <1>2, <1>4, <1>6, <2>1 DEF CachedAt, PrescribedSplit, InPicture, AreaOf
<1>8. CachedAt(n + 1)'
  BY <1>4 DEF CachedAt, level, NewLevel
<1>9. ASSUME NEW i \in 1 .. n - 1 PROVE CachedAt(i)'
  BY <1>1, <1>2, <1>4, <1>6, CacheBelow
<1> QED
  BY <1>2, <1>4, <1>7, <1>8, <1>9 DEF CacheInv

(* So it does when a split is left: the counters it was found with return. *)
LEMMA CachePop ==
  ASSUME IInv, CacheInv, Len(stack) > 1, at # "chroma", Popped, cfg' = cfg,
         frames' = frames \/ frames' = Pop(frames)
  PROVE  CacheInv'
<1>1. PICK n \in Nat : n = Len(stack)
  BY Here
<1>2. /\ n > 1 /\ Len(stack') = n - 1 /\ \A i \in 1 .. n - 1 : stack'[i] = stack[i]
      /\ Len(frames) = n - 1 /\ frames \in Seq(FrameT)
      /\ Top(frames) = frames[n - 1] /\ curr' = Top(frames).base
  BY <1>1, PopGivesBack
<1>3. \A i \in 1 .. n - 2 : frames'[i] = frames[i]
  <2>1. frames \in Seq(FrameT) /\ Len(frames) >= 1 /\ Len(frames) - 1 = n - 2
    BY <1>2
  <2> QED
    BY <2>1, PopOf
<1>4. ASSUME NEW i \in 1 .. n - 1 PROVE C(i)' = C(i)
  BY <1>1, <1>2, <1>3 DEF C
<1> QED
  BY <1>1, <1>2, <1>4, CacheBelow DEF CacheInv

(* And when the walk moves on, as the answer for the part before is        *)
(* dropped.                                                                *)
LEMMA CacheNext == ASSUME IInv, CacheInv, NextPart PROVE CacheInv'
<1>1. PICK n \in Nat : n = Len(stack)
  BY Here
<1> DEFINE level == [Top(stack) EXCEPT !.idx = @ + 1, !.checkdIfImplicit = FALSE]
<1>2. n > 1 /\ stack \in Seq(Level) /\ Top(stack) \in Level /\ stack' = WithTop(stack, level) /\ cfg' = cfg
  BY <1>1, Here DEF NextPart
<1>3. ~level.checkdIfImplicit
  BY <1>2 DEF Level
<1> HIDE DEF level
<1>4. Len(stack') = n /\ stack'[n] = level /\ \A i \in 1 .. n - 1 : stack'[i] = stack[i]
  BY <1>1, <1>2 DEF WithTop
<1>5. PICK d : frames' = [frames EXCEPT ![Len(frames)].done = d]
  BY DEF NextPart
<1>6. frames \in Seq(FrameT) /\ Len(frames) >= n - 1
  BY <1>1, <1>2 DEF IInv, TypeInv
<1>7. ASSUME NEW i \in 1 .. n - 1 PROVE frames'[i].base = frames[i].base
  BY <1>5, <1>6 DEF FrameT
<1>8. ASSUME NEW i \in 1 .. n - 1 PROVE CachedAt(i)'
  <2>1. C(i)' = C(i)
    BY <1>1, <1>4, <1>7 DEF C
  <2> QED
    BY <1>1, <1>2, <1>4, <2>1, CacheBelow
<1>9. CachedAt(n)'
  BY <1>3, <1>4 DEF CachedAt
<1> QED
  BY <1>2, <1>4, <1>8, <1>9 DEF CacheInv

(* Steps that leave the stack and the counters alone.                      *)
LEMMA CacheKept ==
  ASSUME IInv, CacheInv, stack' = stack, curr' = curr, cfg' = cfg,
         frames' = frames \/ (at = "chroma" /\ frames' = Pop(frames))
  PROVE  CacheInv'
<1>1. PICK n \in Nat : n = Len(stack)
  BY Here
<1>2. ASSUME NEW i \in 1 .. n - 1 PROVE frames'[i] = frames[i]
  <2>1. CASE frames' = frames
    BY <2>1
  <2>2. CASE at = "chroma" /\ frames' = Pop(frames)
    <3>1. frames \in Seq(FrameT) /\ Len(frames) = n /\ n >= 1
      BY <1>1, <2>2, Here DEF IInv, TypeInv
    <3> QED
      BY <2>2, <3>1, PopOf
  <2> QED
    BY <2>1, <2>2
<1>3. ASSUME NEW i \in 1 .. n PROVE C(i)' = C(i)
  BY <1>1, <1>2 DEF C
<1> QED
  BY <1>1, <1>3, CacheBelow DEF CacheInv

(* What a level has cached is right in every state.                        *)
LEMMA CacheInvariance == Spec => []CacheInv
<1>1. Init => CacheInv
  BY DEF Init, CacheInv, CachedAt
<1>2. IInv /\ IInv' /\ CacheInv /\ [Next]_vars => CacheInv'
  <2> SUFFICES ASSUME IInv, IInv', CacheInv, [Next]_vars
               PROVE  CacheInv'
    OBVIOUS
  <2>1. CASE Leaf
    <3>1. PICK n \in Nat : n = Len(stack)
      BY Here
    <3>2. /\ n >= 1 /\ stack \in Seq(Level) /\ Checked(Top(stack)) \in Level
      BY <3>1, Here, CheckedLevel
    <3>3. /\ Len(stack') = n /\ stack'[n] = Checked(Top(stack))
          /\ \A i \in 1 .. n - 1 : stack'[i] = stack[i]
          /\ curr' = curr /\ frames' = frames /\ cfg' = cfg
      BY <2>1, <3>1, <3>2 DEF Leaf, WithTop
    <3>4. ASSUME NEW i \in 1 .. n PROVE C(i)' = C(i)
      BY <3>1, <3>3 DEF C
    <3>5. ASSUME NEW i \in 1 .. n - 1 PROVE CachedAt(i)'
      BY <3>1, <3>3, <3>4, CacheBelow
    <3>6. CachedAt(n)'
      <4>1. C(n)' = curr
        BY <3>1, <3>3 DEF C
      <4> QED
        BY <3>3, <4>1, CacheChecked DEF CachedAt, PrescribedSplit, InPicture, AreaOf
    <3> QED
      BY <3>2, <3>3, <3>5, <3>6 DEF CacheInv
  <2>2. CASE CodeTu \/ UNCHANGED vars
    BY <2>2, CacheKept DEF CodeTu, vars
  <2>3. CASE CodeLocalChroma
    BY <2>3, CacheKept DEF CodeLocalChroma, Recover
  <2>4. CASE NextPart
    BY <2>4, CacheNext
  <2>5. CASE ExitCurrSplit \/ EnterLocalChroma
    <3>1. Len(stack) > 1 /\ at # "chroma"
      BY <2>5 DEF ExitCurrSplit, EnterLocalChroma, IInv, TopInv
    <3> QED
      BY <2>5, <3>1, CachePop DEF ExitCurrSplit, EnterLocalChroma, Recover
  <2>6. CASE Abort
    BY <2>6, CachePop DEF Abort, Recover
  <2>7. CASE \E s \in CuSplits, m \in {"ALL", "INTER", "INTRA"} : Split(s, m)
    <3>1. PICK s \in CuSplits, m \in {"ALL", "INTER", "INTRA"} : Split(s, m)
      BY <2>7
    <3> QED
      BY <3>1, CacheSplit DEF Split
  <2>8. CASE \E s \in TuSplits : SplitTu(s)
    <3>1. PICK s \in TuSplits : SplitTu(s)
      BY <2>8
    <3> QED
      BY <3>1, CacheSplit DEF SplitTu
  <2> QED
    BY <2>1, <2>2, <2>3, <2>4, <2>5, <2>6, <2>7, <2>8 DEF Next
<1> QED
  BY <1>1, <1>2, Invariance, PTL DEF Spec

(* What is cached in any level of the stack is what getImplicitSplit would *)
(* answer there, though counters, channel and mode change while splits     *)
(* below it are walked: the next visit of the level may trust it.          *)
THEOREM CacheCurrent == Spec => []CachedSplitIsCurrent
<1>1. IInv /\ CacheInv => CachedSplitIsCurrent
  BY Here DEF CacheInv, CachedAt, CachedSplitIsCurrent, ComputeImplicitSplit, Area
<1> QED
  BY <1>1, CacheInvariance, Invariance, PTL

(* The quantisation group starts at the current part of the deepest level  *)
(* that opens groups.                                                      *)
THEOREM QgStarts == Spec => []QgStartsAtDeepestGroup
<1>1. IInv => QgStartsAtDeepestGroup
  <2> SUFFICES ASSUME IInv PROVE QgStartsAtDeepestGroup
    OBVIOUS
  <2> DEFINE open == {i \in 1 .. Len(stack) : stack[i].qg}
             deepest == CHOOSE i \in open : \A j \in open : j <= i
  <2>1. PICK n \in Nat : n = Len(stack) /\ n >= 1 /\ C(n) = curr /\ QgAt(n)
    BY Here DEF LevelInv
  <2>2. PICK d \in 1 .. n : QgLevel(d, n)
    BY <2>1 DEF QgAt
  <2>3. open = 1 .. d
    BY <2>1, <2>2 DEF QgLevel
  <2>4. d \in open /\ \A j \in open : j <= d
    BY <2>2, <2>3
  <2>5. deepest \in open /\ \A j \in open : j <= deepest
    BY <2>4
  <2>6. deepest = d
    BY <2>2, <2>3, <2>4, <2>5
  <2>7. ~Past(stack[d]) => d < n \/ at # "past"
    BY <2>1, <2>2, Here DEF IInv, TopInv
  <2>8. ~Past(stack[d]) => curr.qgPos = Pos(AreaOf(stack[d]))
    BY <2>1, <2>2, <2>7 DEF QgLevel
  <2> QED
    BY <2>6, <2>8 DEF QgStartsAtDeepestGroup
<1> QED
  BY <1>1, Invariance, PTL

----------------------------------------------------------------------------
(* Channel, tree and mode type.                                            *)

\* the mode type in which level i is walked
ModeOf(i) == IF i <= Len(frames) THEN frames[i].mode ELSE modeType

\* a CU is of the slice's channel, and a region of intra CUs has a luma tree of its own
TreeOk(ch, tree, mode) ==
  /\ ch = cfg.ch /\ tree # "TREE_C"
  /\ cfg.dualITree => mode = "ALL"
  /\ ~cfg.dualITree /\ mode = "INTRA" => tree = "TREE_L"

TreeInv ==
  /\ at # "chroma" => TreeOk(chType, treeType, modeType)
  /\ \A i \in 1 .. Len(frames) : TreeOk(frames[i].ch, frames[i].tree, frames[i].mode)
  /\ \A i \in 1 .. Len(stack) - 1 : frames[i].childMode = ModeOf(i + 1)
  /\ at = "chroma" => /\ treeType = "TREE_C" /\ ~cfg.dualITree
                      /\ frames[Len(stack)].mode = "ALL"

----------------------------------------------------------------------------
(* Areas.                                                                  *)

Sizes == {4, 8, 16, 32, 64, 128}

InsidePicture(a) == a.x + a.w <= cfg.picW /\ a.y + a.h <= cfg.picH
Straddles(a) == InPicture(a.x, a.y) /\ ~InsidePicture(a)

\* at least 16 chroma samples, and four of them in a row
ChromaFits(a) == a.w >= 8 /\ a.w * a.h >= 64

NeedsChroma(mode) == IF cfg.dualITree THEN cfg.ch = "CHROMA" ELSE mode = "ALL"

\* the sizes of a CU area reached by a split s and walked in a mode type
SizeOk(a, s, mode) ==
  /\ a.w \in Sizes /\ a.h \in Sizes
  /\ a.w = 128 => a.h >= 64
  /\ a.h = 128 => a.w >= 64
  /\ s \in {"CTU_LEVEL", Quad} => a.w = a.h
  /\ s \in Mt /\ cfg.dualITree => a.w <= 64 /\ a.h <= 64
  /\ NeedsChroma(mode) => ChromaFits(a)
  /\ ~cfg.dualITree /\ mode = "INTER" => a.w * a.h >= 32

\* an area on the boundary, with counters c, was reached by implicit splits only
EdgeOk(a, c) ==
  /\ a.w >= 8 /\ a.h >= 8 /\ a.x % a.w = 0 /\ a.y % a.h = 0
  /\ c.mt = c.implicitBt
  /\ c.mt > 0 => /\ cfg.maxBtDepth > 0
                 /\ a.w <= 64 /\ a.h <= 64 /\ a.w <= cfg.maxBt /\ a.h <= cfg.maxBt

CuArea(a, s, c, mode) == SizeOk(a, s, mode) /\ (Straddles(a) => EdgeOk(a, c))

\* a TU area, of a CU inside the picture
TuArea(a, s) ==
  /\ InsidePicture(a) /\ a.w > 0 /\ a.h > 0
  /\ s = TuMax => a.w \in Sizes /\ a.h \in Sizes
  /\ s \in Sbt => a.w <= cfg.maxTb /\ a.h <= cfg.maxTb

AreaOk(a, s, c, mode) == IF s \in TuSplits THEN TuArea(a, s) ELSE CuArea(a, s, c, mode)

PartsApart(parts, a) ==
  /\ \A i \in DOMAIN parts : Within(parts[i], a)
  /\ \A i, j \in DOMAIN parts : i # j => Disjoint(parts[i], parts[j])

GeoAt(i) ==
  /\ \A j \in 1 .. Len(stack[i].parts) : AreaOk(stack[i].parts[j], stack[i].split, C(i), ModeOf(i))
  /\ stack[i].split \in {"CTU_LEVEL", Quad} => C(i).mt = 0 /\ C(i).bt = 0
  /\ i < Len(stack) \/ at \in {"cu", "tu", "chroma"} =>
       InPicture(AreaOf(stack[i]).x, AreaOf(stack[i]).y)
  /\ i > 1 => PartsApart(stack[i].parts, AreaOf(stack[i - 1]))

GeoInv ==
  /\ \A i \in 1 .. Len(stack) : GeoAt(i)
  /\ at = "out" => ~InPicture(Area.x, Area.y)

----------------------------------------------------------------------------
(* Samples.                                                                *)

\* what the first n parts, of four at most, have in the picture
VisibleOf(parts, n) ==
    (IF n >= 1 THEN Visible(parts[1]) ELSE 0) + (IF n >= 2 THEN Visible(parts[2]) ELSE 0)
  + (IF n >= 3 THEN Visible(parts[3]) ELSE 0) + (IF n >= 4 THEN Visible(parts[4]) ELSE 0)

SumAt(i) ==
  /\ i <= Len(frames) => frames[i].coded \in {0, Visible(AreaOf(stack[i]))}
  /\ i > 1 => /\ Len(stack[i].parts) <= 4
              /\ VisibleOf(stack[i].parts, Len(stack[i].parts)) = Visible(AreaOf(stack[i - 1]))
              /\ frames[i - 1].done = VisibleOf(stack[i].parts, stack[i].idx)

SumInv ==
  /\ \A i \in 1 .. Len(stack) : SumAt(i)
  /\ IF at \in {"cu", "tu"} THEN coded \in {0, Visible(Area)} ELSE coded = 0
  /\ at = "chroma" => frames[Len(stack)].done = Visible(Area)

----------------------------------------------------------------------------
(* What the steps do to the open levels.                                   *)

\* level i keeps its split, its parts and the one the walk is at
SameLevel(i) == /\ stack'[i].split = stack[i].split /\ stack'[i].parts = stack[i].parts
                /\ stack'[i].idx = stack[i].idx

(* Opening a split adds a level and the frame of the one below.            *)
LEMMA PushShape ==
  ASSUME IInv, at \in {"cu", "tu"}, NEW s, NEW child, NEW place, SplitCurrArea(s, child, place),
         NEW n, n = Len(stack)
  PROVE  /\ n \in Nat /\ n >= 1 /\ Len(frames) = n - 1 /\ cfg' = cfg
         /\ Len(stack') = n + 1 /\ Len(frames') = n
         /\ \A i \in 1 .. n : SameLevel(i)
         /\ stack'[n + 1].split = s /\ stack'[n + 1].idx = 0
         /\ stack'[n + 1].parts = SubPartitions(Area, s)
         /\ \A i \in 1 .. n - 1 : frames'[i] = frames[i]
         /\ frames'[n] = Frame(child)
         /\ \A i \in 1 .. n : C(i)' = C(i)
<1> DEFINE top == Checked(Top(stack))
           level == NewLevel(s, Area, QgAfterSplit(Top(stack), CountersAfterSplit(curr, s, s = ImplicitSplit)))
<1>1. /\ n \in Nat /\ n >= 1 /\ stack \in Seq(Level) /\ top \in Level /\ Top(stack) = stack[n]
      /\ frames \in Seq(FrameT) /\ Len(frames) = n - 1 /\ cfg' = cfg
      /\ top.split = stack[n].split /\ top.parts = stack[n].parts /\ top.idx = stack[n].idx
  BY Here, CheckedLevel DEF IInv, TypeInv, SplitCurrArea
<1>2. stack' = Append(WithTop(stack, top), level) /\ frames' = Append(frames, Frame(child))
  BY DEF SplitCurrArea
<1>3. level.split = s /\ level.idx = 0 /\ level.parts = SubPartitions(Area, s)
  BY DEF NewLevel
<1> HIDE DEF top, level
<1>4. /\ Len(stack') = n + 1 /\ stack'[n] = top /\ stack'[n + 1] = level
      /\ \A i \in 1 .. n - 1 : stack'[i] = stack[i]
  BY <1>1, <1>2 DEF WithTop
<1>5. Len(frames') = n /\ frames'[n] = Frame(child) /\ \A i \in 1 .. n - 1 : frames'[i] = frames[i]
  BY <1>1, <1>2
<1>6. \A i \in 1 .. n : SameLevel(i)
  BY <1>1, <1>4 DEF SameLevel
<1>7. \A i \in 1 .. n : C(i)' = C(i)
  BY <1>1, <1>4, <1>5 DEF C, Frame
<1> QED
  BY <1>1, <1>3, <1>4, <1>5, <1>6, <1>7

(* Going on to the next part changes the top level, and what its frame has *)
(* as done.                                                                *)
LEMMA MoveShape ==
  ASSUME IInv, NextPart, NEW n, n = Len(stack)
  PROVE  /\ n \in Nat /\ n > 1 /\ Len(frames) = n - 1 /\ cfg' = cfg
         /\ Len(stack') = n /\ Len(frames') = n - 1
         /\ \A i \in 1 .. n - 1 : SameLevel(i)
         /\ stack'[n].split = stack[n].split /\ stack'[n].parts = stack[n].parts
         /\ stack'[n].idx = stack[n].idx + 1
         /\ \A i \in 1 .. n - 1 : C(i)' = C(i)
         /\ \A i \in 1 .. n - 2 : frames'[i] = frames[i]
         /\ frames'[n - 1] = [frames[n - 1] EXCEPT !.done = @ + coded]
         /\ frames[n - 1] \in FrameT
         /\ curr'.mt = curr.mt /\ curr'.implicitBt = curr.implicitBt
         /\ stack[n].split \notin Tt => curr'.bt = curr.bt
<1> DEFINE level == [Top(stack) EXCEPT !.idx = @ + 1, !.checkdIfImplicit = FALSE]
<1>1. /\ n > 1 /\ n \in Nat /\ stack \in Seq(Level) /\ Top(stack) = stack[n] /\ stack[n] \in Level
      /\ frames \in Seq(FrameT) /\ curr \in Counters
  BY Here DEF NextPart, IInv, TypeInv
<1>2. at # "chroma" /\ Len(frames) = n - 1
  BY <1>1 DEF NextPart, IInv, TypeInv
<1>3. stack' = WithTop(stack, level) /\ cfg' = cfg
  BY DEF NextPart
<1>4. level.split = stack[n].split /\ level.parts = stack[n].parts /\ level.idx = stack[n].idx + 1
  BY <1>1 DEF Level
<1>5. \/ curr' = curr
      \/ curr' = QgMove(CountersAtNextPart(curr, level), level.qg, AreaOf(level))
  BY DEF NextPart
<1>6. /\ curr'.mt = curr.mt /\ curr'.implicitBt = curr.implicitBt
      /\ stack[n].split \notin Tt => curr'.bt = curr.bt
  <2> DEFINE moved == CountersAtNextPart(curr, level)
  <2>1. /\ moved.mt = curr.mt /\ moved.implicitBt = curr.implicitBt
        /\ stack[n].split \notin Tt => moved.bt = curr.bt + 0
    BY <1>4 DEF CountersAtNextPart
  <2>2. \A q : /\ [moved EXCEPT !.qgPos = q].mt = moved.mt
               /\ [moved EXCEPT !.qgPos = q].implicitBt = moved.implicitBt
               /\ [moved EXCEPT !.qgPos = q].bt = moved.bt
    BY DEF CountersAtNextPart
  <2>3. curr.bt + 0 = curr.bt
    BY <1>1 DEF Counters
  <2> HIDE DEF level, moved
  <2> QED
    BY <1>5, <2>1, <2>2, <2>3 DEF QgMove, moved
<1> HIDE DEF level
<1>7. Len(stack') = n /\ stack'[n] = level /\ \A i \in 1 .. n - 1 : stack'[i] = stack[i]
  BY <1>1, <1>3 DEF WithTop
<1>8. frames' = [frames EXCEPT ![n - 1] = [frames[n - 1] EXCEPT !.done = @ + coded]]
  BY <1>2 DEF NextPart
<1>9. /\ Len(frames') = n - 1 /\ \A i \in 1 .. n - 2 : frames'[i] = frames[i]
      /\ frames'[n - 1] = [frames[n - 1] EXCEPT !.done = @ + coded]
  BY <1>1, <1>2, <1>8
<1>10. \A i \in 1 .. n - 1 : frames'[i].base = frames[i].base
  <2>1. frames[n - 1] \in FrameT
    BY <1>1, <1>2
  <2>2. frames'[n - 1].base = frames[n - 1].base
    BY <1>9, <2>1 DEF FrameT
  <2>3. \A i \in 1 .. n - 2 : frames'[i] = frames[i]
    BY <1>9
  <2> TAKE i \in 1 .. n - 1
  <2>4. i = n - 1 \/ i \in 1 .. n - 2
    BY <1>1
  <2> QED
    BY <2>2, <2>3, <2>4
<1>11. \A i \in 1 .. n - 1 : C(i)' = C(i)
  BY <1>1, <1>7, <1>10 DEF C
<1>12. \A i \in 1 .. n - 1 : SameLevel(i)
  BY <1>1, <1>7 DEF SameLevel
<1>13. frames[n - 1] \in FrameT
  BY <1>1, <1>2
<1> QED
  BY <1>1, <1>2, <1>3, <1>4, <1>6, <1>7, <1>9, <1>11, <1>12, <1>13

(* Leaving a split drops the top level, and its frame unless the chroma of *)
(* the CU comes now.                                                       *)
LEMMA PopShape ==
  ASSUME IInv, Len(stack) > 1, at # "chroma", Popped,
         frames' = frames \/ frames' = Pop(frames), NEW n, n = Len(stack)
  PROVE  /\ n \in Nat /\ n > 1 /\ Len(frames) = n - 1 /\ Len(stack') = n - 1
         /\ Top(frames) = frames[n - 1]
         /\ \A i \in 1 .. n - 1 : SameLevel(i) /\ C(i)' = C(i)
         /\ \A i \in 1 .. n - 2 : frames'[i] = frames[i]
         /\ frames' = Pop(frames) => Len(frames') = n - 2
<1>1. /\ n \in Nat /\ n > 1 /\ Len(stack') = n - 1 /\ \A i \in 1 .. n - 1 : stack'[i] = stack[i]
      /\ Len(frames) = n - 1 /\ frames \in Seq(FrameT)
      /\ Top(frames) = frames[n - 1] /\ curr' = Top(frames).base
  BY Here, PopGivesBack
<1>2. Len(Pop(frames)) = n - 2 /\ \A i \in 1 .. n - 2 : Pop(frames)[i] = frames[i]
  <2>1. frames \in Seq(FrameT) /\ Len(frames) >= 1 /\ Len(frames) - 1 = n - 2
    BY <1>1
  <2> QED
    BY <2>1, PopOf
<1>3. \A i \in 1 .. n - 2 : frames'[i] = frames[i]
  BY <1>2
<1>4. \A i \in 1 .. n - 1 : SameLevel(i)
  BY <1>1 DEF SameLevel
<1>5. \A i \in 1 .. n - 1 : C(i)' = C(i)
  BY <1>1, <1>3 DEF C
<1> QED
  BY <1>1, <1>2, <1>3, <1>4, <1>5

(* Coding without a split leaves the levels as they are.                   *)
LEMMA StayShape ==
  ASSUME IInv, Leaf \/ CodeTu \/ CodeLocalChroma \/ UNCHANGED vars, NEW n, n = Len(stack)
  PROVE  /\ n \in Nat /\ n >= 1 /\ Len(stack') = n /\ cfg' = cfg /\ curr' = curr
         /\ \A i \in 1 .. n : SameLevel(i) /\ C(i)' = C(i)
         /\ \A i \in 1 .. n - 1 : frames'[i] = frames[i]
         /\ ~CodeLocalChroma => frames' = frames
         /\ CodeLocalChroma => /\ at = "chroma" /\ Len(frames) = n /\ Len(frames') = n - 1
                               /\ Top(frames) = frames[n]
<1>1. /\ n \in Nat /\ n >= 1 /\ stack \in Seq(Level) /\ Top(stack) = stack[n]
      /\ frames \in Seq(FrameT) /\ cfg' = cfg /\ curr' = curr
  BY Here DEF Leaf, CodeTu, CodeLocalChroma, vars, IInv, TypeInv
<1>2. Len(stack') = n /\ \A i \in 1 .. n : SameLevel(i)
  <2>1. CASE Leaf
    <3> DEFINE top == Checked(Top(stack))
    <3>1. top \in Level /\ top.split = stack[n].split /\ top.parts = stack[n].parts /\ top.idx = stack[n].idx
      BY <1>1, CheckedLevel
    <3>2. stack' = WithTop(stack, top)
      BY <2>1 DEF Leaf
    <3> HIDE DEF top
    <3> QED
      BY <1>1, <3>1, <3>2 DEF WithTop, SameLevel
  <2>2. CASE CodeTu \/ CodeLocalChroma \/ UNCHANGED vars
    BY <1>1, <2>2 DEF CodeTu, CodeLocalChroma, vars, SameLevel
  <2> QED
    BY <2>1, <2>2
<1>3. ~CodeLocalChroma => frames' = frames
  BY DEF Leaf, CodeTu, vars
<1>4. ASSUME CodeLocalChroma
      PROVE  /\ at = "chroma" /\ Len(frames) = n /\ Len(frames') = n - 1 /\ Top(frames) = frames[n]
             /\ \A i \in 1 .. n - 1 : frames'[i] = frames[i]
  <2>1. at = "chroma" /\ frames' = Pop(frames)
    BY <1>4 DEF CodeLocalChroma, Recover
  <2>2. Len(frames) = n /\ Len(frames) >= 1
    BY <1>1, <2>1 DEF IInv, TypeInv
  <2> QED
    BY <1>1, <2>1, <2>2, PopOf, TopOf
<1>5. \A i \in 1 .. n - 1 : frames'[i] = frames[i]
  BY <1>3, <1>4
<1>6. \A i \in 1 .. n : C(i)' = C(i)
  BY <1>1, <1>2, <1>5 DEF C
<1> QED
  BY <1>1, <1>2, <1>3, <1>4, <1>5, <1>6

----------------------------------------------------------------------------
(* TreeInv.                                                                *)

(* The slice's channel is that of its configuration.                       *)
LEMMA TreeStart == Init => TreeInv
<1> SUFFICES ASSUME Init PROVE TreeInv
  OBVIOUS
<1>1. Len(frames) = 0 /\ Len(stack) = 1 /\ at = "cu"
  BY DEF Init
<1> QED
  BY <1>1 DEF Init, TreeInv, TreeOk

(* An open split carries its CU's channel, tree and mode type in its frame.*)
LEMMA TreePush ==
  ASSUME IInv, TreeInv, at \in {"cu", "tu"}, NEW s, NEW child, NEW place,
         SplitCurrArea(s, child, place), place # "chroma",
         modeType' = child, TreeOk(chType, treeType, modeType)'
  PROVE  TreeInv'
<1>1. PICK n \in Nat : n = Len(stack)
  BY Here
<1>2. /\ n >= 1 /\ Len(frames) = n - 1 /\ Len(stack') = n + 1 /\ Len(frames') = n /\ cfg' = cfg
      /\ \A i \in 1 .. n - 1 : frames'[i] = frames[i]
      /\ frames'[n] = Frame(child)
  BY <1>1, PushShape
<1>3. at' # "chroma"
  BY DEF SplitCurrArea
<1>4. TreeOk(frames[n].ch, frames[n].tree, frames[n].mode)'
  BY <1>2 DEF TreeInv, TreeOk, Frame
<1>5. ASSUME NEW i \in 1 .. n - 1
      PROVE  TreeOk(frames[i].ch, frames[i].tree, frames[i].mode)'
  BY <1>2 DEF TreeInv, TreeOk
<1>6. ASSUME NEW i \in 1 .. n PROVE (frames[i].childMode = ModeOf(i + 1))'
  <2>1. CASE i = n
    BY <1>2, <2>1 DEF ModeOf, Frame
  <2>2. CASE i \in 1 .. n - 1
    <3>1. frames[i].childMode = ModeOf(i + 1) /\ i + 1 \in 1 .. n
      BY <1>1, <1>2, <2>2 DEF TreeInv
    <3>2. ModeOf(i + 1)' = ModeOf(i + 1)
      BY <1>2, <3>1 DEF ModeOf, Frame
    <3> QED
      BY <1>2, <2>2, <3>1, <3>2
  <2> QED
    BY <2>1, <2>2
<1>7. \A i \in 1 .. n : TreeOk(frames[i].ch, frames[i].tree, frames[i].mode)'
  BY <1>2, <1>4, <1>5
<1> QED
  BY <1>2, <1>3, <1>6, <1>7 DEF TreeInv

(* The mode type signalModeCons hands to the parts agrees with the tree    *)
(* they are coded in.                                                      *)
LEMMA TreeOfParts ==
  ASSUME IInv, TreeInv, NEW s, NEW m, Split(s, m)
  PROVE  m \in ModeT /\ treeType' \in TreeT /\ TreeOk(chType, treeType, modeType)'
<1>1. /\ m \in ChildModes(s) /\ modeType' = m /\ at = "cu" /\ cfg' = cfg /\ chType' = chType
      /\ treeType' = IF treeType # "TREE_D" THEN treeType
                     ELSE IF modeType = "ALL" /\ m = "INTRA" THEN "TREE_L" ELSE "TREE_D"
  BY DEF Split, SplitCurrArea
<1>2. TreeOk(chType, treeType, modeType) /\ treeType \in TreeT /\ modeType \in ModeT
  BY <1>1 DEF TreeInv, IInv, TypeInv
<1>3. /\ m \in {modeType, "INTRA", "INTER"}
      /\ m # modeType => ~cfg.dualITree /\ modeType = "ALL"
  BY <1>1 DEF ChildModes, ModeConsInherits
<1> QED
  BY <1>1, <1>2, <1>3 DEF TreeOk, TreeT, ModeT

(* Every step keeps channel, tree and mode type in order.                  *)
LEMMA TreeStep == ASSUME IInv, TreeInv, [Next]_vars PROVE TreeInv'
<1>0. PICK n \in Nat : n = Len(stack)
  BY Here
<1>1. CASE Leaf \/ CodeTu \/ UNCHANGED vars
  <2>1. /\ Len(stack') = n /\ cfg' = cfg /\ frames' = frames
        /\ chType' = chType /\ treeType' = treeType /\ modeType' = modeType /\ at' = at
    <3>1. at # "chroma" \/ UNCHANGED vars
      BY <1>1 DEF Leaf, CodeTu
    <3>2. chType' = chType /\ treeType' = treeType /\ modeType' = modeType /\ at' = at /\ frames' = frames
      BY <1>1 DEF Leaf, CodeTu, vars, walkVars
    <3> QED
      BY <1>0, <1>1, <3>2, StayShape
  <2>2. \A i \in 1 .. n - 1 : ModeOf(i + 1)' = ModeOf(i + 1)
    BY <2>1 DEF ModeOf
  <2> QED
    BY <1>0, <2>1, <2>2 DEF TreeInv, TreeOk
<1>2. CASE CodeLocalChroma
  <2>1. /\ Len(stack') = n /\ n >= 1 /\ cfg' = cfg /\ Len(frames) = n /\ Len(frames') = n - 1
        /\ \A i \in 1 .. n - 1 : frames'[i] = frames[i]
        /\ Top(frames) = frames[n] /\ at' = "cu"
        /\ chType' = frames[n].ch /\ treeType' = frames[n].tree /\ modeType' = frames[n].mode
    BY <1>0, <1>2, StayShape DEF CodeLocalChroma, Recover
  <2>2. TreeOk(chType, treeType, modeType)'
    BY <2>1 DEF TreeInv, TreeOk
  <2>3. ASSUME NEW i \in 1 .. n - 1 PROVE TreeOk(frames[i].ch, frames[i].tree, frames[i].mode)'
    BY <2>1 DEF TreeInv, TreeOk
  <2>4. \A i \in 1 .. n - 1 : ModeOf(i + 1)' = ModeOf(i + 1)
    BY <2>1 DEF ModeOf
  <2> QED
    BY <1>0, <2>1, <2>2, <2>3, <2>4 DEF TreeInv
<1>3. CASE NextPart
  <2>1. /\ n > 1 /\ Len(frames) = n - 1 /\ Len(frames') = n - 1 /\ Len(stack') = n /\ cfg' = cfg
        /\ \A i \in 1 .. n - 2 : frames'[i] = frames[i]
        /\ frames'[n - 1] = [frames[n - 1] EXCEPT !.done = @ + coded] /\ frames[n - 1] \in FrameT
    BY <1>0, <1>3, MoveShape
  <2>2. /\ chType' = chType /\ treeType' = treeType /\ modeType' = modeType
        /\ at # "chroma" /\ at' # "chroma"
    BY <1>3 DEF NextPart, walkVars
  <2>3. /\ frames'[n - 1].ch = frames[n - 1].ch /\ frames'[n - 1].tree = frames[n - 1].tree
        /\ frames'[n - 1].mode = frames[n - 1].mode /\ frames'[n - 1].childMode = frames[n - 1].childMode
    BY <2>1 DEF FrameT
  <2>4. ASSUME NEW i \in 1 .. n - 1
        PROVE  /\ frames'[i].ch = frames[i].ch /\ frames'[i].tree = frames[i].tree
               /\ frames'[i].mode = frames[i].mode /\ frames'[i].childMode = frames[i].childMode
    <3>1. i = n - 1 \/ i \in 1 .. n - 2
      BY <2>1
    <3> QED
      BY <2>1, <2>3, <3>1
  <2>5. \A i \in 1 .. n - 1 : ModeOf(i + 1)' = ModeOf(i + 1)
    BY <2>1, <2>2, <2>4 DEF ModeOf
  <2>6. TreeOk(chType, treeType, modeType)'
    BY <2>1, <2>2 DEF TreeInv, TreeOk
  <2>7. ASSUME NEW i \in 1 .. n - 1 PROVE TreeOk(frames[i].ch, frames[i].tree, frames[i].mode)'
    BY <2>1, <2>4 DEF TreeInv, TreeOk
  <2> QED
    BY <1>0, <2>1, <2>2, <2>4, <2>5, <2>6, <2>7 DEF TreeInv
<1>4. CASE ExitCurrSplit \/ Abort
  <2>1. n > 1 /\ at # "chroma" /\ Popped /\ frames' = Pop(frames) /\ at' # "chroma" /\ cfg' = cfg
        /\ chType' = Top(frames).ch /\ treeType' = Top(frames).tree /\ modeType' = Top(frames).mode
    BY <1>0, <1>4 DEF ExitCurrSplit, Abort, Recover, PlaceBelow, IInv, TopInv
  <2>2. /\ Len(frames) = n - 1 /\ Len(stack') = n - 1 /\ Len(frames') = n - 2 /\ Top(frames) = frames[n - 1]
        /\ \A i \in 1 .. n - 2 : frames'[i] = frames[i]
    BY <1>0, <2>1, PopShape
  <2>3. TreeOk(chType, treeType, modeType)'
    BY <2>1, <2>2 DEF TreeInv, TreeOk
  <2>4. ASSUME NEW i \in 1 .. n - 2 PROVE TreeOk(frames[i].ch, frames[i].tree, frames[i].mode)'
    BY <2>1, <2>2 DEF TreeInv, TreeOk
  <2>5. ASSUME NEW i \in 1 .. n - 2 PROVE (frames[i].childMode = ModeOf(i + 1))'
    <3>1. frames[i].childMode = ModeOf(i + 1) /\ i \in 1 .. n - 1 /\ frames'[i] = frames[i]
      BY <1>0, <2>1, <2>2 DEF TreeInv
    <3>2. ModeOf(i + 1)' = ModeOf(i + 1)
      BY <2>1, <2>2, <3>1 DEF ModeOf
    <3> QED
      BY <3>1, <3>2
  <2> QED
    BY <1>0, <2>1, <2>2, <2>3, <2>4, <2>5 DEF TreeInv
<1>5. CASE EnterLocalChroma
  <2>1. /\ n > 1 /\ at # "chroma" /\ Popped /\ frames' = frames /\ at' = "chroma" /\ cfg' = cfg
        /\ treeType' = "TREE_C" /\ modeType' = modeType /\ ChromaNotSplit
    BY <1>0, <1>5 DEF EnterLocalChroma, IInv, TopInv
  <2>2. /\ Len(frames) = n - 1 /\ Len(stack') = n - 1 /\ Top(frames) = frames[n - 1]
        /\ \A i \in 1 .. n - 2 : frames'[i] = frames[i]
    BY <1>0, <2>1, PopShape
  <2>3. frames[n - 1].mode = "ALL" /\ modeType = "INTRA"
    <3>1. n - 1 \in 1 .. Len(stack) - 1 /\ n - 1 + 1 = n
      BY <1>0, <2>1
    <3>2. frames[n - 1].childMode = ModeOf(n)
      BY <3>1 DEF TreeInv
    <3> QED
      BY <2>1, <2>2, <3>2 DEF ChromaNotSplit, ModeOf
  <2>4. ~cfg.dualITree
    BY <2>1, <2>3 DEF TreeInv, TreeOk
  <2>5. \A i \in 1 .. n - 1 : TreeOk(frames[i].ch, frames[i].tree, frames[i].mode)'
    BY <2>1, <2>2 DEF TreeInv, TreeOk
  <2>6. \A i \in 1 .. n - 2 : ModeOf(i + 1)' = ModeOf(i + 1)
    BY <2>1, <2>2 DEF ModeOf
  <2> QED
    BY <1>0, <2>1, <2>2, <2>3, <2>4, <2>5, <2>6 DEF TreeInv
<1>6. ASSUME NEW s \in CuSplits, NEW m, Split(s, m) PROVE TreeInv'
  <2>1. TreeOk(chType, treeType, modeType)'
    BY <1>6, TreeOfParts
  <2>2. at = "cu" /\ SplitCurrArea(s, m, "cu") /\ modeType' = m
    BY <1>6 DEF Split
  <2> QED
    BY <2>1, <2>2, TreePush
<1>7. ASSUME NEW s \in TuSplits, SplitTu(s) PROVE TreeInv'
  <2>1. /\ at \in {"cu", "tu"} /\ SplitCurrArea(s, modeType, "tu") /\ modeType' = modeType
        /\ treeType' = treeType /\ chType' = chType /\ cfg' = cfg
    BY <1>7 DEF SplitTu, SplitCurrArea
  <2>2. TreeOk(chType, treeType, modeType)'
    BY <2>1 DEF TreeInv, TreeOk
  <2> QED
    BY <2>1, <2>2, TreePush
<1> QED
  BY <1>1, <1>2, <1>3, <1>4, <1>5, <1>6, <1>7 DEF Next

(* Channel, tree and mode type are in order in every state.                *)
LEMMA TreeInvariance == Spec => []TreeInv
<1>1. IInv /\ TreeInv /\ [Next]_vars => TreeInv'
  BY TreeStep
<1> QED
  BY <1>1, TreeStart, Invariance, PTL DEF Spec

----------------------------------------------------------------------------
(* The tilings.                                                            *)

Quarter(m) == m \div 4

VisW(x, w) == MinOf(x + w, cfg.picW) - MinOf(x, cfg.picW)
VisH(y, h) == MinOf(y + h, cfg.picH) - MinOf(y, cfg.picH)

\* the parts of an area are apart, start where it does, and have in the picture
\* what it has
Tiles(parts, a) ==
  /\ parts \in Seq(AreaT) /\ Len(parts) \in 1 .. 4 /\ Pos(parts[1]) = Pos(a)
  /\ PartsApart(parts, a)
  /\ VisibleOf(parts, Len(parts)) = Visible(a)

(* The configuration is one the encoder accepts.                           *)
LEMMA LegalCfg == ASSUME IInv PROVE Legal(cfg) /\ cfg.picW \in Nat /\ cfg.picH \in Nat
  BY ConfigsAssumption DEF IInv, TypeInv, Legal

(* Block sizes are multiples of four.                                      *)
LEMMA Quarters ==
  ASSUME NEW m \in Sizes
  PROVE  /\ Quarter(m) \in {1, 2, 4, 8, 16, 32} /\ m = 4 * Quarter(m) /\ m \div 2 = 2 * Quarter(m)
         /\ InFour(m, 0) = 0 /\ InFour(m, 1) = Quarter(m)
         /\ InFour(m, 2) = 2 * Quarter(m) /\ InFour(m, 3) = 3 * Quarter(m)
<1>1. m = 4 \/ m = 8 \/ m = 16 \/ m = 32 \/ m = 64 \/ m = 128
  BY DEF Sizes
<1> QED
  BY <1>1 DEF Quarter, InFour

(* Both are numbers of samples.                                            *)
LEMMA VisNat ==
  ASSUME cfg.picW \in Nat, cfg.picH \in Nat, NEW x \in Nat, NEW u \in Nat
  PROVE  VisW(x, u) \in Nat /\ VisH(x, u) \in Nat
  BY DEF VisW, VisH, MinOf

(* The visible samples of a rectangle are those of a row times those of a  *)
(* column.                                                                 *)
LEMMA VisibleRect ==
  ASSUME cfg.picW \in Nat, cfg.picH \in Nat,
         NEW x \in Nat, NEW y \in Nat, NEW w \in Nat, NEW h \in Nat
  PROVE  Visible(Rect(x, y, w, h)) = VisW(x, w) * VisH(y, h)
<1>1. /\ Rect(x, y, w, h).x = x /\ Rect(x, y, w, h).y = y
      /\ Rect(x, y, w, h).w = w /\ Rect(x, y, w, h).h = h
  BY DEF Rect
<1>2. VisW(x, w) \in Nat /\ VisH(y, h) \in Nat
  BY VisNat
<1>3. VisW(x, w) = IF x < cfg.picW THEN MinOf(w, cfg.picW - x) ELSE 0
  BY DEF VisW, MinOf
<1>4. VisH(y, h) = IF y < cfg.picH THEN MinOf(h, cfg.picH - y) ELSE 0
  BY DEF VisH, MinOf
<1>5. \A m \in Nat : m * 0 = 0 /\ 0 * m = 0
  OBVIOUS
<1> QED
  BY <1>1, <1>2, <1>3, <1>4, <1>5 DEF Visible, InPicture

(* A rectangle is an area.                                                 *)
LEMMA RectArea ==
  ASSUME NEW x \in Nat, NEW y \in Nat, NEW w \in Nat, NEW h \in Nat
  PROVE  /\ Rect(x, y, w, h) \in AreaT
         /\ Rect(x, y, w, h).x = x /\ Rect(x, y, w, h).y = y
         /\ Rect(x, y, w, h).w = w /\ Rect(x, y, w, h).h = h
  BY DEF Rect, AreaT

(* An area is the rectangle of its sides.                                  *)
LEMMA AreaRect ==
  ASSUME NEW a \in AreaT
  PROVE  /\ a = Rect(a.x, a.y, a.w, a.h)
         /\ a.x \in Nat /\ a.y \in Nat /\ a.w \in Nat /\ a.h \in Nat
  BY DEF Rect, AreaT

(* The visible samples of an area are a number.                            *)
LEMMA AreaVisible ==
  ASSUME cfg.picW \in Nat, cfg.picH \in Nat, NEW a \in AreaT PROVE Visible(a) \in Nat
<1>1. a.x \in Nat /\ a.y \in Nat /\ a.w \in Nat /\ a.h \in Nat /\ a = Rect(a.x, a.y, a.w, a.h)
  BY AreaRect
<1>2. Visible(a) = VisW(a.x, a.w) * VisH(a.y, a.h)
  BY <1>1, VisibleRect
<1>3. VisW(a.x, a.w) \in Nat /\ VisH(a.y, a.h) \in Nat
  BY <1>1, VisNat
<1> QED
  BY <1>2, <1>3, TimesNat

(* Multiplication distributes, for up to three summands.                   *)
LEMMA Distribute ==
  ASSUME NEW k \in Nat, NEW l \in Nat, NEW m \in Nat, NEW n \in Nat
  PROVE  /\ (k + l) * n = k * n + l * n /\ n * (k + l) = n * k + n * l
         /\ (k + l + m) * n = k * n + l * n + m * n /\ n * (k + l + m) = n * k + n * l + n * m
  OBVIOUS

(* Two columns tile an area.                                           *)
LEMMA TwoColumns ==
  ASSUME cfg.picW \in Nat, cfg.picH \in Nat, NEW x \in Nat, NEW y \in Nat, NEW w \in Nat, NEW h \in Nat,
         NEW u \in Nat, NEW v \in Nat, NEW z \in Nat, w = u + v, z = x + u,
         NEW parts \in Seq(AreaT), Len(parts) = 2, parts[1] = Rect(x, y, u, h), parts[2] = Rect(z, y, v, h)
  PROVE  Tiles(parts, Rect(x, y, w, h))
<1> DEFINE a == Rect(x, y, w, h)
<1>1. a \in AreaT /\ a.x = x /\ a.y = y /\ a.w = w /\ a.h = h
  BY DEF Rect, AreaT
<1>2. DOMAIN parts = {1, 2}
  OBVIOUS
<1>3. /\ parts[1] \in AreaT /\ parts[1].x = x /\ parts[1].y = y /\ parts[1].w = u /\ parts[1].h = h
      /\ parts[2] \in AreaT /\ parts[2].x = z /\ parts[2].y = y /\ parts[2].w = v /\ parts[2].h = h
  BY DEF Rect, AreaT
<1>4. Visible(parts[1]) + Visible(parts[2]) = Visible(a)
  <2>1. /\ Visible(parts[1]) = VisW(x, u) * VisH(y, h)
        /\ Visible(parts[2]) = VisW(z, v) * VisH(y, h)
        /\ Visible(a) = VisW(x, w) * VisH(y, h)
    BY VisibleRect
  <2>2. VisW(x, u) \in Nat /\ VisW(z, v) \in Nat /\ VisH(y, h) \in Nat
    BY VisNat
  <2>3. VisW(x, w) = VisW(x, u) + VisW(z, v)
    BY DEF VisW, MinOf
  <2> QED
    BY <2>1, <2>2, <2>3, Distribute
<1>5. Visible(parts[1]) \in Nat /\ Visible(parts[2]) \in Nat
  BY <1>3, AreaVisible
<1> HIDE DEF a
<1>6. Pos(parts[1]) = Pos(a) /\ PartsApart(parts, a)
  BY <1>1, <1>2, <1>3, SMTT(30) DEF Pos, PartsApart, Within, Disjoint
<1>7. VisibleOf(parts, 2) = Visible(a)
  BY <1>4, <1>5 DEF VisibleOf
<1>8. Tiles(parts, a)
  BY <1>6, <1>7 DEF Tiles
<1> QED
  BY <1>8 DEF a

(* Two rows tile an area.                                              *)
LEMMA TwoRows ==
  ASSUME cfg.picW \in Nat, cfg.picH \in Nat, NEW x \in Nat, NEW y \in Nat, NEW w \in Nat, NEW h \in Nat,
         NEW u \in Nat, NEW v \in Nat, NEW z \in Nat, h = u + v, z = y + u,
         NEW parts \in Seq(AreaT), Len(parts) = 2, parts[1] = Rect(x, y, w, u), parts[2] = Rect(x, z, w, v)
  PROVE  Tiles(parts, Rect(x, y, w, h))
<1> DEFINE a == Rect(x, y, w, h)
<1>1. a \in AreaT /\ a.x = x /\ a.y = y /\ a.w = w /\ a.h = h
  BY DEF Rect, AreaT
<1>2. DOMAIN parts = {1, 2}
  OBVIOUS
<1>3. /\ parts[1] \in AreaT /\ parts[1].x = x /\ parts[1].y = y /\ parts[1].w = w /\ parts[1].h = u
      /\ parts[2] \in AreaT /\ parts[2].x = x /\ parts[2].y = z /\ parts[2].w = w /\ parts[2].h = v
  BY DEF Rect, AreaT
<1>4. Visible(parts[1]) + Visible(parts[2]) = Visible(a)
  <2>1. /\ Visible(parts[1]) = VisW(x, w) * VisH(y, u)
        /\ Visible(parts[2]) = VisW(x, w) * VisH(z, v)
        /\ Visible(a) = VisW(x, w) * VisH(y, h)
    BY VisibleRect
  <2>2. VisW(x, w) \in Nat /\ VisH(y, u) \in Nat /\ VisH(z, v) \in Nat
    BY VisNat
  <2>3. VisH(y, h) = VisH(y, u) + VisH(z, v)
    BY DEF VisH, MinOf
  <2> QED
    BY <2>1, <2>2, <2>3, Distribute
<1>5. Visible(parts[1]) \in Nat /\ Visible(parts[2]) \in Nat
  BY <1>3, AreaVisible
<1> HIDE DEF a
<1>6. Pos(parts[1]) = Pos(a) /\ PartsApart(parts, a)
  BY <1>1, <1>2, <1>3, SMTT(30) DEF Pos, PartsApart, Within, Disjoint
<1>7. VisibleOf(parts, 2) = Visible(a)
  BY <1>4, <1>5 DEF VisibleOf
<1>8. Tiles(parts, a)
  BY <1>6, <1>7 DEF Tiles
<1> QED
  BY <1>8 DEF a

(* So do three columns,                                                *)
LEMMA ThreeColumns ==
  ASSUME cfg.picW \in Nat, cfg.picH \in Nat, NEW x \in Nat, NEW y \in Nat, NEW w \in Nat, NEW h \in Nat,
         NEW t \in Nat, NEW u \in Nat, NEW v \in Nat, NEW p \in Nat, NEW q \in Nat,
         w = t + u + v, p = x + t, q = x + t + u, NEW parts \in Seq(AreaT), Len(parts) = 3,
         parts[1] = Rect(x, y, t, h), parts[2] = Rect(p, y, u, h), parts[3] = Rect(q, y, v, h)
  PROVE  Tiles(parts, Rect(x, y, w, h))
<1> DEFINE a == Rect(x, y, w, h)
<1>1. a \in AreaT /\ a.x = x /\ a.y = y /\ a.w = w /\ a.h = h
  BY DEF Rect, AreaT
<1>2. DOMAIN parts = {1, 2, 3}
  OBVIOUS
<1>3. /\ parts[1] \in AreaT /\ parts[1].x = x /\ parts[1].y = y /\ parts[1].w = t /\ parts[1].h = h
      /\ parts[2] \in AreaT /\ parts[2].x = p /\ parts[2].y = y /\ parts[2].w = u /\ parts[2].h = h
      /\ parts[3] \in AreaT /\ parts[3].x = q /\ parts[3].y = y /\ parts[3].w = v /\ parts[3].h = h
  BY DEF Rect, AreaT
<1>4. Visible(parts[1]) + Visible(parts[2]) + Visible(parts[3]) = Visible(a)
  <2>1. /\ Visible(parts[1]) = VisW(x, t) * VisH(y, h)
        /\ Visible(parts[2]) = VisW(p, u) * VisH(y, h)
        /\ Visible(parts[3]) = VisW(q, v) * VisH(y, h)
        /\ Visible(a) = VisW(x, w) * VisH(y, h)
    BY VisibleRect, SMTT(30)
  <2>2. /\ VisW(x, t) \in Nat /\ VisW(p, u) \in Nat /\ VisW(q, v) \in Nat
        /\ VisH(y, h) \in Nat
    BY VisNat
  <2>3. VisW(x, w) = VisW(x, t) + VisW(p, u) + VisW(q, v)
    BY SMTT(30) DEF VisW, MinOf
  <2>4. (VisW(x, t) + VisW(p, u) + VisW(q, v)) * VisH(y, h)
          = VisW(x, t) * VisH(y, h) + VisW(p, u) * VisH(y, h) + VisW(q, v) * VisH(y, h)
    BY <2>2, Distribute, SMTT(30)
  <2> QED
    BY <2>1, <2>3, <2>4, Zenon
<1>5. Visible(parts[1]) \in Nat /\ Visible(parts[2]) \in Nat /\ Visible(parts[3]) \in Nat
  BY <1>3, AreaVisible
<1>6. Pos(parts[1]) = Pos(a) /\ PartsApart(parts, a)
  <2>1. /\ y >= y /\ y + h <= y + h /\ x >= x /\ x + t <= x + w /\ p >= x /\ p + u <= x + w /\ q >= x /\ q + v <= x + w
        /\ x + t <= p /\ x + t <= q /\ p + u <= q
    OBVIOUS
  <2> HIDE DEF a
  <2>2. Within(parts[1], a) /\ Within(parts[2], a) /\ Within(parts[3], a)
    BY ONLY <1>1, <1>3, <2>1 DEF Within
  <2>3. /\ Disjoint(parts[1], parts[2]) /\ Disjoint(parts[2], parts[1])
        /\ Disjoint(parts[1], parts[3]) /\ Disjoint(parts[3], parts[1])
        /\ Disjoint(parts[2], parts[3]) /\ Disjoint(parts[3], parts[2])
    BY ONLY <1>3, <2>1 DEF Disjoint
  <2>4. Pos(parts[1]) = Pos(a)
    BY <1>1, <1>3 DEF Pos
  <2> QED
    BY <1>2, <2>2, <2>3, <2>4 DEF PartsApart
<1> HIDE DEF a
<1>7. VisibleOf(parts, 3) = Visible(a)
  BY <1>4, <1>5, SMTT(30) DEF VisibleOf
<1>8. Tiles(parts, a)
  BY <1>6, <1>7 DEF Tiles
<1> QED
  BY <1>8 DEF a

(* and three rows.                                                     *)
LEMMA ThreeRows ==
  ASSUME cfg.picW \in Nat, cfg.picH \in Nat, NEW x \in Nat, NEW y \in Nat, NEW w \in Nat, NEW h \in Nat,
         NEW t \in Nat, NEW u \in Nat, NEW v \in Nat, NEW p \in Nat, NEW q \in Nat,
         h = t + u + v, p = y + t, q = y + t + u, NEW parts \in Seq(AreaT), Len(parts) = 3,
         parts[1] = Rect(x, y, w, t), parts[2] = Rect(x, p, w, u), parts[3] = Rect(x, q, w, v)
  PROVE  Tiles(parts, Rect(x, y, w, h))
<1> DEFINE a == Rect(x, y, w, h)
<1>1. a \in AreaT /\ a.x = x /\ a.y = y /\ a.w = w /\ a.h = h
  BY DEF Rect, AreaT
<1>2. DOMAIN parts = {1, 2, 3}
  OBVIOUS
<1>3. /\ parts[1] \in AreaT /\ parts[1].x = x /\ parts[1].y = y /\ parts[1].w = w /\ parts[1].h = t
      /\ parts[2] \in AreaT /\ parts[2].x = x /\ parts[2].y = p /\ parts[2].w = w /\ parts[2].h = u
      /\ parts[3] \in AreaT /\ parts[3].x = x /\ parts[3].y = q /\ parts[3].w = w /\ parts[3].h = v
  BY DEF Rect, AreaT
<1>4. Visible(parts[1]) + Visible(parts[2]) + Visible(parts[3]) = Visible(a)
  <2>1. /\ Visible(parts[1]) = VisW(x, w) * VisH(y, t)
        /\ Visible(parts[2]) = VisW(x, w) * VisH(p, u)
        /\ Visible(parts[3]) = VisW(x, w) * VisH(q, v)
        /\ Visible(a) = VisW(x, w) * VisH(y, h)
    BY VisibleRect
  <2>2. /\ VisH(y, t) \in Nat /\ VisH(p, u) \in Nat /\ VisH(q, v) \in Nat
        /\ VisW(x, w) \in Nat
    BY VisNat
  <2>3. VisH(y, h) = VisH(y, t) + VisH(p, u) + VisH(q, v)
    BY SMTT(30) DEF VisH, MinOf
  <2>4. VisW(x, w) * (VisH(y, t) + VisH(p, u) + VisH(q, v))
          = VisW(x, w) * VisH(y, t) + VisW(x, w) * VisH(p, u) + VisW(x, w) * VisH(q, v)
    BY <2>2, Distribute, SMTT(30)
  <2> QED
    BY <2>1, <2>3, <2>4, Zenon
<1>5. Visible(parts[1]) \in Nat /\ Visible(parts[2]) \in Nat /\ Visible(parts[3]) \in Nat
  BY <1>3, AreaVisible
<1>6. Pos(parts[1]) = Pos(a) /\ PartsApart(parts, a)
  <2>1. /\ x >= x /\ x + w <= x + w /\ y >= y /\ y + t <= y + h /\ p >= y /\ p + u <= y + h /\ q >= y /\ q + v <= y + h
        /\ y + t <= p /\ y + t <= q /\ p + u <= q
    OBVIOUS
  <2> HIDE DEF a
  <2>2. Within(parts[1], a) /\ Within(parts[2], a) /\ Within(parts[3], a)
    BY ONLY <1>1, <1>3, <2>1 DEF Within
  <2>3. /\ Disjoint(parts[1], parts[2]) /\ Disjoint(parts[2], parts[1])
        /\ Disjoint(parts[1], parts[3]) /\ Disjoint(parts[3], parts[1])
        /\ Disjoint(parts[2], parts[3]) /\ Disjoint(parts[3], parts[2])
    BY ONLY <1>3, <2>1 DEF Disjoint
  <2>4. Pos(parts[1]) = Pos(a)
    BY <1>1, <1>3 DEF Pos
  <2> QED
    BY <1>2, <2>2, <2>3, <2>4 DEF PartsApart
<1> HIDE DEF a
<1>7. VisibleOf(parts, 3) = Visible(a)
  BY <1>4, <1>5, SMTT(30) DEF VisibleOf
<1>8. Tiles(parts, a)
  BY <1>6, <1>7 DEF Tiles
<1> QED
  BY <1>8 DEF a

(* Two columns of two rows tile an area.                                   *)
LEMMA TwoByTwo ==
  ASSUME cfg.picW \in Nat, cfg.picH \in Nat, NEW a \in AreaT, NEW t \in Nat, NEW u \in Nat,
         a.w = t + t, a.h = u + u, NEW parts \in Seq(AreaT), Len(parts) = 4,
         parts[1] = Rect(a.x, a.y, t, u), parts[2] = Rect(a.x + t, a.y, t, u),
         parts[3] = Rect(a.x, a.y + u, t, u), parts[4] = Rect(a.x + t, a.y + u, t, u)
  PROVE  Tiles(parts, a)
<1>1. PICK x \in Nat, y \in Nat, w \in Nat, h \in Nat :
        x = a.x /\ y = a.y /\ w = a.w /\ h = a.h /\ a = Rect(x, y, w, h)
  BY AreaRect, SMTT(30)
<1>2. PICK p \in Nat, q \in Nat : p = x + t /\ q = y + u
  OBVIOUS
<1>3. /\ w = t + t /\ h = u + u
       /\ parts[1] = Rect(x, y, t, u) /\ parts[2] = Rect(p, y, t, u)
       /\ parts[3] = Rect(x, q, t, u) /\ parts[4] = Rect(p, q, t, u)
  BY <1>1, <1>2
<1>4. a.x = x /\ a.y = y /\ a.w = w /\ a.h = h
  BY <1>1
<1>5. DOMAIN parts = {1, 2, 3, 4}
  OBVIOUS
<1>6. /\ parts[1] \in AreaT /\ parts[1].x = x /\ parts[1].y = y /\ parts[1].w = t /\ parts[1].h = u
      /\ parts[2] \in AreaT /\ parts[2].x = p /\ parts[2].y = y /\ parts[2].w = t /\ parts[2].h = u
      /\ parts[3] \in AreaT /\ parts[3].x = x /\ parts[3].y = q /\ parts[3].w = t /\ parts[3].h = u
      /\ parts[4] \in AreaT /\ parts[4].x = p /\ parts[4].y = q /\ parts[4].w = t /\ parts[4].h = u
  <2> DEFINE IsRect(r, l, m) == r \in AreaT /\ r.x = l /\ r.y = m /\ r.w = t /\ r.h = u
  <2>1. \A l, m \in Nat : IsRect(Rect(l, m, t, u), l, m)
    BY DEF Rect, AreaT
  <2>2. /\ IsRect(parts[1], x, y) /\ IsRect(parts[2], p, y)
        /\ IsRect(parts[3], x, q) /\ IsRect(parts[4], p, q)
    <3> HIDE DEF IsRect
    <3> QED
      BY <1>3, <2>1
  <2> QED
    BY <2>2
<1>7. Visible(parts[1]) + Visible(parts[2]) + Visible(parts[3]) + Visible(parts[4]) = Visible(a)
  <2>1. /\ Visible(parts[1]) = VisW(x, t) * VisH(y, u)
        /\ Visible(parts[2]) = VisW(p, t) * VisH(y, u)
        /\ Visible(parts[3]) = VisW(x, t) * VisH(q, u)
        /\ Visible(parts[4]) = VisW(p, t) * VisH(q, u)
        /\ Visible(a) = VisW(x, w) * VisH(y, h)
    <3>1. \A l, m, k, n \in Nat : Visible(Rect(l, m, k, n)) = VisW(l, k) * VisH(m, n)
      BY VisibleRect
    <3>2. Visible(a) = VisW(x, w) * VisH(y, h)
      BY <1>1, <3>1, SMTT(30)
    <3>3. Visible(parts[1]) = VisW(x, t) * VisH(y, u) /\ Visible(parts[2]) = VisW(p, t) * VisH(y, u)
      BY <1>3, <3>1, SMTT(30)
    <3>4. Visible(parts[3]) = VisW(x, t) * VisH(q, u) /\ Visible(parts[4]) = VisW(p, t) * VisH(q, u)
      BY <1>3, <3>1, SMTT(30)
    <3> QED
      BY <3>2, <3>3, <3>4
  <2>2. VisW(x, t) \in Nat /\ VisW(p, t) \in Nat /\ VisH(y, u) \in Nat /\ VisH(q, u) \in Nat
    BY VisNat
  <2>3. VisW(x, w) = VisW(x, t) + VisW(p, t)
    BY <1>2, <1>3, SMTT(30) DEF VisW, MinOf
  <2>4. VisH(y, h) = VisH(y, u) + VisH(q, u)
    BY <1>2, <1>3, SMTT(30) DEF VisH, MinOf
  <2>5. (VisW(x, t) + VisW(p, t)) * (VisH(y, u) + VisH(q, u))
          = VisW(x, t) * VisH(y, u) + VisW(p, t) * VisH(y, u)
            + VisW(x, t) * VisH(q, u) + VisW(p, t) * VisH(q, u)
    <3> DEFINE A == VisW(x, t) * VisH(y, u)
               B == VisW(p, t) * VisH(y, u)
               D == VisW(x, t) * VisH(q, u)
               E == VisW(p, t) * VisH(q, u)
    <3>1. (VisW(x, t) + VisW(p, t)) * (VisH(y, u) + VisH(q, u))
            = VisW(x, t) * (VisH(y, u) + VisH(q, u)) + VisW(p, t) * (VisH(y, u) + VisH(q, u))
      BY <2>2, Distribute, SMTT(30)
    <3>2. /\ VisW(x, t) * (VisH(y, u) + VisH(q, u)) = A + D
          /\ VisW(p, t) * (VisH(y, u) + VisH(q, u)) = B + E
      BY <2>2, Distribute, SMTT(30)
    <3>3. A \in Nat /\ B \in Nat /\ D \in Nat /\ E \in Nat
      BY <2>2, TimesNat
    <3> HIDE DEF A, B, D, E
    <3>4. (A + D) + (B + E) = A + B + D + E
      BY ONLY <3>3
    <3>5. (VisW(x, t) + VisW(p, t)) * (VisH(y, u) + VisH(q, u)) = A + B + D + E
      BY <3>1, <3>2, <3>4, Zenon
    <3> QED
      BY <3>5, Zenon DEF A, B, D, E
  <2> QED
    BY <2>1, <2>3, <2>4, <2>5, Zenon
<1>8. /\ Visible(parts[1]) \in Nat /\ Visible(parts[2]) \in Nat
      /\ Visible(parts[3]) \in Nat /\ Visible(parts[4]) \in Nat
  BY <1>6, AreaVisible
<1>9. Pos(parts[1]) = Pos(a) /\ PartsApart(parts, a)
  <2>1. w = t + t /\ h = u + u
    BY <1>1
  <2>2. /\ x >= x /\ y >= y /\ x + t <= x + w /\ p >= x /\ p + t <= x + w /\ x + t <= p
        /\ y + u <= y + h /\ q >= y /\ q + u <= y + h /\ y + u <= q
    BY <1>2, <2>1
  <2>3. Within(parts[1], a) /\ Within(parts[2], a) /\ Within(parts[3], a) /\ Within(parts[4], a)
    BY ONLY <1>4, <1>6, <2>2 DEF Within
  <2>4. /\ Disjoint(parts[1], parts[2]) /\ Disjoint(parts[2], parts[1])
        /\ Disjoint(parts[1], parts[3]) /\ Disjoint(parts[3], parts[1])
        /\ Disjoint(parts[1], parts[4]) /\ Disjoint(parts[4], parts[1])
        /\ Disjoint(parts[2], parts[4]) /\ Disjoint(parts[4], parts[2])
        /\ Disjoint(parts[3], parts[4]) /\ Disjoint(parts[4], parts[3])
    BY ONLY <1>6, <2>2 DEF Disjoint
  <2>5. Disjoint(parts[2], parts[3]) /\ Disjoint(parts[3], parts[2])
    BY ONLY <1>6, <2>2 DEF Disjoint
  <2>6. Pos(parts[1]) = Pos(a)
    BY <1>4, <1>6 DEF Pos
  <2> QED
    BY <1>5, <2>3, <2>4, <2>5, <2>6 DEF PartsApart
<1>10. VisibleOf(parts, 4) = Visible(a)
  BY <1>7, <1>8 DEF VisibleOf
<1> QED
  BY <1>9, <1>10 DEF Tiles

----------------------------------------------------------------------------
(* The parts of a split.                                                   *)

TwoAcross(parts, a, u) ==
  /\ parts \in Seq(AreaT) /\ Len(parts) = 2 /\ u \in Nat /\ u <= a.w
  /\ parts[1] = Rect(a.x, a.y, u, a.h) /\ parts[2] = Rect(a.x + u, a.y, a.w - u, a.h)
TwoDown(parts, a, u) ==
  /\ parts \in Seq(AreaT) /\ Len(parts) = 2 /\ u \in Nat /\ u <= a.h
  /\ parts[1] = Rect(a.x, a.y, a.w, u) /\ parts[2] = Rect(a.x, a.y + u, a.w, a.h - u)
ThreeAcross(parts, a) ==
  LET q == Quarter(a.w)
  IN /\ parts \in Seq(AreaT) /\ Len(parts) = 3
     /\ parts[1] = Rect(a.x, a.y, q, a.h) /\ parts[2] = Rect(a.x + q, a.y, 2 * q, a.h)
     /\ parts[3] = Rect(a.x + 3 * q, a.y, q, a.h)
ThreeDown(parts, a) ==
  LET q == Quarter(a.h)
  IN /\ parts \in Seq(AreaT) /\ Len(parts) = 3
     /\ parts[1] = Rect(a.x, a.y, a.w, q) /\ parts[2] = Rect(a.x, a.y + q, a.w, 2 * q)
     /\ parts[3] = Rect(a.x, a.y + 3 * q, a.w, q)
FourSquare(parts, a) ==
  LET w == 2 * Quarter(a.w)
      h == 2 * Quarter(a.h)
  IN /\ parts \in Seq(AreaT) /\ Len(parts) = 4
     /\ parts[1] = Rect(a.x, a.y, w, h) /\ parts[2] = Rect(a.x + w, a.y, w, h)
     /\ parts[3] = Rect(a.x, a.y + h, w, h) /\ parts[4] = Rect(a.x + w, a.y + h, w, h)

(* Nothing is added by the first column or row.                            *)
LEMMA Zeros ==
  ASSUME NEW m \in Nat, NEW n \in Nat
  PROVE  m + n * 0 = m /\ m + n * 1 = m + n /\ m + 0 = m
  OBVIOUS

(* The quadrants of an area.                                               *)
LEMMA Quadrants ==
  ASSUME NEW a \in AreaT, a.w \in Sizes, a.h \in Sizes
  PROVE  FourSquare(QuadParts(a), a)
<1> DEFINE w == a.w \div 2  h == a.h \div 2
<1>1. /\ w = 2 * Quarter(a.w) /\ h = 2 * Quarter(a.h) /\ w \in Nat /\ h \in Nat
      /\ a.x \in Nat /\ a.y \in Nat
  BY Quarters, AreaRect
<1>2. QuadParts(a) = [i \in 1 .. 4 |-> Rect(a.x + w * ((i - 1) % 2), a.y + h * ((i - 1) \div 2), w, h)]
  BY DEF QuadParts
<1> HIDE DEF w, h
<1>3. /\ QuadParts(a)[1] = Rect(a.x + w * 0, a.y + h * 0, w, h)
      /\ QuadParts(a)[2] = Rect(a.x + w * 1, a.y + h * 0, w, h)
      /\ QuadParts(a)[3] = Rect(a.x + w * 0, a.y + h * 1, w, h)
      /\ QuadParts(a)[4] = Rect(a.x + w * 1, a.y + h * 1, w, h)
  <2>1. /\ (1 - 1) % 2 = 0 /\ (1 - 1) \div 2 = 0 /\ (2 - 1) % 2 = 1 /\ (2 - 1) \div 2 = 0
        /\ (3 - 1) % 2 = 0 /\ (3 - 1) \div 2 = 1 /\ (4 - 1) % 2 = 1 /\ (4 - 1) \div 2 = 1
    OBVIOUS
  <2>2. 1 \in 1 .. 4 /\ 2 \in 1 .. 4 /\ 3 \in 1 .. 4 /\ 4 \in 1 .. 4
    OBVIOUS
  <2> QED
    BY <1>2, <2>1, <2>2
<1>4. a.x + w * 0 = a.x /\ a.x + w * 1 = a.x + w /\ a.y + h * 0 = a.y /\ a.y + h * 1 = a.y + h
  BY <1>1, Zeros
<1> QED
  BY <1>1, <1>3, <1>4, QuadAreas DEF FourSquare

(* Two columns cut at a quarter.                                           *)
LEMMA CutAcross ==
  ASSUME NEW a \in AreaT, a.w \in Sizes, NEW k \in Nat, NEW l \in Nat,
         <<k, l>> \in {<<1, 3>>, <<2, 2>>, <<3, 1>>}
  PROVE  TwoAcross(Across(a, <<0, k>>, <<k, l>>), a, k * Quarter(a.w))
<1> DEFINE parts == Across(a, <<0, k>>, <<k, l>>)
<1>1. parts \in Seq(AreaT) /\ Len(parts) = 2
  BY TwoParts
<1>2. /\ parts[1] = Rect(a.x + InFour(a.w, 0), a.y, InFour(a.w, k), a.h)
      /\ parts[2] = Rect(a.x + InFour(a.w, k), a.y, InFour(a.w, l), a.h)
  BY DEF Across
<1> HIDE DEF parts
<1>3. (k = 1 /\ l = 3) \/ (k = 2 /\ l = 2) \/ (k = 3 /\ l = 1)
  OBVIOUS
<1>4. /\ InFour(a.w, 0) = 0 /\ InFour(a.w, k) = k * Quarter(a.w) /\ InFour(a.w, l) = a.w - k * Quarter(a.w)
      /\ k * Quarter(a.w) \in Nat /\ k * Quarter(a.w) <= a.w
  BY <1>3, Quarters
<1>5. a.x + 0 = a.x
  BY AreaRect, Zeros
<1> QED
  BY <1>1, <1>2, <1>4, <1>5 DEF TwoAcross, parts

(* Two rows cut at a quarter.                                              *)
LEMMA CutDown ==
  ASSUME NEW a \in AreaT, a.h \in Sizes, NEW k \in Nat, NEW l \in Nat,
         <<k, l>> \in {<<1, 3>>, <<2, 2>>, <<3, 1>>}
  PROVE  TwoDown(Down(a, <<0, k>>, <<k, l>>), a, k * Quarter(a.h))
<1> DEFINE parts == Down(a, <<0, k>>, <<k, l>>)
<1>1. parts \in Seq(AreaT) /\ Len(parts) = 2
  BY TwoParts
<1>2. /\ parts[1] = Rect(a.x, a.y + InFour(a.h, 0), a.w, InFour(a.h, k))
      /\ parts[2] = Rect(a.x, a.y + InFour(a.h, k), a.w, InFour(a.h, l))
  BY DEF Down
<1> HIDE DEF parts
<1>3. (k = 1 /\ l = 3) \/ (k = 2 /\ l = 2) \/ (k = 3 /\ l = 1)
  OBVIOUS
<1>4. /\ InFour(a.h, 0) = 0 /\ InFour(a.h, k) = k * Quarter(a.h) /\ InFour(a.h, l) = a.h - k * Quarter(a.h)
      /\ k * Quarter(a.h) \in Nat /\ k * Quarter(a.h) <= a.h
  BY <1>3, Quarters
<1>5. a.y + 0 = a.y
  BY AreaRect, Zeros
<1> QED
  BY <1>1, <1>2, <1>4, <1>5 DEF TwoDown, parts

(* The ternary splits cut at the first and the third quarter.              *)
LEMMA Ternary ==
  ASSUME NEW a \in AreaT, a.w \in Sizes, a.h \in Sizes
  PROVE  /\ ThreeAcross(Across(a, <<0, 1, 3>>, <<1, 2, 1>>), a)
         /\ ThreeDown(Down(a, <<0, 1, 3>>, <<1, 2, 1>>), a)
<1> DEFINE across == Across(a, <<0, 1, 3>>, <<1, 2, 1>>)
           down == Down(a, <<0, 1, 3>>, <<1, 2, 1>>)
<1>1. /\ across \in Seq(AreaT) /\ Len(across) = 3 /\ down \in Seq(AreaT) /\ Len(down) = 3
  <2>1. /\ <<0, 1, 3>> \in Seq(Nat) /\ Len(<<0, 1, 3>>) = 3
        /\ <<1, 2, 1>> \in Seq(Nat) /\ Len(<<1, 2, 1>>) = 3
    OBVIOUS
  <2> QED
    BY <2>1, AcrossAreas, DownAreas
<1>2. /\ across[1] = Rect(a.x + InFour(a.w, 0), a.y, InFour(a.w, 1), a.h)
      /\ across[2] = Rect(a.x + InFour(a.w, 1), a.y, InFour(a.w, 2), a.h)
      /\ across[3] = Rect(a.x + InFour(a.w, 3), a.y, InFour(a.w, 1), a.h)
  BY DEF Across
<1>3. /\ down[1] = Rect(a.x, a.y + InFour(a.h, 0), a.w, InFour(a.h, 1))
      /\ down[2] = Rect(a.x, a.y + InFour(a.h, 1), a.w, InFour(a.h, 2))
      /\ down[3] = Rect(a.x, a.y + InFour(a.h, 3), a.w, InFour(a.h, 1))
  BY DEF Down
<1> HIDE DEF across, down
<1>4. a.x + 0 = a.x /\ a.y + 0 = a.y
  BY AreaRect, Zeros
<1> QED
  BY <1>1, <1>2, <1>3, <1>4, Quarters DEF ThreeAcross, ThreeDown, across, down

(* How often a side that is at most twice the transform size is divided.   *)
LEMMA HowMany ==
  ASSUME NEW m \in Sizes, NEW size \in {32, 64}, m <= 2 * size,
         NEW k, k = IF m >= size THEN m \div size ELSE 1
  PROVE  \/ k = 1 /\ m <= size /\ m \div k = m
         \/ k = 2 /\ m \div k = 2 * Quarter(m)
<1>1. m = 4 \/ m = 8 \/ m = 16 \/ m = 32 \/ m = 64 \/ m = 128
  BY DEF Sizes
<1>2. size \in Nat /\ (size = 32 \/ size = 64)
  OBVIOUS
<1>3. m \in Nat /\ m \div 1 = m /\ m \div 2 = 2 * Quarter(m)
  BY <1>1, Quarters
<1>4. CASE m < size
  BY <1>3, <1>4, <1>2
<1>5. CASE m = size
  <2>1. m \div size = 1
    <3>1. 32 \div 32 = 1 /\ 64 \div 64 = 1
      OBVIOUS
    <3> QED
      BY <1>5, <3>1
  <2> QED
    BY <1>3, <1>5, <1>2, <2>1
<1>6. CASE m = 2 * size
  <2>1. m \div size = 2
    <3>1. 64 \div 32 = 2 /\ 128 \div 64 = 2
      OBVIOUS
    <3>2. (size = 32 /\ m = 64) \/ (size = 64 /\ m = 128)
      BY <1>6, <1>2
    <3> QED
      BY <3>1, <3>2
  <2> QED
    BY <1>3, <1>6, <2>1
<1>7. m < size \/ m = size \/ m = 2 * size
  BY <1>1, <1>2
<1> QED
  BY <1>4, <1>5, <1>6, <1>7

(* The transform tiling halves an area across, down or both ways.          *)
LEMMA MaxTuForms ==
  ASSUME NEW a \in AreaT, a.w \in Sizes, a.h \in Sizes, cfg.maxTb \in {32, 64},
         a.w > cfg.maxTb \/ a.h > cfg.maxTb
  PROVE  \/ FourSquare(MaxTuParts(a), a)
         \/ TwoAcross(MaxTuParts(a), a, 2 * Quarter(a.w))
         \/ TwoDown(MaxTuParts(a), a, 2 * Quarter(a.h))
<1> DEFINE size == IF a.w > 64 \/ a.h > 64 THEN 64 ELSE cfg.maxTb
           across == IF a.w >= size THEN a.w \div size ELSE 1
           down == IF a.h >= size THEN a.h \div size ELSE 1
           w == a.w \div across
           h == a.h \div down
           parts == MaxTuParts(a)
<1>1. parts = [i \in 1 .. across * down |->
                 Rect(a.x + w * ((i - 1) % across), a.y + h * ((i - 1) \div across), w, h)]
  BY DEF MaxTuParts
<1>2. parts \in Seq(AreaT)
  BY MaxTuAreas
<1>3. /\ (across = 1 /\ w = a.w) \/ (across = 2 /\ w = 2 * Quarter(a.w))
      /\ (down = 1 /\ h = a.h) \/ (down = 2 /\ h = 2 * Quarter(a.h))
      /\ across = 2 \/ down = 2
  <2>1. /\ size \in {32, 64} /\ a.w <= 2 * size /\ a.h <= 2 * size
        /\ a.w > size \/ a.h > size
    BY DEF Sizes
  <2> HIDE DEF size
  <2>2. /\ (across = 1 /\ a.w <= size /\ w = a.w) \/ (across = 2 /\ w = 2 * Quarter(a.w))
        /\ (down = 1 /\ a.h <= size /\ h = a.h) \/ (down = 2 /\ h = 2 * Quarter(a.h))
    BY <2>1, HowMany
  <2> QED
    BY <2>1, <2>2 DEF Sizes
<1> HIDE DEF size, across, down, parts
<1>4. w \in Nat /\ h \in Nat /\ a.x \in Nat /\ a.y \in Nat /\ a.w \in Nat /\ a.h \in Nat
  BY <1>3, AreaRect, Quarters
<1> HIDE DEF w, h
<1>5. /\ a.x + w * 0 = a.x /\ a.x + w * 1 = a.x + w /\ a.y + h * 0 = a.y /\ a.y + h * 1 = a.y + h
  BY <1>4, Zeros
<1>6. /\ (1 - 1) % 2 = 0 /\ (1 - 1) \div 2 = 0 /\ (2 - 1) % 2 = 1 /\ (2 - 1) \div 2 = 0
      /\ (3 - 1) % 2 = 0 /\ (3 - 1) \div 2 = 1 /\ (4 - 1) % 2 = 1 /\ (4 - 1) \div 2 = 1
      /\ (1 - 1) % 1 = 0 /\ (1 - 1) \div 1 = 0 /\ (2 - 1) % 1 = 0 /\ (2 - 1) \div 1 = 1
      /\ 2 * 2 = 4 /\ 1 * 2 = 2 /\ 2 * 1 = 2
  OBVIOUS
<1>7. CASE across = 2 /\ down = 2
  <2>1. parts = [i \in 1 .. 4 |-> Rect(a.x + w * ((i - 1) % 2), a.y + h * ((i - 1) \div 2), w, h)]
    BY <1>1, <1>6, <1>7
  <2>2. 1 \in 1 .. 4 /\ 2 \in 1 .. 4 /\ 3 \in 1 .. 4 /\ 4 \in 1 .. 4 /\ Len(parts) = 4
    BY <2>1
  <2>3. /\ parts[1] = Rect(a.x, a.y, w, h) /\ parts[2] = Rect(a.x + w, a.y, w, h)
        /\ parts[3] = Rect(a.x, a.y + h, w, h) /\ parts[4] = Rect(a.x + w, a.y + h, w, h)
    BY <2>1, <2>2, <1>5, <1>6
  <2> QED
    BY <1>2, <1>3, <1>7, <2>2, <2>3 DEF FourSquare, parts
<1>8. CASE across = 2 /\ down = 1
  <2>1. parts = [i \in 1 .. 2 |-> Rect(a.x + w * ((i - 1) % 2), a.y + h * ((i - 1) \div 2), w, h)]
    BY <1>1, <1>6, <1>8
  <2>2. 1 \in 1 .. 2 /\ 2 \in 1 .. 2 /\ Len(parts) = 2
    BY <2>1
  <2>3. parts[1] = Rect(a.x, a.y, w, h) /\ parts[2] = Rect(a.x + w, a.y, w, h)
    BY <2>1, <2>2, <1>5, <1>6
  <2>4. w = 2 * Quarter(a.w) /\ h = a.h /\ a.w - w = w /\ w <= a.w
    BY <1>3, <1>4, <1>8, Quarters
  <2> QED
    BY <1>2, <1>4, <2>2, <2>3, <2>4 DEF TwoAcross, parts
<1>9. CASE across = 1 /\ down = 2
  <2>1. parts = [i \in 1 .. 2 |-> Rect(a.x + w * ((i - 1) % 1), a.y + h * ((i - 1) \div 1), w, h)]
    BY <1>1, <1>6, <1>9
  <2>2. 1 \in 1 .. 2 /\ 2 \in 1 .. 2 /\ Len(parts) = 2
    BY <2>1
  <2>3. parts[1] = Rect(a.x, a.y, w, h) /\ parts[2] = Rect(a.x, a.y + h, w, h)
    BY <2>1, <2>2, <1>5, <1>6
  <2>4. h = 2 * Quarter(a.h) /\ w = a.w /\ a.h - h = h /\ h <= a.h
    BY <1>3, <1>4, <1>9, Quarters
  <2> QED
    BY <1>2, <1>4, <2>2, <2>3, <2>4 DEF TwoDown, parts
<1> QED
  BY <1>3, <1>7, <1>8, <1>9 DEF parts

\* the ways in which a split cuts an area
CutBy(parts, a, s) ==
  /\ s = Quad => FourSquare(parts, a)
  /\ s \in {Vert, "SBT_VER_HALF"} => TwoAcross(parts, a, 2 * Quarter(a.w))
  /\ s \in {Horz, "SBT_HOR_HALF"} => TwoDown(parts, a, 2 * Quarter(a.h))
  /\ s = TriV => ThreeAcross(parts, a)
  /\ s = TriH => ThreeDown(parts, a)
  /\ s = "SBT_VER_QUAD_POS0" => TwoAcross(parts, a, 1 * Quarter(a.w))
  /\ s = "SBT_VER_QUAD_POS1" => TwoAcross(parts, a, 3 * Quarter(a.w))
  /\ s = "SBT_HOR_QUAD_POS0" => TwoDown(parts, a, 1 * Quarter(a.h))
  /\ s = "SBT_HOR_QUAD_POS1" => TwoDown(parts, a, 3 * Quarter(a.h))
  /\ s = TuMax => \/ FourSquare(parts, a)
                  \/ TwoAcross(parts, a, 2 * Quarter(a.w))
                  \/ TwoDown(parts, a, 2 * Quarter(a.h))

(* Every split cuts the area in its own way.                               *)
LEMMA HowSplit ==
  ASSUME NEW a \in AreaT, a.w \in Sizes, a.h \in Sizes, cfg.maxTb \in {32, 64},
         NEW s \in CuSplits \cup TuSplits, s = TuMax => (a.w > cfg.maxTb \/ a.h > cfg.maxTb)
  PROVE  CutBy(SubPartitions(a, s), a, s)
<1> DEFINE parts == SubPartitions(a, s)
<1>1. /\ <<1, 3>> \in {<<1, 3>>, <<2, 2>>, <<3, 1>>} /\ <<2, 2>> \in {<<1, 3>>, <<2, 2>>, <<3, 1>>}
      /\ <<3, 1>> \in {<<1, 3>>, <<2, 2>>, <<3, 1>>} /\ 1 \in Nat /\ 2 \in Nat /\ 3 \in Nat
  OBVIOUS
<1> USE DEF Quad, Horz, Vert, TriH, TriV, TuMax
<1>2. CASE s = Quad
  <2>1. parts = QuadParts(a)
    BY <1>2 DEF SubPartitions, Tt
  <2> QED
    BY <1>2, <2>1, Quadrants DEF CutBy
<1>3. CASE s \in {Vert, "SBT_VER_HALF"}
  <2>1. parts = Across(a, <<0, 2>>, <<2, 2>>)
    BY <1>3 DEF SubPartitions, Tt
  <2>2. TwoAcross(parts, a, 2 * Quarter(a.w))
    BY <1>1, <2>1, CutAcross
  <2> QED
    BY <1>3, <2>2 DEF CutBy
<1>4. CASE s \in {Horz, "SBT_HOR_HALF"}
  <2>1. parts = Down(a, <<0, 2>>, <<2, 2>>)
    BY <1>4 DEF SubPartitions, Tt
  <2>2. TwoDown(parts, a, 2 * Quarter(a.h))
    BY <1>1, <2>1, CutDown
  <2> QED
    BY <1>4, <2>2 DEF CutBy
<1>5. CASE s = TriV
  <2>1. parts = Across(a, <<0, 1, 3>>, <<1, 2, 1>>)
    BY <1>5 DEF SubPartitions, TriParts, Tt
  <2> QED
    BY <1>5, <2>1, Ternary DEF CutBy
<1>6. CASE s = TriH
  <2>1. parts = Down(a, <<0, 1, 3>>, <<1, 2, 1>>)
    BY <1>6 DEF SubPartitions, TriParts, Tt
  <2> QED
    BY <1>6, <2>1, Ternary DEF CutBy
<1>7. CASE s = "SBT_VER_QUAD_POS0"
  <2>1. parts = Across(a, <<0, 1>>, <<1, 3>>)
    BY <1>7 DEF SubPartitions, Tt
  <2>2. TwoAcross(parts, a, 1 * Quarter(a.w))
    BY <1>1, <2>1, CutAcross
  <2> QED
    BY <1>7, <2>2 DEF CutBy
<1>8. CASE s = "SBT_VER_QUAD_POS1"
  <2>1. parts = Across(a, <<0, 3>>, <<3, 1>>)
    BY <1>8 DEF SubPartitions, Tt
  <2>2. TwoAcross(parts, a, 3 * Quarter(a.w))
    BY <1>1, <2>1, CutAcross
  <2> QED
    BY <1>8, <2>2 DEF CutBy
<1>9. CASE s = "SBT_HOR_QUAD_POS0"
  <2>1. parts = Down(a, <<0, 1>>, <<1, 3>>)
    BY <1>9 DEF SubPartitions, Tt
  <2>2. TwoDown(parts, a, 1 * Quarter(a.h))
    BY <1>1, <2>1, CutDown
  <2> QED
    BY <1>9, <2>2 DEF CutBy
<1>10. CASE s = "SBT_HOR_QUAD_POS1"
  <2>1. parts = Down(a, <<0, 3>>, <<3, 1>>)
    BY <1>10 DEF SubPartitions, Tt
  <2>2. TwoDown(parts, a, 3 * Quarter(a.h))
    BY <1>1, <2>1, CutDown
  <2> QED
    BY <1>10, <2>2 DEF CutBy
<1>11. CASE s = TuMax
  <2>1. parts = MaxTuParts(a)
    BY <1>11 DEF SubPartitions, Tt
  <2> QED
    BY <1>11, <2>1, MaxTuForms DEF CutBy
<1> QED
  BY <1>2, <1>3, <1>4, <1>5, <1>6, <1>7, <1>8, <1>9, <1>10, <1>11
  DEF CuSplits, TuSplits, Mt, Bt, Tt, Sbt, SbtHalf, SbtQuad

(* A cut across or down tiles the area.                                    *)
LEMMA CutTiles ==
  ASSUME cfg.picW \in Nat, cfg.picH \in Nat, NEW a \in AreaT, a.w \in Sizes, a.h \in Sizes, NEW parts
  PROVE  /\ \A u : TwoAcross(parts, a, u) => Tiles(parts, a)
         /\ \A u : TwoDown(parts, a, u) => Tiles(parts, a)
         /\ ThreeAcross(parts, a) => Tiles(parts, a)
         /\ ThreeDown(parts, a) => Tiles(parts, a)
         /\ FourSquare(parts, a) => Tiles(parts, a)
<1>1. a = Rect(a.x, a.y, a.w, a.h)
  BY AreaRect
<1>2. PICK x \in Nat, y \in Nat, w \in Nat, h \in Nat, q \in Nat, r \in Nat :
        /\ x = a.x /\ y = a.y /\ w = a.w /\ h = a.h
        /\ q = Quarter(w) /\ r = Quarter(h) /\ w = 4 * q /\ h = 4 * r
  <2>1. a.x \in Nat /\ a.y \in Nat /\ a.w \in Nat /\ a.h \in Nat
    BY AreaRect
  <2>2. Quarter(a.w) \in Nat /\ Quarter(a.h) \in Nat /\ a.w = 4 * Quarter(a.w) /\ a.h = 4 * Quarter(a.h)
    BY Quarters
  <2> QED
    BY <2>1, <2>2
<1>3. ASSUME NEW u, TwoAcross(parts, a, u) PROVE Tiles(parts, a)
  <2>1. u \in Nat /\ u <= w /\ w - u \in Nat /\ x + u \in Nat /\ w = u + (w - u)
    <3>1. u \in Nat /\ u <= w
      BY <1>2, <1>3 DEF TwoAcross
    <3> QED
      BY <3>1
  <2>2. /\ parts \in Seq(AreaT) /\ Len(parts) = 2
        /\ parts[1] = Rect(x, y, u, h) /\ parts[2] = Rect(x + u, y, w - u, h)
    BY <1>2, <1>3 DEF TwoAcross
  <2>3. PICK v \in Nat, z \in Nat : v = w - u /\ z = x + u
    BY <2>1
  <2>4. Tiles(parts, Rect(x, y, w, h))
    BY <2>1, <2>2, <2>3, TwoColumns
  <2> QED
    BY <1>1, <1>2, <2>4
<1>4. ASSUME NEW u, TwoDown(parts, a, u) PROVE Tiles(parts, a)
  <2>1. u \in Nat /\ u <= h /\ h - u \in Nat /\ y + u \in Nat /\ h = u + (h - u)
    <3>1. u \in Nat /\ u <= h
      BY <1>2, <1>4 DEF TwoDown
    <3> QED
      BY <3>1
  <2>2. /\ parts \in Seq(AreaT) /\ Len(parts) = 2
        /\ parts[1] = Rect(x, y, w, u) /\ parts[2] = Rect(x, y + u, w, h - u)
    BY <1>2, <1>4 DEF TwoDown
  <2>3. PICK v \in Nat, z \in Nat : v = h - u /\ z = y + u
    BY <2>1
  <2>4. Tiles(parts, Rect(x, y, w, h))
    BY <2>1, <2>2, <2>3, TwoRows
  <2> QED
    BY <1>1, <1>2, <2>4
<1>5. ASSUME ThreeAcross(parts, a) PROVE Tiles(parts, a)
  <2>1. /\ parts \in Seq(AreaT) /\ Len(parts) = 3
        /\ parts[1] = Rect(x, y, q, h) /\ parts[2] = Rect(x + q, y, 2 * q, h)
        /\ parts[3] = Rect(x + 3 * q, y, q, h)
    BY <1>2, <1>5 DEF ThreeAcross
  <2>2. PICK u \in Nat, p \in Nat, z \in Nat :
          u = 2 * q /\ p = x + q /\ z = x + 3 * q /\ z = x + q + u /\ w = q + u + q
    BY <1>2, SMTT(30)
  <2>3. Tiles(parts, Rect(x, y, w, h))
    BY <2>1, <2>2, ThreeColumns
  <2> QED
    BY <1>1, <1>2, <2>3
<1>6. ASSUME ThreeDown(parts, a) PROVE Tiles(parts, a)
  <2>1. /\ parts \in Seq(AreaT) /\ Len(parts) = 3
        /\ parts[1] = Rect(x, y, w, r) /\ parts[2] = Rect(x, y + r, w, 2 * r)
        /\ parts[3] = Rect(x, y + 3 * r, w, r)
    BY <1>2, <1>6 DEF ThreeDown
  <2>2. PICK u \in Nat, p \in Nat, z \in Nat :
          u = 2 * r /\ p = y + r /\ z = y + 3 * r /\ z = y + r + u /\ h = r + u + r
    BY <1>2
  <2>3. Tiles(parts, Rect(x, y, w, h))
    BY <2>1, <2>2, ThreeRows
  <2> QED
    BY <1>1, <1>2, <2>3
<1>7. ASSUME FourSquare(parts, a) PROVE Tiles(parts, a)
  <2>1. 2 * q \in Nat /\ 2 * r \in Nat /\ w = 2 * q + 2 * q /\ h = 2 * r + 2 * r
    BY <1>2
  <2>2. PICK t \in Nat, u \in Nat : t = 2 * q /\ u = 2 * r /\ a.w = t + t /\ a.h = u + u
    BY <1>2, <2>1
  <2>3. /\ parts \in Seq(AreaT) /\ Len(parts) = 4
        /\ parts[1] = Rect(a.x, a.y, t, u) /\ parts[2] = Rect(a.x + t, a.y, t, u)
        /\ parts[3] = Rect(a.x, a.y + u, t, u) /\ parts[4] = Rect(a.x + t, a.y + u, t, u)
    BY <1>2, <1>7, <2>2 DEF FourSquare
  <2> QED
    BY <2>2, <2>3, TwoByTwo
<1> QED
  BY <1>3, <1>4, <1>5, <1>6, <1>7

(* The parts of every split tile the area.                                 *)
LEMMA SplitTiles ==
  ASSUME cfg.picW \in Nat, cfg.picH \in Nat, NEW a \in AreaT, a.w \in Sizes, a.h \in Sizes,
         NEW s \in CuSplits \cup TuSplits, NEW parts, CutBy(parts, a, s)
  PROVE  Tiles(parts, a)
  BY CutTiles DEF CutBy, CuSplits, TuSplits, Mt, Bt, Tt, Sbt, SbtHalf, SbtQuad

----------------------------------------------------------------------------
(* What is permitted on an area of a given size.                           *)

\* an area in blocks of 4x4
Blocks(a) == Quarter(a.w) * Quarter(a.h)

(* The products of block sizes are powers of two.                          *)
LEMMA Powers ==
  ASSUME NEW q \in {1, 2, 4, 8, 16, 32}, NEW r \in {1, 2, 4, 8, 16, 32}
  PROVE  q * r \in {1, 2, 4, 8, 16, 32, 64, 128, 256, 512, 1024}
<1>1. r = 1 \/ r = 2 \/ r = 4 \/ r = 8 \/ r = 16 \/ r = 32
  OBVIOUS
<1>2. CASE q = 1 \/ q = 2 \/ q = 4
  BY <1>1, <1>2
<1>3. CASE q = 8 \/ q = 16 \/ q = 32
  BY <1>1, <1>3
<1> QED
  BY <1>2, <1>3

(* The sizes of an area and of its halves and quarters, in blocks.         *)
LEMMA InBlocks ==
  ASSUME NEW a \in AreaT, a.w \in Sizes, a.h \in Sizes
  PROVE  LET q == Quarter(a.w)
             r == Quarter(a.h)
             n == Blocks(a)
         IN /\ q \in {1, 2, 4, 8, 16, 32} /\ r \in {1, 2, 4, 8, 16, 32} /\ a.w = 4 * q /\ a.h = 4 * r
            /\ n \in {1, 2, 4, 8, 16, 32, 64, 128, 256, 512, 1024}
            /\ q >= 2 /\ r >= 2 => n >= 4
            /\ q >= 4 /\ r >= 2 => n >= 8
            /\ q >= 2 /\ r >= 4 => n >= 8
            /\ q >= 4 \/ r >= 4 => n >= 4
            /\ a.w * a.h = 16 * n /\ (a.w \div 2) * (a.h \div 2) = 4 * n
            /\ (2 * q) * a.h = 8 * n /\ a.w * (2 * r) = 8 * n
            /\ q * a.h = 4 * n /\ a.w * r = 4 * n /\ (2 * q) * (2 * r) = 4 * n
<1>1. PICK q \in {1, 2, 4, 8, 16, 32}, r \in {1, 2, 4, 8, 16, 32} :
        /\ q = Quarter(a.w) /\ r = Quarter(a.h) /\ a.w = 4 * q /\ a.h = 4 * r
        /\ a.w \div 2 = 2 * q /\ a.h \div 2 = 2 * r
  BY Quarters
<1>2. q \in Nat /\ r \in Nat
  OBVIOUS
<1>3. q * r \in {1, 2, 4, 8, 16, 32, 64, 128, 256, 512, 1024}
  BY Powers
<1>4. /\ (4 * q) * (4 * r) = 16 * (q * r) /\ (2 * q) * (2 * r) = 4 * (q * r)
      /\ (2 * q) * (4 * r) = 8 * (q * r) /\ (4 * q) * (2 * r) = 8 * (q * r)
      /\ q * (4 * r) = 4 * (q * r) /\ (4 * q) * r = 4 * (q * r)
  BY <1>2
<1>5. /\ q >= 2 /\ r >= 2 => q * r >= 4
      /\ q >= 4 /\ r >= 2 => q * r >= 8
      /\ q >= 2 /\ r >= 4 => q * r >= 8
      /\ q >= 4 \/ r >= 4 => q * r >= 4
  <2>1. q = 1 \/ q = 2 \/ q = 4 \/ q = 8 \/ q = 16 \/ q = 32
    OBVIOUS
  <2> QED
    BY <1>2, <2>1
<1> QED
  BY <1>1, <1>3, <1>4, <1>5 DEF Blocks

(* In the picture's grid of eight, an area that reaches over the boundary  *)
(* where it is aligned to its size is larger than eight there.             *)
LEMMA OverTheEdge ==
  ASSUME NEW x \in Nat, NEW p \in Nat, x % 8 = 0, p % 8 = 0, x < p
  PROVE  x + 8 <= p
  OBVIOUS

(* A side of at least eight starts in that grid where it is aligned.       *)
LEMMA OnTheGrid ==
  ASSUME NEW m \in Sizes, m >= 8, NEW x \in Nat, x % m = 0
  PROVE  x % 8 = 0 /\ (m >= 16 => x % (m \div 2) = 0 /\ (x + m \div 2) % (m \div 2) = 0)
<1>1. m = 8 \/ m = 16 \/ m = 32 \/ m = 64 \/ m = 128
  BY DEF Sizes
<1>2. CASE m = 8
  BY <1>2
<1>3. CASE m = 16
  <2>1. x % 16 = 0
    BY <1>3
  <2>2. 16 \div 2 = 8 /\ x % 8 = 0 /\ (x + 8) % 8 = 0
    BY <2>1
  <2> QED
    BY <1>3, <2>2
<1>4. CASE m = 32
  <2>1. x % 32 = 0
    BY <1>4
  <2>2. 32 \div 2 = 16 /\ x % 8 = 0 /\ x % 16 = 0 /\ (x + 16) % 16 = 0
    BY <2>1
  <2> QED
    BY <1>4, <2>2
<1>5. CASE m = 64
  <2>1. x % 64 = 0
    BY <1>5
  <2>2. 64 \div 2 = 32 /\ x % 8 = 0 /\ x % 32 = 0 /\ (x + 32) % 32 = 0
    BY <2>1
  <2> QED
    BY <1>5, <2>2
<1>6. CASE m = 128
  <2>1. x % 128 = 0
    BY <1>6
  <2>2. 128 \div 2 = 64 /\ x % 8 = 0 /\ x % 64 = 0 /\ (x + 64) % 64 = 0
    BY <2>1
  <2> QED
    BY <1>6, <2>2
<1> QED
  BY <1>1, <1>2, <1>3, <1>4, <1>5, <1>6

(* An area on the boundary is larger than eight where it crosses it.       *)
LEMMA EdgeSizes ==
  ASSUME Legal(cfg), NEW a \in AreaT, a.w \in Sizes, a.h \in Sizes, NEW c, Straddles(a), EdgeOk(a, c)
  PROVE  /\ a.w >= 8 /\ a.h >= 8
         /\ a.x + a.w > cfg.picW => a.w >= 16
         /\ a.y + a.h > cfg.picH => a.h >= 16
         /\ a.x + a.w > cfg.picW \/ a.y + a.h > cfg.picH
<1>1. /\ a.x \in Nat /\ a.y \in Nat /\ cfg.picW \in Nat /\ cfg.picH \in Nat
      /\ cfg.picW % 8 = 0 /\ cfg.picH % 8 = 0
  BY AreaRect DEF Legal
<1>2. a.w >= 8 /\ a.h >= 8 /\ a.x % 8 = 0 /\ a.y % 8 = 0
  BY <1>1, OnTheGrid DEF EdgeOk
<1>3. a.x + 8 <= cfg.picW /\ a.y + 8 <= cfg.picH
  BY <1>1, <1>2, OverTheEdge DEF Straddles, InPicture
<1>4. /\ a.w = 8 \/ a.w >= 16
      /\ a.h = 8 \/ a.h >= 16
  BY <1>2 DEF Sizes
<1>5. a.x + a.w > cfg.picW \/ a.y + a.h > cfg.picH
  <2>1. a.x + a.w \in Nat /\ a.y + a.h \in Nat
    BY <1>1 DEF Sizes
  <2> QED
    BY <1>1, <2>1 DEF Straddles, InsidePicture
<1> QED
  BY <1>1, <1>2, <1>3, <1>4, <1>5

(* What the prescribed split says of an area that starts in the picture.   *)
LEMMA Prescribed ==
  ASSUME Legal(cfg), NEW a \in AreaT, a.w \in Sizes, a.h \in Sizes, InPicture(a.x, a.y),
         NEW c \in Counters, NEW p, p = PrescribedSplit(a, c)
  PROVE  /\ p \in {NoSplit, Quad, Horz, Vert}
         /\ p = NoSplit => InsidePicture(a) /\ (cfg.dualITree => a.w <= 64 /\ a.h <= 64)
         /\ p # NoSplit => Straddles(a) \/ (cfg.dualITree /\ (a.w > 64 \/ a.h > 64))
         /\ p \in Bt => /\ Straddles(a) /\ (cfg.dualITree => a.w <= 64 /\ a.h <= 64)
                        /\ a.w <= cfg.maxBt /\ a.h <= cfg.maxBt
                        /\ c.mt < cfg.maxBtDepth + c.implicitBt
         /\ p = Horz => a.w <= 64 /\ a.y + a.h > cfg.picH
         /\ p = Vert => a.h <= 64 /\ a.x + a.w > cfg.picW
         /\ p = Quad => \/ cfg.dualITree /\ (a.w > 64 \/ a.h > 64)
                        \/ Straddles(a) /\ c.bt = 0
                        \/ Straddles(a) /\ ~(/\ a.w <= cfg.maxBt /\ a.h <= cfg.maxBt
                                             /\ a.w <= 64 /\ a.h <= 64
                                             /\ c.mt < cfg.maxBtDepth + c.implicitBt)
<1> DEFINE blIn == InPicture(a.x, a.y + a.h - 1)
           trIn == InPicture(a.x + a.w - 1, a.y)
           bt == /\ a.w <= cfg.maxBt /\ a.h <= cfg.maxBt
                 /\ c.mt < cfg.maxBtDepth + c.implicitBt
           qt == a.w > cfg.minQt /\ a.h > cfg.minQt /\ c.bt = 0
           wide == cfg.dualITree /\ (a.w > 64 \/ a.h > 64)
<1>1. p = IF wide THEN Quad
          ELSE IF blIn /\ trIn THEN NoSplit
          ELSE IF ~blIn /\ ~trIn /\ qt THEN Quad
          ELSE IF ~blIn /\ bt /\ a.w <= 64 THEN Horz
          ELSE IF ~trIn /\ bt /\ a.h <= 64 THEN Vert
          ELSE Quad
  BY DEF PrescribedSplit, MAX_TB_SIZEY
<1>2. /\ a.x \in Nat /\ a.y \in Nat /\ a.w \in Nat /\ a.h \in Nat
      /\ cfg.picW \in Nat /\ cfg.picH \in Nat
  BY AreaRect DEF Legal
<1>3. /\ blIn <=> a.y + a.h <= cfg.picH
      /\ trIn <=> a.x + a.w <= cfg.picW
  BY <1>2 DEF InPicture
<1>4. /\ blIn /\ trIn <=> InsidePicture(a)
      /\ ~(blIn /\ trIn) <=> Straddles(a)
      /\ ~blIn => a.y + a.h > cfg.picH
      /\ ~trIn => a.x + a.w > cfg.picW
  <2>1. a.y + a.h \in Nat /\ a.x + a.w \in Nat
    BY <1>2
  <2> QED
    BY <1>2, <1>3, <2>1 DEF InsidePicture, Straddles
<1>5. wide <=> ~(cfg.dualITree => a.w <= 64 /\ a.h <= 64)
  BY <1>2
<1> HIDE DEF blIn, trIn
<1>6. NoSplit # Quad /\ NoSplit # Horz /\ NoSplit # Vert /\ Quad # Horz /\ Quad # Vert /\ Horz # Vert
  BY DEF NoSplit, Quad, Horz, Vert
<1>7. CASE p = NoSplit
  BY <1>1, <1>4, <1>5, <1>6, <1>7 DEF Bt
<1>8. CASE p = Horz
  BY <1>1, <1>4, <1>5, <1>6, <1>8 DEF Bt
<1>9. CASE p = Vert
  BY <1>1, <1>4, <1>5, <1>6, <1>9 DEF Bt
<1>10. CASE p = Quad
  <2>1. wide \/ (Straddles(a) /\ c.bt = 0) \/ (Straddles(a) /\ ~(bt /\ a.w <= 64 /\ a.h <= 64))
    BY <1>1, <1>4, <1>6, <1>10
  <2> QED
    BY <1>6, <1>10, <2>1 DEF Bt
<1> QED
  BY <1>1, <1>7, <1>8, <1>9, <1>10

(* What the invariants say of the current area, while it is coded.         *)
LEMMA AtArea ==
  ASSUME IInv, CacheInv, TreeInv, GeoInv, at \in {"cu", "tu"}
  PROVE  /\ Legal(cfg) /\ Area \in AreaT /\ InPicture(Area.x, Area.y) /\ curr \in Counters
         /\ ImplicitSplit = PrescribedSplit(Area, curr)
         /\ AreaOk(Area, Top(stack).split, curr, modeType)
         /\ Top(stack).split \in {"CTU_LEVEL"} \cup CuSplits \cup TuSplits
         /\ Top(stack).split \in {"CTU_LEVEL", Quad} => curr.mt = 0 /\ curr.bt = 0
         /\ Top(stack).split \in Mt => curr.mt > 0 /\ curr.bt > 0
         /\ TreeOk(chType, treeType, modeType) /\ modeType \in ModeT /\ chType \in ChT
<1>1. PICK n \in Nat : /\ n = Len(stack) /\ n >= 1 /\ Top(stack) = stack[n] /\ stack[n] \in Level
                       /\ LevelInv(n) /\ C(n) = curr /\ curr \in Counters
                       /\ Area \in AreaT /\ ~Past(Top(stack))
  BY Here
<1>2. Len(frames) = n - 1 /\ ModeOf(n) = modeType /\ at # "past"
  BY <1>1 DEF IInv, TypeInv, ModeOf
<1>3. GeoAt(n) /\ CachedAt(n) /\ Area = AreaOf(stack[n])
  BY <1>1 DEF GeoInv, CacheInv, Area
<1>4. stack[n].idx + 1 \in 1 .. Len(stack[n].parts)
  BY <1>1 DEF Past, Level
<1>5. AreaOk(Area, Top(stack).split, curr, modeType)
  BY <1>1, <1>2, <1>3, <1>4 DEF GeoAt, AreaOf
<1>6. InPicture(Area.x, Area.y) /\ (Top(stack).split \in {"CTU_LEVEL", Quad} => curr.mt = 0 /\ curr.bt = 0)
  BY <1>1, <1>3 DEF GeoAt
<1>7. Top(stack).split \in {"CTU_LEVEL"} \cup CuSplits \cup TuSplits
  BY <1>1 DEF LevelInv, PlaceAt
<1>8. ASSUME stack[n].split \in Mt PROVE curr.mt > 0 /\ curr.bt > 0
  <2>1. n > 1
    BY <1>1, <1>8, Kinds DEF LevelInv, PlaceAt, CuSplits
  <2>2. Inside(curr, C(n - 1), stack[n], IsImplicit(stack[n - 1]))
    BY <1>1, <2>1 DEF LevelInv, CountAt
  <2>3. C(n - 1) \in Counters
    <3>1. n - 1 \in 1 .. Len(frames) /\ n - 1 # Len(stack)
      BY <1>1, <1>2, <2>1
    <3>2. frames[n - 1] \in FrameT
      BY <3>1 DEF IInv, TypeInv
    <3> QED
      BY <3>1, <3>2 DEF C, FrameT
  <2>4. /\ curr.mt = C(n - 1).mt + 1 /\ C(n - 1).mt \in Nat /\ C(n - 1).bt \in Nat
        /\ curr.bt = C(n - 1).bt + BtDepths(stack[n].split, stack[n].idx)
    BY <1>8, <2>2, <2>3 DEF Inside, One, Counters
  <2>5. BtDepths(stack[n].split, stack[n].idx) \in {1, 2}
    BY <1>8 DEF BtDepths
  <2> QED
    BY <2>4, <2>5
<1>9. ImplicitSplit = PrescribedSplit(Area, curr)
  BY <1>1, <1>3 DEF ImplicitSplit, ComputeImplicitSplit, CachedAt
<1>10. TreeOk(chType, treeType, modeType)
  BY <1>2 DEF TreeInv
<1> QED
  BY <1>1, <1>5, <1>6, <1>7, <1>8, <1>9, <1>10, LegalCfg DEF IInv, TypeInv

\* an area that split s cuts into parts a CU of mode type m can have
FitFor(a, s, m) ==
  /\ s = Quad => a.w = a.h /\ a.w >= 16
  /\ s = Horz => a.h >= 8 /\ (a.w = 128 => a.h = 128)
  /\ s = Vert => a.w >= 8 /\ (a.h = 128 => a.w = 128)
  /\ s = TriH => a.h >= 16
  /\ s = TriV => a.w >= 16
  /\ s \in Tt => a.w <= 64 /\ a.h <= 64
  /\ s \in Mt /\ cfg.dualITree => a.w <= 64 /\ a.h <= 64
  /\ NeedsChroma(m) => /\ a.w >= 8 /\ (s = Vert => a.w >= 16) /\ (s = TriV => a.w >= 32)
                       /\ s \in Bt => Blocks(a) >= 8
                       /\ s \in Tt => Blocks(a) >= 16
  /\ ~cfg.dualITree /\ m = "INTER" => /\ s \in Bt => Blocks(a) >= 4
                                      /\ s \in Tt => Blocks(a) >= 8

(* The splits by name.                                                     *)
LEMMA Names ==
  /\ \A s \in CuSplits : s = Quad \/ s = Horz \/ s = Vert \/ s = TriH \/ s = TriV
  /\ Quad \notin Mt /\ Quad \notin Bt /\ Quad \notin Tt
  /\ Horz \in Bt /\ Vert \in Bt /\ TriH \in Tt /\ TriV \in Tt
  /\ Horz \in Mt /\ Vert \in Mt /\ TriH \in Mt /\ TriV \in Mt
  /\ Horz \notin Tt /\ Vert \notin Tt /\ TriH \notin Bt /\ TriV \notin Bt
  /\ Quad # Horz /\ Quad # Vert /\ Quad # TriH /\ Quad # TriV /\ Horz # Vert /\ Horz # TriH
  /\ Horz # TriV /\ Vert # TriH /\ Vert # TriV /\ TriH # TriV
  /\ NoSplit \notin CuSplits /\ NoSplit \notin TuSplits
  /\ \A s \in TuSplits : s \notin Mt /\ s # Quad
  BY DEF CuSplits, TuSplits, Mt, Bt, Tt, Sbt, SbtHalf, SbtQuad, Quad, Horz, Vert, TriH, TriV,
     TuMax, NoSplit

(* The mode types signalModeCons leaves to the parts: chroma comes with    *)
(* them only if it is large enough, and inter blocks are never 4x4.        *)
LEMMA ModesOfParts ==
  ASSUME IInv, Area \in AreaT, Area.w \in Sizes, Area.h \in Sizes, TreeOk(chType, treeType, modeType),
         NEW s \in Mt, NEW m \in ChildModes(s), ~cfg.dualITree
  PROVE  /\ m = "ALL" => /\ modeType = "ALL"
                         /\ s \in Bt => Blocks(Area) >= 8
                         /\ s \in Tt => Blocks(Area) >= 16
                         /\ s = Vert => Area.w # 8
                         /\ s = TriV => Area.w # 16
         /\ m = "INTER" => \/ modeType = "INTER"
                           \/ (s \in Bt => Blocks(Area) >= 4) /\ (s \in Tt => Blocks(Area) >= 8)
<1> DEFINE n == Blocks(Area)
           least == (Area.w * Area.h) \div IF s \in Bt THEN 2 ELSE 4
<1>1. n \in {1, 2, 4, 8, 16, 32, 64, 128, 256, 512, 1024} /\ Area.w * Area.h = 16 * n
  BY InBlocks
<1> HIDE DEF n
<1>2. n \in Nat
  BY <1>1
<1>3. /\ s \in Bt => least = 8 * n
      /\ s \notin Bt => least = 4 * n
  <2>1. (16 * n) \div 2 = 8 * n /\ (16 * n) \div 4 = 4 * n
    BY <1>2
  <2> QED
    BY <1>1, <2>1
<1>4. /\ s \in Bt => least \div 4 = 2 * n
      /\ s \notin Bt => least \div 4 = n
  <2>1. (8 * n) \div 4 = 2 * n /\ (4 * n) \div 4 = n
    BY <1>2
  <2> QED
    BY <1>3, <2>1
<1>5. s \in Tt <=> s \notin Bt
  BY DEF Mt, Bt, Tt, Horz, Vert, TriH, TriV
<1>6. Area.w = 8 => ChromaW = 4
  BY DEF ChromaW
<1>7. Area.w = 16 => ChromaW = 8
  BY DEF ChromaW
<1>8. modeType \in ModeT
  BY DEF IInv, TypeInv
<1>9. m \in IF ModeConsInherits(s) THEN {modeType}
            ELSE IF least < 32 \/ cfg.intra THEN {"INTRA"} ELSE {"INTER", "INTRA"}
  BY DEF ChildModes
<1>10. ModeConsInherits(s) <=>
         \/ modeType # "ALL"
         \/ /\ least \div 4 >= 16
            /\ ~((ChromaW = 4 /\ s = Vert) \/ (ChromaW = 8 /\ s = TriV))
  BY DEF ModeConsInherits
<1> HIDE DEF least
<1>11. ASSUME m = "ALL"
       PROVE  /\ modeType = "ALL"
              /\ s \in Bt => n >= 8
              /\ s \in Tt => n >= 16
              /\ s = Vert => Area.w # 8
              /\ s = TriV => Area.w # 16
  <2>1. modeType = "ALL" /\ ModeConsInherits(s)
    BY <1>8, <1>9, <1>11
  <2> QED
    BY <1>2, <1>4, <1>5, <1>6, <1>7, <1>10, <2>1
<1>12. ASSUME m = "INTER", modeType # "INTER"
       PROVE  (s \in Bt => n >= 4) /\ (s \in Tt => n >= 8)
  <2>1. ~(least < 32)
    BY <1>8, <1>9, <1>12
  <2> QED
    BY <1>2, <1>3, <1>5, <2>1
<1> QED
  BY <1>11, <1>12 DEF n

(* A quad split that is permitted is of a square of sixteen at least,      *)
(* never below a binary or ternary split.                                  *)
LEMMA QuadPermitted ==
  ASSUME IInv, CacheInv, TreeInv, GeoInv, at = "cu", Quad \in Permitted
  PROVE  /\ curr.mt = 0 /\ curr.bt = 0
         /\ Area.w = Area.h /\ Area.w >= 16
<1>1. /\ Legal(cfg) /\ Area \in AreaT /\ InPicture(Area.x, Area.y) /\ curr \in Counters
      /\ ImplicitSplit = PrescribedSplit(Area, curr)
      /\ AreaOk(Area, Top(stack).split, curr, modeType)
      /\ Top(stack).split \in {"CTU_LEVEL", Quad} => curr.mt = 0 /\ curr.bt = 0
      /\ Top(stack).split \in Mt => curr.mt > 0 /\ curr.bt > 0
      /\ treeType # "TREE_C"
  BY AtArea DEF TreeOk
<1>2. Top(stack).split \in {"CTU_LEVEL", Quad} \cup Mt
  BY AtArea DEF IInv, TopInv, CuSplits
<1>3. /\ SizeOk(Area, Top(stack).split, modeType)
      /\ Straddles(Area) => EdgeOk(Area, curr)
  BY <1>1, <1>2, Kinds, Names DEF AreaOk, CuArea, TuSplits, Sbt, SbtHalf, SbtQuad, TuMax, Quad
<1>4. /\ Area.w \in Sizes /\ Area.h \in Sizes
      /\ Top(stack).split \in {"CTU_LEVEL", Quad} => Area.w = Area.h
      /\ Top(stack).split \in Mt /\ cfg.dualITree => Area.w <= 64 /\ Area.h <= 64
  BY <1>3 DEF SizeOk
<1>5. \/ CanQt
      \/ ImplicitSplit = Quad
      \/ ImplicitSplit = Vert /\ IsChroma /\ ChromaW = 4
  <2>1. ASSUME ImplicitSplit = NoSplit PROVE CanQt
    <3>1. Quad \in {NoSplit} \cup QtIfAllowed
                   \cup {s \in Bt : CanBtt /\ CanBt(s)} \cup {s \in Tt : CanBtt /\ CanTt(s)}
      BY <1>1, <2>1 DEF Permitted
    <3>2. Quad # NoSplit
      BY DEF Quad, NoSplit
    <3> QED
      BY <3>1, <3>2, Names DEF QtIfAllowed
  <2>2. ASSUME ImplicitSplit # NoSplit PROVE Quad \in UnderImplicit
    BY <1>1, <2>2 DEF Permitted
  <2>3. ASSUME ImplicitSplit # NoSplit, ~CanQt
        PROVE  ImplicitSplit = Quad \/ (ImplicitSplit = Vert /\ IsChroma /\ ChromaW = 4)
    <3> DEFINE dir == {s \in Bt : s = ImplicitSplit /\ ~(s = Vert /\ IsChroma /\ ChromaW = 4)}
    <3>1. Quad \notin dir
      BY Names
    <3>2. dir = {}
      BY <2>2, <2>3, <3>1 DEF UnderImplicit, QtIfAllowed
    <3>3. ImplicitSplit \in {NoSplit, Quad, Horz, Vert}
      BY <1>1, <1>4, Prescribed
    <3>4. ImplicitSplit # Horz
      BY <3>2, Names
    <3>5. ImplicitSplit = Vert => IsChroma /\ ChromaW = 4
      BY <3>2, Names
    <3> QED
      BY <2>3, <3>3, <3>4, <3>5
  <2> QED
    BY <2>1, <2>3
<1>6. ASSUME CanQt PROVE Top(stack).split \in {"CTU_LEVEL", Quad} /\ Area.w >= 16
  <2>1. Area.w > cfg.minQt /\ cfg.minQt \in {8, 16, 32, 64}
    BY <1>1, <1>6 DEF CanQt, Legal
  <2> QED
    BY <1>4, <1>6, <2>1 DEF CanQt, Sizes
<1>7. ~(ImplicitSplit = Vert /\ ChromaW = 4)
  <2>1. ASSUME ImplicitSplit = Vert PROVE Area.w >= 16
    <3>1. Straddles(Area) /\ Area.x + Area.w > cfg.picW
      BY <1>1, <1>4, <2>1, Prescribed, Names
    <3> QED
      BY <1>1, <1>3, <1>4, <3>1, EdgeSizes
  <2>2. Area.w \in Nat /\ (Area.w >= 16 => Area.w \div 2 >= 8)
    BY <1>4 DEF Sizes
  <2> QED
    BY <2>1, <2>2 DEF ChromaW
<1>8. ASSUME ImplicitSplit = Quad, Top(stack).split \in Mt PROVE FALSE
  <2>1. /\ curr.mt > 0 /\ curr.bt > 0 /\ curr.mt \in Nat /\ curr.bt \in Nat /\ curr.implicitBt \in Nat
        /\ ~(cfg.dualITree /\ (Area.w > 64 \/ Area.h > 64))
    BY <1>1, <1>4, <1>8 DEF Counters, Sizes
  <2>2. /\ Straddles(Area)
        /\ ~(/\ Area.w <= cfg.maxBt /\ Area.h <= cfg.maxBt
             /\ Area.w <= 64 /\ Area.h <= 64
             /\ curr.mt < cfg.maxBtDepth + curr.implicitBt)
    <3>1. PrescribedSplit(Area, curr) = Quad /\ curr.bt # 0
      BY <1>1, <1>8, <2>1
    <3> QED
      BY <1>1, <1>4, <2>1, <3>1, Prescribed
  <2>3. EdgeOk(Area, curr)
    BY <1>3, <2>2
  <2>4. cfg.maxBtDepth \in Int
    BY <1>1 DEF Legal
  <2> QED
    BY <2>1, <2>2, <2>3, <2>4 DEF EdgeOk
<1>9. ASSUME ImplicitSplit = Quad, Top(stack).split \in {"CTU_LEVEL", Quad} PROVE Area.w >= 16
  <2>1. CASE Straddles(Area)
    BY <1>1, <1>3, <1>4, <1>9, <2>1, EdgeSizes
  <2>2. CASE cfg.dualITree /\ (Area.w > 64 \/ Area.h > 64)
    BY <1>4, <1>9, <2>2 DEF Sizes
  <2> QED
    BY <1>1, <1>4, <1>9, <2>1, <2>2, Prescribed, Names, ZenonT(40)
<1> QED
  BY <1>1, <1>2, <1>4, <1>5, <1>6, <1>7, <1>8, <1>9

(* What is permitted besides a quad split: the split the boundary          *)
(* prescribes, or one that no boundary stands against.                     *)
LEMMA MtPermitted ==
  ASSUME IInv, CacheInv, TreeInv, GeoInv, at = "cu", NEW s \in Permitted, s # NoSplit, s # Quad
  PROVE  \/ s \in Bt /\ s = ImplicitSplit /\ ImplicitSplit # NoSplit
         \/ s \in Bt /\ ImplicitSplit = NoSplit /\ CanBtt /\ CanBt(s)
         \/ s \in Tt /\ ImplicitSplit = NoSplit /\ CanBtt /\ CanTt(s)
<1>1. treeType # "TREE_C"
  BY AtArea DEF TreeOk
<1>2. CASE ImplicitSplit = NoSplit
  <2>1. s \in {NoSplit} \cup QtIfAllowed
              \cup {t \in Bt : CanBtt /\ CanBt(t)} \cup {t \in Tt : CanBtt /\ CanTt(t)}
    BY <1>1, <1>2 DEF Permitted
  <2> QED
    BY <1>2, <2>1 DEF QtIfAllowed
<1>3. CASE ImplicitSplit # NoSplit
  <2>1. s \in UnderImplicit
    BY <1>1, <1>3 DEF Permitted
  <2> QED
    BY <1>3, <2>1 DEF UnderImplicit, QtIfAllowed
<1> QED
  BY <1>2, <1>3

\* the halves of an area cut across (Vert) or down (Horz) are blocks
HalvesFit(a, s) ==
  /\ s = Horz => a.h >= 8 /\ (a.w = 128 => a.h = 128)
  /\ s = Vert => a.w >= 8 /\ (a.h = 128 => a.w = 128)

(* The split the boundary prescribes.                                      *)
LEMMA ImplicitFits ==
  ASSUME IInv, CacheInv, TreeInv, GeoInv, at = "cu", NEW s \in Bt, s = ImplicitSplit,
         NEW m \in ChildModes(s)
  PROVE  FitFor(Area, s, m)
<1>1. /\ Legal(cfg) /\ Area \in AreaT /\ InPicture(Area.x, Area.y) /\ curr \in Counters
      /\ s = PrescribedSplit(Area, curr)
      /\ AreaOk(Area, Top(stack).split, curr, modeType)
  BY AtArea
<1>2. CuArea(Area, Top(stack).split, curr, modeType)
  BY <1>1 DEF AreaOk, IInv, TopInv
<1>3. /\ Area.w \in Sizes /\ Area.h \in Sizes
      /\ Straddles(Area) => EdgeOk(Area, curr)
  BY <1>2 DEF CuArea, SizeOk
<1>4. /\ Straddles(Area) /\ (cfg.dualITree => Area.w <= 64 /\ Area.h <= 64)
      /\ s = Horz => Area.w <= 64 /\ Area.y + Area.h > cfg.picH
      /\ s = Vert => Area.h <= 64 /\ Area.x + Area.w > cfg.picW
  BY <1>1, <1>3, Prescribed
<1>5. /\ Area.w >= 8 /\ Area.h >= 8
      /\ s = Horz => Area.h >= 16
      /\ s = Vert => Area.w >= 16
      /\ Area.x + Area.w > cfg.picW \/ Area.y + Area.h > cfg.picH
  BY <1>1, <1>3, <1>4, EdgeSizes
<1>6. Area.w >= 16 \/ Area.h >= 16
  BY <1>1, <1>3, <1>4, <1>5, EdgeSizes
<1>7. Blocks(Area) \in Nat /\ Blocks(Area) >= 8
  <2>1. PICK q \in {1, 2, 4, 8, 16, 32}, r \in {1, 2, 4, 8, 16, 32} :
          /\ Area.w = 4 * q /\ Area.h = 4 * r /\ Blocks(Area) \in {1, 2, 4, 8, 16, 32, 64, 128, 256, 512, 1024}
          /\ q >= 4 /\ r >= 2 => Blocks(Area) >= 8
          /\ q >= 2 /\ r >= 4 => Blocks(Area) >= 8
    BY <1>1, <1>3, InBlocks
  <2>2. q \in Nat /\ r \in Nat
    OBVIOUS
  <2> QED
    BY <1>5, <1>6, <2>1, <2>2
<1>8. s \notin Tt /\ s # Quad /\ s # TriV /\ s # TriH
  BY DEF Bt, Tt, Quad, Horz, Vert, TriH, TriV
<1>9. /\ Area.w <= 64 => Area.w # 128
      /\ Area.h <= 64 => Area.h # 128
      /\ Area.w >= 16 => Area.w >= 8
      /\ Area.h >= 16 => Area.h >= 8
      /\ Blocks(Area) >= 8 => Blocks(Area) >= 4
  BY <1>3, <1>7 DEF Sizes
<1> QED
  BY <1>4, <1>5, <1>7, <1>8, <1>9 DEF FitFor

(* A binary split that canSplit permits.                                   *)
LEMMA BtFits ==
  ASSUME IInv, CacheInv, TreeInv, GeoInv, at = "cu", NEW s \in Bt, ImplicitSplit = NoSplit,
         CanBtt, CanBt(s), NEW m \in ChildModes(s)
  PROVE  FitFor(Area, s, m)
<1>1. /\ Legal(cfg) /\ Area \in AreaT /\ InPicture(Area.x, Area.y) /\ curr \in Counters
      /\ PrescribedSplit(Area, curr) = NoSplit
      /\ AreaOk(Area, Top(stack).split, curr, modeType)
      /\ TreeOk(chType, treeType, modeType) /\ modeType \in ModeT
  BY AtArea
<1>2. SizeOk(Area, Top(stack).split, modeType)
  BY <1>1 DEF AreaOk, CuArea, IInv, TopInv
<1>3. /\ Area.w \in Sizes /\ Area.h \in Sizes
      /\ NeedsChroma(modeType) => Area.w >= 8
      /\ ~cfg.dualITree /\ modeType = "INTER" => Area.w * Area.h >= 32
  BY <1>2 DEF SizeOk, ChromaFits
<1>4. cfg.dualITree => Area.w <= 64 /\ Area.h <= 64
  BY <1>1, <1>3, Prescribed
<1>5. s = Horz \/ s = Vert
  BY DEF Bt
<1>6. /\ s \in Mt /\ s \notin Tt /\ s # Quad /\ s # TriV /\ s # TriH
      /\ ~(s = Horz /\ s = Vert)
  BY DEF Mt, Bt, Tt, Quad, Horz, Vert, TriH, TriV
<1>7. /\ s = Horz => Area.h > cfg.minCb /\ ~(Area.w > 64 /\ Area.h <= 64)
      /\ s = Vert => Area.w > cfg.minCb /\ ~(Area.h > 64 /\ Area.w <= 64)
  BY <1>5, <1>6 DEF CanBt, MAX_TB_SIZEY
<1>8. HalvesFit(Area, s)
  <2>1. cfg.minCb \in {4, 8}
    BY <1>1 DEF Legal
  <2>2. /\ s = Horz => Area.h > 4
        /\ s = Vert => Area.w > 4
    BY <1>3, <1>7, <2>1 DEF Sizes
  <2> QED
    BY <1>3, <1>7, <2>2 DEF HalvesFit, Sizes
<1>9. PICK n \in {1, 2, 4, 8, 16, 32, 64, 128, 256, 512, 1024} :
        n = Blocks(Area) /\ Area.w * Area.h = 16 * n /\ (Area.w \div 2) * (Area.h \div 2) = 4 * n
  BY <1>1, <1>3, InBlocks
<1>10. n \in Nat
  OBVIOUS
<1>11. IsChroma => 4 * n > 16 /\ (s = Vert => Area.w # 8)
  <2>1. Area.w = 8 => ChromaW = 4
    BY DEF ChromaW
  <2>2. ChromaSize = 4 * n
    BY <1>9 DEF ChromaSize
  <2> QED
    BY <2>1, <2>2 DEF CanBt, MIN_DUALTREE_CHROMA_SIZE
<1>12. modeType = "INTER" => 16 * n # 32
  BY <1>9 DEF CanBt
<1>13. CASE cfg.dualITree
  <2>1. NeedsChroma(m) => NeedsChroma(modeType) /\ IsChroma
    BY <1>1, <1>13 DEF NeedsChroma, IsChroma, TreeOk
  <2>2. IsChroma => n >= 8
    BY <1>10, <1>11
  <2>3. /\ Area.w >= 8 /\ Area.w # 8 => Area.w >= 16
        /\ NeedsChroma(m) => Area.w >= 8 /\ (s = Vert => Area.w >= 16) /\ n >= 8
    <3>1. Area.w >= 8 /\ Area.w # 8 => Area.w >= 16
      BY <1>3 DEF Sizes
    <3> QED
      BY <1>3, <1>11, <2>1, <2>2, <3>1
  <2> QED
    BY <1>4, <1>6, <1>8, <1>9, <1>13, <2>3 DEF FitFor, HalvesFit
<1>14. CASE ~cfg.dualITree
  <2>1. /\ m = "ALL" => /\ modeType = "ALL" /\ n >= 8
                        /\ s = Vert => Area.w # 8
        /\ m = "INTER" => modeType = "INTER" \/ n >= 4
    BY <1>1, <1>3, <1>6, <1>9, <1>14, ModesOfParts
  <2>2. modeType = "INTER" => n >= 4
    <3>1. modeType = "INTER" => 16 * n >= 32
      BY <1>3, <1>9, <1>14
    <3> QED
      BY <1>10, <1>12, <3>1
  <2>3. NeedsChroma(m) => Area.w >= 8 /\ (s = Vert => Area.w >= 16) /\ n >= 8
    <3>1. Area.w >= 8 /\ Area.w # 8 => Area.w >= 16
      BY <1>3 DEF Sizes
    <3> QED
      BY <1>3, <1>14, <2>1, <3>1 DEF NeedsChroma
  <2> QED
    BY <1>6, <1>8, <1>9, <1>14, <2>1, <2>2, <2>3 DEF FitFor, HalvesFit
<1> QED
  BY <1>13, <1>14

(* A ternary split that canSplit permits.                                  *)
LEMMA TtFits ==
  ASSUME IInv, CacheInv, TreeInv, GeoInv, at = "cu", NEW s \in Tt, ImplicitSplit = NoSplit,
         CanBtt, CanTt(s), NEW m \in ChildModes(s)
  PROVE  FitFor(Area, s, m)
<1>1. /\ Legal(cfg) /\ Area \in AreaT /\ InPicture(Area.x, Area.y) /\ curr \in Counters
      /\ PrescribedSplit(Area, curr) = NoSplit
      /\ AreaOk(Area, Top(stack).split, curr, modeType)
      /\ TreeOk(chType, treeType, modeType) /\ modeType \in ModeT
  BY AtArea
<1>2. SizeOk(Area, Top(stack).split, modeType)
  BY <1>1 DEF AreaOk, CuArea, IInv, TopInv
<1>3. /\ Area.w \in Sizes /\ Area.h \in Sizes
      /\ NeedsChroma(modeType) => Area.w >= 8
      /\ ~cfg.dualITree /\ modeType = "INTER" => Area.w * Area.h >= 32
  BY <1>2 DEF SizeOk, ChromaFits
<1>4. s = TriH \/ s = TriV
  BY DEF Tt
<1>5. /\ s \in Mt /\ s \notin Bt /\ s # Quad /\ s # Horz /\ s # Vert
      /\ ~(s = TriH /\ s = TriV)
  BY DEF Mt, Bt, Tt, Quad, Horz, Vert, TriH, TriV
<1>6. /\ s = TriH => Area.h > 2 * cfg.minCb
      /\ s = TriV => Area.w > 2 * cfg.minCb
      /\ Area.w <= 64 /\ Area.h <= 64
  BY <1>4, <1>5 DEF CanTt, MAX_TB_SIZEY
<1>7. /\ s = TriH => Area.h >= 16
      /\ s = TriV => Area.w >= 16
  <2>1. 2 * cfg.minCb \in {8, 16}
    BY <1>1 DEF Legal
  <2>2. /\ s = TriH => Area.h > 8
        /\ s = TriV => Area.w > 8
    BY <1>3, <1>6, <2>1 DEF Sizes
  <2> QED
    BY <1>3, <2>2 DEF Sizes
<1>8. PICK n \in {1, 2, 4, 8, 16, 32, 64, 128, 256, 512, 1024} :
        /\ n = Blocks(Area) /\ Area.w * Area.h = 16 * n /\ (Area.w \div 2) * (Area.h \div 2) = 4 * n
        /\ Area.w >= 16 \/ Area.h >= 16 => n >= 4
  <2>1. /\ Blocks(Area) \in {1, 2, 4, 8, 16, 32, 64, 128, 256, 512, 1024}
        /\ Area.w * Area.h = 16 * Blocks(Area) /\ (Area.w \div 2) * (Area.h \div 2) = 4 * Blocks(Area)
    BY <1>1, <1>3, InBlocks
  <2>2. PICK q \in {1, 2, 4, 8, 16, 32}, r \in {1, 2, 4, 8, 16, 32} :
          Area.w = 4 * q /\ Area.h = 4 * r /\ (q >= 4 \/ r >= 4 => Blocks(Area) >= 4)
    BY <1>1, <1>3, InBlocks
  <2>3. q \in Nat /\ r \in Nat
    OBVIOUS
  <2>4. Area.w >= 16 \/ Area.h >= 16 => Blocks(Area) >= 4
    BY <2>2, <2>3
  <2> QED
    BY <2>1, <2>4
<1>9. n \in Nat /\ n >= 4
  BY <1>4, <1>7, <1>8
<1>10. IsChroma => 4 * n > 32 /\ (s = TriV => Area.w # 16)
  <2>1. Area.w = 16 => ChromaW = 8
    BY DEF ChromaW
  <2>2. ChromaSize = 4 * n
    BY <1>8 DEF ChromaSize
  <2> QED
    BY <2>1, <2>2 DEF CanTt, MIN_DUALTREE_CHROMA_SIZE
<1>11. modeType = "INTER" => 16 * n # 64
  BY <1>8 DEF CanTt
<1>12. Area.w >= 16 /\ Area.w # 16 => Area.w >= 32
  BY <1>3 DEF Sizes
<1>13. CASE cfg.dualITree
  <2>1. NeedsChroma(m) => NeedsChroma(modeType) /\ IsChroma
    BY <1>1, <1>13 DEF NeedsChroma, IsChroma, TreeOk
  <2>2. IsChroma => n >= 16
    BY <1>9, <1>10
  <2>3. NeedsChroma(m) => Area.w >= 8 /\ (s = TriV => Area.w >= 32) /\ n >= 16
    BY <1>3, <1>7, <1>10, <1>12, <2>1, <2>2
  <2> QED
    BY <1>5, <1>6, <1>7, <1>8, <1>13, <2>3 DEF FitFor
<1>14. CASE ~cfg.dualITree
  <2>1. /\ m = "ALL" => /\ modeType = "ALL" /\ n >= 16
                        /\ s = TriV => Area.w # 16
        /\ m = "INTER" => modeType = "INTER" \/ n >= 8
    BY <1>1, <1>3, <1>5, <1>8, <1>14, ModesOfParts
  <2>2. modeType = "INTER" => n >= 8
    BY <1>8, <1>9, <1>11
  <2>3. NeedsChroma(m) => Area.w >= 8 /\ (s = TriV => Area.w >= 32) /\ n >= 16
    BY <1>3, <1>7, <1>12, <1>14, <2>1 DEF NeedsChroma
  <2> QED
    BY <1>5, <1>6, <1>7, <1>8, <1>14, <2>1, <2>2, <2>3 DEF FitFor
<1> QED
  BY <1>13, <1>14

(* Every permitted split fits its area.                                    *)
LEMMA PermittedFits ==
  ASSUME IInv, CacheInv, TreeInv, GeoInv, at = "cu", NEW s \in Permitted, s # NoSplit,
         NEW m \in ChildModes(s)
  PROVE  FitFor(Area, s, m)
<1>1. CASE s = Quad
  <2>1. Area.w = Area.h /\ Area.w >= 16
    BY <1>1, QuadPermitted
  <2>2. Area.w \in Sizes
    BY AtArea DEF AreaOk, CuArea, SizeOk, IInv, TopInv
  <2>3. Area.w >= 8
    BY <2>1, <2>2 DEF Sizes
  <2> QED
    BY <1>1, <2>1, <2>3, Names DEF FitFor
<1>2. CASE s # Quad
  BY <1>2, MtPermitted, ImplicitFits, BtFits, TtFits
<1> QED
  BY <1>1, <1>2

----------------------------------------------------------------------------
(* The parts of a split that fits.                                         *)

(* Doubling or keeping a quarter of a block size that is large enough      *)
(* gives a block size.                                                     *)
LEMMA PartSizes ==
  ASSUME NEW m \in Sizes, NEW q, q = Quarter(m)
  PROVE  /\ m >= 8 => 2 * q \in Sizes
         /\ m >= 16 => q \in Sizes /\ 2 * q >= 8
         /\ m >= 32 => q >= 8
         /\ 2 * q <= 64 /\ q <= 64 /\ (m = 128 => 2 * q >= 64)
         /\ m <= 64 => 2 * q <= 32
<1>1. m = 4 \/ m = 8 \/ m = 16 \/ m = 32 \/ m = 64 \/ m = 128
  BY DEF Sizes
<1>2. q \in {1, 2, 4, 8, 16, 32} /\ m = 4 * q
  BY Quarters
<1>3. q = 1 \/ q = 2 \/ q = 4 \/ q = 8 \/ q = 16 \/ q = 32
  BY <1>2
<1> QED
  BY <1>1, <1>2, <1>3 DEF Sizes

(* What a size must be for the parts.                                      *)
LEMMA SizeOfRect ==
  ASSUME NEW s \in CuSplits, NEW m, NEW w \in Sizes, NEW h \in Sizes,
         w = 128 => h >= 64, h = 128 => w >= 64, s = Quad => w = h,
         s \in Mt /\ cfg.dualITree => w <= 64 /\ h <= 64,
         NeedsChroma(m) => w >= 8 /\ w * h >= 64,
         ~cfg.dualITree /\ m = "INTER" => w * h >= 32,
         NEW part \in AreaT, part.w = w, part.h = h
  PROVE  SizeOk(part, s, m)
  BY Kinds DEF SizeOk, ChromaFits

(* The quadrants.                                                          *)
LEMMA QuadSizes ==
  ASSUME NEW a \in AreaT, a.w \in Sizes, a.h \in Sizes, NEW m, FitFor(a, Quad, m),
         NEW part \in AreaT, part.w = 2 * Quarter(a.w), part.h = 2 * Quarter(a.h)
  PROVE  SizeOk(part, Quad, m)
<1>1. a.w = a.h /\ a.w >= 16
  BY DEF FitFor
<1>2. PICK t \in Sizes : t = part.w /\ t = part.h /\ t >= 8 /\ t <= 64
  BY <1>1, PartSizes DEF Sizes
<1>3. t * t >= 64
  <2>1. t = 4 \/ t = 8 \/ t = 16 \/ t = 32 \/ t = 64 \/ t = 128
    BY DEF Sizes
  <2> QED
    BY <1>2, <2>1
<1>4. t # 128 /\ t * t >= 32
  BY <1>2, <1>3 DEF Sizes
<1>5. Quad \in CuSplits /\ Quad \notin Mt
  BY Names DEF CuSplits
<1> QED
  BY <1>2, <1>3, <1>4, <1>5, SizeOfRect

(* Halves across.                                                          *)
LEMMA VertSizes ==
  ASSUME NEW a \in AreaT, a.w \in Sizes, a.h \in Sizes, NEW m, FitFor(a, Vert, m),
         a.w = 128 => a.h >= 64, NEW part \in AreaT, part.w = 2 * Quarter(a.w), part.h = a.h
  PROVE  SizeOk(part, Vert, m)
<1>1. /\ a.w >= 8 /\ (a.h = 128 => a.w = 128)
      /\ cfg.dualITree => a.w <= 64 /\ a.h <= 64
      /\ NeedsChroma(m) => a.w >= 16 /\ Blocks(a) >= 8
      /\ ~cfg.dualITree /\ m = "INTER" => Blocks(a) >= 4
  BY Names DEF FitFor
<1>2. PICK w \in Sizes : /\ w = part.w /\ w <= 64 /\ (a.w = 128 => w >= 64) /\ (a.w >= 16 => w >= 8)
                         /\ a.w <= 64 => w <= 32
  BY <1>1, PartSizes
<1>3. PICK n \in {1, 2, 4, 8, 16, 32, 64, 128, 256, 512, 1024} : n = Blocks(a) /\ w * a.h = 8 * n
  BY <1>2, InBlocks
<1>4. /\ NeedsChroma(m) => w >= 8 /\ w * a.h >= 64
      /\ ~cfg.dualITree /\ m = "INTER" => w * a.h >= 32
      /\ w # 128 /\ (a.h = 128 => w >= 64) /\ (cfg.dualITree => w <= 64 /\ a.h <= 64)
  BY <1>1, <1>2, <1>3 DEF Sizes
<1>5. Vert \in CuSplits /\ Vert # Quad
  BY Names DEF CuSplits
<1> QED
  BY <1>2, <1>4, <1>5, SizeOfRect

(* Halves down.                                                            *)
LEMMA HorzSizes ==
  ASSUME NEW a \in AreaT, a.w \in Sizes, a.h \in Sizes, NEW m, FitFor(a, Horz, m),
         a.h = 128 => a.w >= 64, NEW part \in AreaT, part.w = a.w, part.h = 2 * Quarter(a.h)
  PROVE  SizeOk(part, Horz, m)
<1>1. /\ a.h >= 8 /\ (a.w = 128 => a.h = 128)
      /\ cfg.dualITree => a.w <= 64 /\ a.h <= 64
      /\ NeedsChroma(m) => a.w >= 8 /\ Blocks(a) >= 8
      /\ ~cfg.dualITree /\ m = "INTER" => Blocks(a) >= 4
  BY Names DEF FitFor
<1>2. PICK h \in Sizes : /\ h = part.h /\ h <= 64 /\ (a.h = 128 => h >= 64)
                         /\ a.h <= 64 => h <= 32
  BY <1>1, PartSizes
<1>3. PICK n \in {1, 2, 4, 8, 16, 32, 64, 128, 256, 512, 1024} : n = Blocks(a) /\ a.w * h = 8 * n
  BY <1>2, InBlocks
<1>4. /\ NeedsChroma(m) => a.w >= 8 /\ a.w * h >= 64
      /\ ~cfg.dualITree /\ m = "INTER" => a.w * h >= 32
      /\ h # 128 /\ (a.w = 128 => h >= 64) /\ (cfg.dualITree => a.w <= 64 /\ h <= 64)
  BY <1>1, <1>2, <1>3 DEF Sizes
<1>5. Horz \in CuSplits /\ Horz # Quad
  BY Names DEF CuSplits
<1> QED
  BY <1>2, <1>4, <1>5, SizeOfRect

(* Quarters and the half between them, across.                             *)
LEMMA TriVSizes ==
  ASSUME NEW a \in AreaT, a.w \in Sizes, a.h \in Sizes, NEW m, FitFor(a, TriV, m),
         NEW part \in AreaT, part.w \in {Quarter(a.w), 2 * Quarter(a.w)}, part.h = a.h
  PROVE  SizeOk(part, TriV, m)
<1>1. /\ a.w >= 16 /\ a.w <= 64 /\ a.h <= 64
      /\ NeedsChroma(m) => a.w >= 32 /\ Blocks(a) >= 16
      /\ ~cfg.dualITree /\ m = "INTER" => Blocks(a) >= 8
  BY Names DEF FitFor
<1>2. /\ Quarter(a.w) \in Sizes /\ 2 * Quarter(a.w) \in Sizes /\ Quarter(a.w) \in Nat
      /\ 2 * Quarter(a.w) <= 32 /\ (a.w >= 32 => Quarter(a.w) >= 8) /\ a.w >= 8
  BY <1>1, PartSizes DEF Sizes
<1>3. PICK w \in Sizes : w = part.w /\ w <= 32 /\ (a.w >= 32 => w >= 8)
  BY <1>2
<1>4. PICK n \in {1, 2, 4, 8, 16, 32, 64, 128, 256, 512, 1024} :
        n = Blocks(a) /\ Quarter(a.w) * a.h = 4 * n /\ (2 * Quarter(a.w)) * a.h = 8 * n
  BY InBlocks
<1>5. w * a.h \in {4 * n, 8 * n}
  BY <1>3, <1>4
<1>6. n \in Nat
  OBVIOUS
<1>7. /\ NeedsChroma(m) => w >= 8 /\ w * a.h >= 64
      /\ ~cfg.dualITree /\ m = "INTER" => w * a.h >= 32
  BY <1>1, <1>3, <1>4, <1>5, <1>6
<1>8. w # 128 /\ a.h # 128 /\ w <= 64 /\ a.h <= 64
  BY <1>1, <1>3 DEF Sizes
<1>9. TriV \in CuSplits /\ TriV # Quad
  BY Names DEF CuSplits
<1>10. PICK h \in Sizes : h = a.h /\ h = part.h
  OBVIOUS
<1> QED
  BY <1>3, <1>7, <1>8, <1>9, <1>10, SizeOfRect

(* And down.                                                               *)
LEMMA TriHSizes ==
  ASSUME NEW a \in AreaT, a.w \in Sizes, a.h \in Sizes, NEW m, FitFor(a, TriH, m),
         NEW part \in AreaT, part.h \in {Quarter(a.h), 2 * Quarter(a.h)}, part.w = a.w
  PROVE  SizeOk(part, TriH, m)
<1>1. /\ a.h >= 16 /\ a.w <= 64 /\ a.h <= 64
      /\ NeedsChroma(m) => a.w >= 8 /\ Blocks(a) >= 16
      /\ ~cfg.dualITree /\ m = "INTER" => Blocks(a) >= 8
  BY Names DEF FitFor
<1>2. /\ Quarter(a.h) \in Sizes /\ 2 * Quarter(a.h) \in Sizes /\ Quarter(a.h) \in Nat
      /\ 2 * Quarter(a.h) <= 32
  BY <1>1, PartSizes DEF Sizes
<1>3. PICK h \in Sizes : h = part.h /\ h <= 32
  BY <1>2
<1>4. PICK n \in {1, 2, 4, 8, 16, 32, 64, 128, 256, 512, 1024} :
        n = Blocks(a) /\ a.w * Quarter(a.h) = 4 * n /\ a.w * (2 * Quarter(a.h)) = 8 * n
  BY InBlocks
<1>5. a.w * h \in {4 * n, 8 * n}
  BY <1>3, <1>4
<1>6. n \in Nat
  OBVIOUS
<1>7. /\ NeedsChroma(m) => a.w >= 8 /\ a.w * h >= 64
      /\ ~cfg.dualITree /\ m = "INTER" => a.w * h >= 32
  BY <1>1, <1>3, <1>4, <1>5, <1>6
<1>8. h # 128 /\ a.w # 128 /\ h <= 64 /\ a.w <= 64
  BY <1>1, <1>3 DEF Sizes
<1>9. TriH \in CuSplits /\ TriH # Quad
  BY Names DEF CuSplits
<1> QED
  BY <1>3, <1>7, <1>8, <1>9, SizeOfRect, SMTT(30)

(* The sides of an area, as numbers and in quarters.                       *)
LEMMA Sides ==
  ASSUME NEW a \in AreaT, a.w \in Sizes, a.h \in Sizes
  PROVE  /\ a.x \in Nat /\ a.y \in Nat /\ a.w \in Nat /\ a.h \in Nat
         /\ Quarter(a.w) \in Nat /\ Quarter(a.h) \in Nat
         /\ a.w = 4 * Quarter(a.w) /\ a.h = 4 * Quarter(a.h)
         /\ a.w \div 2 = 2 * Quarter(a.w) /\ a.h \div 2 = 2 * Quarter(a.h)
<1>1. a.x \in Nat /\ a.y \in Nat /\ a.w \in Nat /\ a.h \in Nat
  BY AreaRect
<1>2. /\ Quarter(a.w) \in Nat /\ a.w = 4 * Quarter(a.w) /\ a.w \div 2 = 2 * Quarter(a.w)
      /\ Quarter(a.h) \in Nat /\ a.h = 4 * Quarter(a.h) /\ a.h \div 2 = 2 * Quarter(a.h)
  BY Quarters
<1> QED
  BY <1>1, <1>2

(* Every part of a split that fits has a size a CU can have.               *)
LEMMA PartsSizeOk ==
  ASSUME NEW a \in AreaT, NEW t, NEW k, SizeOk(a, t, k), NEW s \in CuSplits, NEW m, FitFor(a, s, m),
         NEW parts, CutBy(parts, a, s), NEW j \in 1 .. Len(parts)
  PROVE  SizeOk(parts[j], s, m)
<1>1. /\ a.w \in Sizes /\ a.h \in Sizes /\ (a.w = 128 => a.h >= 64) /\ (a.h = 128 => a.w >= 64)
      /\ a.x \in Nat /\ a.y \in Nat /\ a.w \in Nat /\ a.h \in Nat
      /\ Quarter(a.w) \in Nat /\ Quarter(a.h) \in Nat
      /\ a.w = 4 * Quarter(a.w) /\ a.h = 4 * Quarter(a.h)
  BY Sides DEF SizeOk
<1>2. a.w - 2 * Quarter(a.w) = 2 * Quarter(a.w) /\ a.h - 2 * Quarter(a.h) = 2 * Quarter(a.h)
  BY <1>1
<1> DEFINE IsOf(part, w, h) == part.w = w /\ part.h = h
<1>3. \A x, y, w, h : IsOf(Rect(x, y, w, h), w, h)
  BY DEF Rect
<1>4. CASE s = Quad
  <2>1. FourSquare(parts, a)
    BY <1>4 DEF CutBy
  <2>2. parts[j] \in AreaT /\ j \in {1, 2, 3, 4}
    <3>1. parts \in Seq(AreaT) /\ Len(parts) = 4
      BY <2>1 DEF FourSquare
    <3>2. parts[j] \in AreaT
      BY <3>1, ElementOfSeq
    <3>3. j \in 1 .. 4
      BY <3>1
    <3> QED
      BY <3>2, <3>3
  <2>3. IsOf(parts[j], 2 * Quarter(a.w), 2 * Quarter(a.h))
    <3> HIDE DEF IsOf
    <3> QED
      BY <1>3, <2>1, <2>2 DEF FourSquare
  <2> QED
    BY <1>1, <1>4, <2>2, <2>3, QuadSizes
<1>5. CASE s = Vert
  <2>1. TwoAcross(parts, a, 2 * Quarter(a.w))
    BY <1>5 DEF CutBy
  <2>2. parts[j] \in AreaT /\ j \in {1, 2}
    <3>1. parts \in Seq(AreaT) /\ Len(parts) = 2
      BY <2>1 DEF TwoAcross
    <3> QED
      BY <3>1
  <2>3. IsOf(parts[j], 2 * Quarter(a.w), a.h)
    <3> HIDE DEF IsOf
    <3> QED
      BY <1>2, <1>3, <2>1, <2>2 DEF TwoAcross
  <2> QED
    BY <1>1, <1>5, <2>2, <2>3, VertSizes
<1>6. CASE s = Horz
  <2>1. TwoDown(parts, a, 2 * Quarter(a.h))
    BY <1>6 DEF CutBy
  <2>2. parts[j] \in AreaT /\ j \in {1, 2}
    <3>1. parts \in Seq(AreaT) /\ Len(parts) = 2
      BY <2>1 DEF TwoDown
    <3> QED
      BY <3>1
  <2>3. IsOf(parts[j], a.w, 2 * Quarter(a.h))
    <3> HIDE DEF IsOf
    <3> QED
      BY <1>2, <1>3, <2>1, <2>2 DEF TwoDown
  <2> QED
    BY <1>1, <1>6, <2>2, <2>3, HorzSizes
<1>7. CASE s = TriV
  <2>1. ThreeAcross(parts, a)
    BY <1>7 DEF CutBy
  <2>2. parts[j] \in AreaT /\ j \in {1, 2, 3}
    <3>1. parts \in Seq(AreaT) /\ Len(parts) = 3
      BY <2>1 DEF ThreeAcross
    <3> QED
      BY <3>1
  <2>3. IsOf(parts[j], Quarter(a.w), a.h) \/ IsOf(parts[j], 2 * Quarter(a.w), a.h)
    <3> HIDE DEF IsOf
    <3> QED
      BY <1>3, <2>1, <2>2 DEF ThreeAcross
  <2> QED
    BY <1>1, <1>7, <2>2, <2>3, TriVSizes
<1>8. CASE s = TriH
  <2>1. ThreeDown(parts, a)
    BY <1>8 DEF CutBy
  <2>2. parts[j] \in AreaT /\ j \in {1, 2, 3}
    <3>1. parts \in Seq(AreaT) /\ Len(parts) = 3
      BY <2>1 DEF ThreeDown
    <3> QED
      BY <3>1
  <2>3. IsOf(parts[j], a.w, Quarter(a.h)) \/ IsOf(parts[j], a.w, 2 * Quarter(a.h))
    <3> HIDE DEF IsOf
    <3> QED
      BY <1>3, <2>1, <2>2 DEF ThreeDown
  <2> QED
    BY <1>1, <1>8, <2>2, <2>3, TriHSizes
<1> QED
  BY <1>4, <1>5, <1>6, <1>7, <1>8, Names

(* Only the split the boundary prescribes, or a quad split, has parts on   *)
(* the boundary; they are aligned like the area they divide.               *)
LEMMA PartsEdgeOk ==
  ASSUME Legal(cfg), NEW a \in AreaT, NEW t, NEW k, SizeOk(a, t, k),
         InPicture(a.x, a.y), NEW c \in Counters, Straddles(a) => EdgeOk(a, c),
         NEW s \in CuSplits, NEW m, FitFor(a, s, m),
         NEW p, p = PrescribedSplit(a, c), s \in Mt => (s = p <=> p # NoSplit),
         s = Quad => c.mt = 0,
         NEW parts, CutBy(parts, a, s), PartsApart(parts, a),
         NEW j \in 1 .. Len(parts), Straddles(parts[j]),
         NEW d, d = CountersAfterSplit(c, s, s = p)
  PROVE  EdgeOk(parts[j], d)
<1>1. /\ a.w \in Sizes /\ a.h \in Sizes
      /\ a.x \in Nat /\ a.y \in Nat /\ a.w \in Nat /\ a.h \in Nat
      /\ Quarter(a.w) \in Nat /\ Quarter(a.h) \in Nat
      /\ a.w = 4 * Quarter(a.w) /\ a.h = 4 * Quarter(a.h)
      /\ a.w \div 2 = 2 * Quarter(a.w) /\ a.h \div 2 = 2 * Quarter(a.h)
      /\ cfg.picW \in Nat /\ cfg.picH \in Nat
  <2>1. a.w \in Sizes /\ a.h \in Sizes
    BY DEF SizeOk
  <2>2. cfg.picW \in Nat /\ cfg.picH \in Nat
    BY DEF Legal
  <2> QED
    BY <2>1, <2>2, Sides
<1>2. parts \in Seq(AreaT) /\ parts[j] \in AreaT
  <2>1. parts \in Seq(AreaT)
    BY Names DEF CutBy, TwoAcross, TwoDown, ThreeAcross, ThreeDown, FourSquare
  <2> QED
    BY <2>1
<1>3. Straddles(a)
  <2>1. Within(parts[j], a)
    BY <1>2 DEF PartsApart
  <2>2. /\ parts[j].x \in Nat /\ parts[j].y \in Nat /\ parts[j].w \in Nat /\ parts[j].h \in Nat
    BY <1>2, AreaRect
  <2>3. /\ parts[j].x >= a.x /\ parts[j].y >= a.y
        /\ parts[j].x + parts[j].w <= a.x + a.w /\ parts[j].y + parts[j].h <= a.y + a.h
    BY <2>1 DEF Within
  <2>4. ~InsidePicture(parts[j])
    BY DEF Straddles
  <2>5. ~InsidePicture(a)
    <3>1. \A k1, k2, k3 \in Nat : k1 <= k2 /\ k2 <= k3 => k1 <= k3
      OBVIOUS
    <3>2. /\ parts[j].x + parts[j].w \in Nat /\ parts[j].y + parts[j].h \in Nat
          /\ a.x + a.w \in Nat /\ a.y + a.h \in Nat
      <4>1. \A k1, k2 \in Nat : k1 + k2 \in Nat
        OBVIOUS
      <4> QED
        BY <1>1, <2>2, <4>1
    <3> QED
      BY <1>1, <2>3, <2>4, <3>1, <3>2 DEF InsidePicture
  <2> QED
    BY <2>5 DEF Straddles
<1>4. EdgeOk(a, c) /\ p # NoSplit
  BY <1>1, <1>3, Prescribed DEF Straddles
<1>5. /\ a.w >= 8 /\ a.h >= 8 /\ a.x % a.w = 0 /\ a.y % a.h = 0 /\ c.mt = c.implicitBt
      /\ c.mt \in Nat /\ c.implicitBt \in Nat
      /\ a.x + a.w > cfg.picW => a.w >= 16
      /\ a.y + a.h > cfg.picH => a.h >= 16
  BY <1>1, <1>3, <1>4, EdgeSizes DEF EdgeOk, Counters
<1>6. /\ a.w >= 16 => a.x % (2 * Quarter(a.w)) = 0 /\ (a.x + 2 * Quarter(a.w)) % (2 * Quarter(a.w)) = 0
      /\ a.h >= 16 => a.y % (2 * Quarter(a.h)) = 0 /\ (a.y + 2 * Quarter(a.h)) % (2 * Quarter(a.h)) = 0
  <2>1. a.w >= 16 => a.x % (a.w \div 2) = 0 /\ (a.x + a.w \div 2) % (a.w \div 2) = 0
    BY <1>1, <1>5, OnTheGrid
  <2>2. a.h >= 16 => a.y % (a.h \div 2) = 0 /\ (a.y + a.h \div 2) % (a.h \div 2) = 0
    BY <1>1, <1>5, OnTheGrid
  <2> QED
    BY <1>1, <2>1, <2>2
<1>7. /\ a.w >= 16 => 2 * Quarter(a.w) >= 8
      /\ a.h >= 16 => 2 * Quarter(a.h) >= 8
  BY <1>1, PartSizes
<1>8. a.w - 2 * Quarter(a.w) = 2 * Quarter(a.w) /\ a.h - 2 * Quarter(a.h) = 2 * Quarter(a.h)
  BY <1>1, SMTT(30)
<1> DEFINE IsAt(part, x, y, w, h) == part.x = x /\ part.y = y /\ part.w = w /\ part.h = h
<1>9. \A x, y, w, h : IsAt(Rect(x, y, w, h), x, y, w, h)
  BY DEF Rect
<1>10. CASE s = Quad
  <2>1. FourSquare(parts, a)
    BY <1>10 DEF CutBy
  <2>2. j \in {1, 2, 3, 4}
    BY <2>1 DEF FourSquare
  <2>3. PICK x \in {a.x, a.x + 2 * Quarter(a.w)}, y \in {a.y, a.y + 2 * Quarter(a.h)} :
          IsAt(parts[j], x, y, 2 * Quarter(a.w), 2 * Quarter(a.h))
    <3> HIDE DEF IsAt
    <3> QED
      BY <1>9, <2>1, <2>2 DEF FourSquare
  <2>4. a.w >= 16 /\ a.h >= 16
    BY <1>10 DEF FitFor
  <2>5. /\ parts[j].w >= 8 /\ parts[j].h >= 8
        /\ parts[j].x % parts[j].w = 0 /\ parts[j].y % parts[j].h = 0
    BY <1>6, <1>7, <2>3, <2>4
  <2>6. d.mt = 0 /\ d.implicitBt = 0
    BY <1>5, <1>10, Names DEF CountersAfterSplit, One
  <2> QED
    BY <2>5, <2>6 DEF EdgeOk
<1>11. CASE s \in Bt
  <2>1. /\ s = p /\ s \in Mt /\ s # Quad
    BY <1>4, <1>11, Names DEF Mt
  <2>2. /\ a.w <= cfg.maxBt /\ a.h <= cfg.maxBt /\ c.mt < cfg.maxBtDepth + c.implicitBt
        /\ s = Horz => a.w <= 64 /\ a.y + a.h > cfg.picH
        /\ s = Vert => a.h <= 64 /\ a.x + a.w > cfg.picW
    BY <1>1, <1>11, <2>1, Prescribed
  <2>3. d.mt = c.mt + 1 /\ d.implicitBt = c.implicitBt + 1
    BY <2>1 DEF CountersAfterSplit, One
  <2>4. cfg.maxBtDepth \in Nat /\ cfg.maxBtDepth > 0 /\ cfg.maxBt \in Nat
    <3>1. cfg.maxBtDepth \in Nat /\ cfg.maxBt \in Nat
      BY DEF Legal
    <3> QED
      BY <1>5, <2>2, <3>1
  <2>5. CASE s = Vert
    <3>1. TwoAcross(parts, a, 2 * Quarter(a.w))
      BY <2>5 DEF CutBy
    <3>2. j \in {1, 2}
      BY <3>1 DEF TwoAcross
    <3>3. PICK x \in {a.x, a.x + 2 * Quarter(a.w)} : IsAt(parts[j], x, a.y, 2 * Quarter(a.w), a.h)
      <4> HIDE DEF IsAt
      <4> QED
        BY <1>8, <1>9, <3>1, <3>2 DEF TwoAcross
    <3>4. /\ parts[j].w >= 8 /\ parts[j].h >= 8
          /\ parts[j].x % parts[j].w = 0 /\ parts[j].y % parts[j].h = 0
      BY <1>5, <1>6, <1>7, <2>2, <2>5, <3>3
    <3>5. parts[j].w <= 64 /\ parts[j].h <= 64 /\ parts[j].w <= cfg.maxBt /\ parts[j].h <= cfg.maxBt
      <4>1. 2 * Quarter(a.w) <= 64 /\ 2 * Quarter(a.w) <= cfg.maxBt
        BY <1>1, <2>2, <2>4, PartSizes, SMTT(30)
      <4> QED
        BY <2>2, <2>5, <3>3, <4>1
    <3> QED
      BY <1>5, <2>3, <2>4, <3>4, <3>5 DEF EdgeOk
  <2>6. CASE s = Horz
    <3>1. TwoDown(parts, a, 2 * Quarter(a.h))
      BY <2>6 DEF CutBy
    <3>2. j \in {1, 2}
      BY <3>1 DEF TwoDown
    <3>3. PICK y \in {a.y, a.y + 2 * Quarter(a.h)} : IsAt(parts[j], a.x, y, a.w, 2 * Quarter(a.h))
      <4> HIDE DEF IsAt
      <4> QED
        BY <1>8, <1>9, <3>1, <3>2 DEF TwoDown
    <3>4. /\ parts[j].w >= 8 /\ parts[j].h >= 8
          /\ parts[j].x % parts[j].w = 0 /\ parts[j].y % parts[j].h = 0
      BY <1>5, <1>6, <1>7, <2>2, <2>6, <3>3
    <3>5. parts[j].w <= 64 /\ parts[j].h <= 64 /\ parts[j].w <= cfg.maxBt /\ parts[j].h <= cfg.maxBt
      <4>1. 2 * Quarter(a.h) <= 64 /\ 2 * Quarter(a.h) <= cfg.maxBt
        BY <1>1, <2>2, <2>4, PartSizes, SMTT(30)
      <4> QED
        BY <2>2, <2>6, <3>3, <4>1
    <3> QED
      BY <1>5, <2>3, <2>4, <3>4, <3>5 DEF EdgeOk
  <2> QED
    BY <1>11, <2>5, <2>6 DEF Bt
<1>12. s \notin Tt
  <2>1. p \in {NoSplit, Quad, Horz, Vert}
    BY <1>1, Prescribed
  <2> QED
    BY <1>4, <2>1 DEF Mt, Bt, Tt, NoSplit, Quad, Horz, Vert, TriH, TriV
<1> QED
  BY <1>10, <1>11, <1>12 DEF CuSplits, Mt

(* The parts of every permitted split, for every mode type they may have.  *)
LEMMA PermittedParts ==
  ASSUME IInv, CacheInv, TreeInv, GeoInv, at = "cu", NEW s \in Permitted, s # NoSplit,
         NEW m \in ChildModes(s), NEW parts, parts = SubPartitions(Area, s),
         NEW d, d = CountersAfterSplit(curr, s, s = ImplicitSplit)
  PROVE  /\ s \in CuSplits /\ Tiles(parts, Area)
         /\ \A j \in 1 .. Len(parts) : CuArea(parts[j], s, d, m)
<1>1. /\ Legal(cfg) /\ Area \in AreaT /\ InPicture(Area.x, Area.y) /\ curr \in Counters
      /\ ImplicitSplit = PrescribedSplit(Area, curr)
      /\ CuArea(Area, Top(stack).split, curr, modeType)
  BY AtArea DEF AreaOk, IInv, TopInv
<1>2. /\ s \in CuSplits /\ (s \in Mt => (s = ImplicitSplit <=> ImplicitSplit # NoSplit))
  BY PermittedSplits
<1>3. s = Quad => curr.mt = 0
  BY QuadPermitted
<1>4. /\ SizeOk(Area, Top(stack).split, modeType) /\ Area.w \in Sizes /\ Area.h \in Sizes
      /\ Straddles(Area) => EdgeOk(Area, curr)
  BY <1>1 DEF CuArea, SizeOk
<1>5. FitFor(Area, s, m)
  BY PermittedFits
<1>6. s # TuMax /\ s \in CuSplits \cup TuSplits /\ cfg.maxTb \in {32, 64}
  BY <1>1, <1>2, Kinds DEF Legal, TuSplits
<1>7. CutBy(parts, Area, s)
  BY <1>1, <1>4, <1>6, HowSplit
<1>8. Tiles(parts, Area)
  BY <1>1, <1>4, <1>6, <1>7, LegalCfg, SplitTiles
<1>9. PartsApart(parts, Area)
  BY <1>8 DEF Tiles
<1>10. ASSUME NEW j \in 1 .. Len(parts) PROVE CuArea(parts[j], s, d, m)
  <2>1. SizeOk(parts[j], s, m)
    BY <1>1, <1>2, <1>4, <1>5, <1>7, PartsSizeOk
  <2>2. ASSUME Straddles(parts[j]) PROVE EdgeOk(parts[j], d)
    BY <1>1, <1>2, <1>3, <1>4, <1>5, <1>7, <1>9, <2>2, PartsEdgeOk
  <2> QED
    BY <2>1, <2>2 DEF CuArea
<1> QED
  BY <1>2, <1>8, <1>10

(* signalModeCons leaves the parts some mode type.                         *)
LEMMA SomeMode == ASSUME NEW s PROVE \E m : m \in ChildModes(s)
<1>1. CASE ModeConsInherits(s)
  BY <1>1 DEF ChildModes
<1>2. CASE ~ModeConsInherits(s)
  BY <1>2 DEF ChildModes
<1> QED
  BY <1>1, <1>2

(* What canSplit permits never runs into a CHECK.                          *)
LEMMA NothingThrows == ASSUME IInv, CacheInv, TreeInv, GeoInv PROVE NoCheckFires
<1> SUFFICES ASSUME at = "cu", NEW s \in Permitted \ {NoSplit} PROVE ~SplitThrows(s)
  BY DEF NoCheckFires
<1>1. s \in Permitted /\ s # NoSplit
  OBVIOUS
<1>2. PICK m : m \in ChildModes(s)
  BY SomeMode
<1>3. ~(s = Quad /\ (curr.bt > 0 \/ curr.mt > 0))
  BY <1>1, QuadPermitted
<1> DEFINE parts == SubPartitions(Area, s)
<1>4. /\ Tiles(parts, Area)
      /\ \A j \in 1 .. Len(parts) :
           CuArea(parts[j], s, CountersAfterSplit(curr, s, s = ImplicitSplit), m)
  BY <1>1, <1>2, PermittedParts
<1>5. DOMAIN parts = 1 .. Len(parts)
  BY <1>4 DEF Tiles
<1>6. \A j \in 1 .. Len(parts) : parts[j].w \in Sizes /\ parts[j].h \in Sizes
  BY <1>4 DEF CuArea, SizeOk
<1>7. \A k \in Sizes : ~(k < MIN_TB_SIZEY)
  BY DEF Sizes, MIN_TB_SIZEY
<1>8. ~PartsTooSmall(s)
  <2> HIDE DEF parts
  <2>1. ~(\E i \in DOMAIN parts : parts[i].h < MIN_TB_SIZEY \/ parts[i].w < MIN_TB_SIZEY)
    BY <1>5, <1>6, <1>7
  <2> QED
    BY <2>1 DEF PartsTooSmall, parts
<1> QED
  BY <1>3, <1>8 DEF SplitThrows

----------------------------------------------------------------------------
(* GeoInv.                                                                 *)

(* What the sizes of an area's parts ask of the counters.                  *)
LEMMA SameArea ==
  ASSUME NEW a, NEW s, NEW c, NEW m, AreaOk(a, s, c, m),
         NEW d, d.mt = c.mt, d.implicitBt = c.implicitBt
  PROVE  AreaOk(a, s, d, m)
  BY DEF AreaOk, CuArea, EdgeOk

(* A level that keeps its parts, its counters and its mode type.           *)
LEMMA GeoKept ==
  ASSUME cfg' = cfg, NEW i \in 1 .. Len(stack), GeoAt(i),
         stack'[i].split = stack[i].split, stack'[i].parts = stack[i].parts,
         i > 1 => SameLevel(i - 1), ModeOf(i)' = ModeOf(i),
         C(i)'.mt = C(i).mt, C(i)'.implicitBt = C(i).implicitBt,
         stack[i].split \notin Tt => C(i)'.bt = C(i).bt,
         i < Len(stack') \/ at' \in {"cu", "tu", "chroma"} =>
           InPicture(AreaOf(stack'[i]).x, AreaOf(stack'[i]).y)
  PROVE  GeoAt(i)'
<1>1. ASSUME NEW j \in 1 .. Len(stack[i].parts)
      PROVE  AreaOk(stack[i].parts[j], stack[i].split, C(i), ModeOf(i))'
  <2>1. AreaOk(stack[i].parts[j], stack[i].split, C(i), ModeOf(i))
    BY DEF GeoAt
  <2> QED
    BY <2>1 DEF AreaOk, CuArea, SizeOk, EdgeOk, TuArea, Straddles, InsidePicture, InPicture,
       NeedsChroma, ChromaFits
<1>2. (stack[i].split \in {"CTU_LEVEL", Quad} => C(i).mt = 0 /\ C(i).bt = 0)'
  <2>1. stack[i].split \in {"CTU_LEVEL", Quad} => C(i).mt = 0 /\ C(i).bt = 0 /\ stack[i].split \notin Tt
    BY DEF GeoAt, Tt, TriH, TriV, Quad
  <2> QED
    BY <2>1
<1>3. (i < Len(stack) \/ at \in {"cu", "tu", "chroma"} => InPicture(AreaOf(stack[i]).x, AreaOf(stack[i]).y))'
  BY DEF InPicture
<1>4. (i > 1 => PartsApart(stack[i].parts, AreaOf(stack[i - 1])))'
  <2>1. ASSUME i > 1 PROVE AreaOf(stack'[i - 1]) = AreaOf(stack[i - 1])
    BY <2>1 DEF SameLevel, AreaOf
  <2>2. i > 1 => PartsApart(stack[i].parts, AreaOf(stack[i - 1]))
    BY DEF GeoAt
  <2> QED
    BY <2>1, <2>2
<1>5. (\A j \in 1 .. Len(stack[i].parts) : AreaOk(stack[i].parts[j], stack[i].split, C(i), ModeOf(i)))'
  BY <1>1
<1> QED
  BY <1>2, <1>3, <1>4, <1>5 DEF GeoAt

----------------------------------------------------------------------------
(* The parts of a CU coded in several transform units.                     *)

(* An area that may be coded unsplit lies in the picture.                  *)
LEMMA UnsplitInside ==
  ASSUME IInv, CacheInv, TreeInv, GeoInv, at = "cu", NoSplit \in Permitted
  PROVE  InsidePicture(Area) /\ Area.w \in Sizes /\ Area.h \in Sizes
<1>1. /\ Legal(cfg) /\ Area \in AreaT /\ InPicture(Area.x, Area.y) /\ curr \in Counters
      /\ ImplicitSplit = PrescribedSplit(Area, curr)
      /\ CuArea(Area, Top(stack).split, curr, modeType) /\ treeType # "TREE_C"
  BY AtArea DEF AreaOk, TreeOk, IInv, TopInv
<1>2. Area.w \in Sizes /\ Area.h \in Sizes
  BY <1>1 DEF CuArea, SizeOk
<1>3. NoSplit \notin UnderImplicit
  BY DEF UnderImplicit, QtIfAllowed, Bt, Horz, Vert, Quad, NoSplit
<1>4. ImplicitSplit = NoSplit
  BY <1>1, <1>3 DEF Permitted
<1> QED
  BY <1>1, <1>2, <1>4, Prescribed

(* A side divided for the transform keeps the size of a block.             *)
LEMMA DividedSide ==
  ASSUME NEW m \in Sizes, NEW size \in {32, 64}, m <= 2 * size,
         NEW k, k = IF m >= size THEN m \div size ELSE 1
  PROVE  m \div k \in Sizes
<1>1. m = 4 \/ m = 8 \/ m = 16 \/ m = 32 \/ m = 64 \/ m = 128
  BY DEF Sizes
<1>2. \/ k = 1 /\ m <= size /\ m \div k = m
      \/ k = 2 /\ m \div k = 2 * Quarter(m)
  BY HowMany
<1>3. k = 2 => m >= 32
  BY <1>1
<1>4. m >= 32 => 2 * Quarter(m) \in {16, 32, 64}
  BY <1>1 DEF Quarter
<1> QED
  BY <1>2, <1>3, <1>4 DEF Sizes

(* So do the parts of the transform tiling.                                *)
LEMMA MaxTuSizes ==
  ASSUME NEW a \in AreaT, a.w \in Sizes, a.h \in Sizes, cfg.maxTb \in {32, 64},
         a.w > cfg.maxTb \/ a.h > cfg.maxTb, NEW j \in 1 .. Len(MaxTuParts(a))
  PROVE  MaxTuParts(a)[j].w \in Sizes /\ MaxTuParts(a)[j].h \in Sizes
<1> DEFINE size == IF a.w > 64 \/ a.h > 64 THEN 64 ELSE cfg.maxTb
           across == IF a.w >= size THEN a.w \div size ELSE 1
           down == IF a.h >= size THEN a.h \div size ELSE 1
           w == a.w \div across
           h == a.h \div down
<1>1. /\ size \in {32, 64} /\ a.w <= 2 * size /\ a.h <= 2 * size
  BY DEF Sizes
<1>2. MaxTuParts(a) = [i \in 1 .. across * down |->
                 Rect(a.x + w * ((i - 1) % across), a.y + h * ((i - 1) \div across), w, h)]
  BY DEF MaxTuParts
<1> HIDE DEF size
<1>3. w \in Sizes /\ h \in Sizes
  BY <1>1, DividedSide
<1>4. MaxTuParts(a) \in Seq(AreaT)
  BY MaxTuAreas
<1>5. j \in DOMAIN MaxTuParts(a)
  BY <1>4
<1> HIDE DEF across, down, w, h
<1>6. MaxTuParts(a)[j].w = w /\ MaxTuParts(a)[j].h = h
  BY <1>2, <1>5 DEF Rect
<1> QED
  BY <1>3, <1>6

(* A sub-block transform leaves no part empty.                             *)
LEMMA SbtPartSizes ==
  ASSUME NEW a \in AreaT, a.w \in Sizes, a.h \in Sizes, NEW s \in Sbt,
         NEW parts, CutBy(parts, a, s), NEW j \in 1 .. Len(parts)
  PROVE  parts[j].w > 0 /\ parts[j].h > 0 /\ parts[j].w <= a.w /\ parts[j].h <= a.h
<1>0. PICK x \in Nat, y \in Nat, w \in Nat, h \in Nat : x = a.x /\ y = a.y /\ w = a.w /\ h = a.h
  BY AreaRect
<1>0a. PICK q, r : q = Quarter(w) /\ r = Quarter(h)
  OBVIOUS
<1>1. /\ q \in Nat /\ r \in Nat /\ x = a.x /\ y = a.y /\ w = a.w /\ h = a.h
      /\ q = Quarter(w) /\ r = Quarter(h) /\ w = 4 * q /\ h = 4 * r /\ q >= 1 /\ r >= 1
  <2>1. w \in Sizes /\ h \in Sizes
    BY <1>0
  <2>2. /\ w = 4 * q /\ q \in {1, 2, 4, 8, 16, 32}
        /\ h = 4 * r /\ r \in {1, 2, 4, 8, 16, 32}
    BY <1>0a, <2>1, Quarters
  <2>3. \A k \in {1, 2, 4, 8, 16, 32} : k \in Nat /\ k >= 1
    OBVIOUS
  <2>4. q \in Nat /\ q >= 1 /\ r \in Nat /\ r >= 1
    BY <2>2, <2>3, Zenon
  <2> QED
    BY <1>0, <1>0a, <2>2, <2>4, Zenon
<1>2. /\ \A k \in {q, 2 * q, 3 * q} : k \in Nat /\ k > 0 /\ k < w
      /\ \A k \in {r, 2 * r, 3 * r} : k \in Nat /\ k > 0 /\ k < h
      /\ 1 * q = q /\ 1 * r = r /\ w > 0 /\ h > 0
  <2>1. \A m \in Nat : m >= 1 => /\ \A k \in {m, 2 * m, 3 * m} : k \in Nat /\ k > 0 /\ k < 4 * m
                                  /\ 1 * m = m /\ 4 * m > 0
    OBVIOUS
  <2>2. q \in Nat /\ r \in Nat /\ w = 4 * q /\ h = 4 * r /\ q >= 1 /\ r >= 1
    BY <1>1
  <2>3. /\ \A k \in {q, 2 * q, 3 * q} : k \in Nat /\ k > 0 /\ k < w
        /\ 1 * q = q /\ w > 0
    BY <2>1, <2>2
  <2>4. /\ \A k \in {r, 2 * r, 3 * r} : k \in Nat /\ k > 0 /\ k < h
        /\ 1 * r = r /\ h > 0
    BY <2>1, <2>2
  <2> QED
    BY <2>3, <2>4
<1>3. \/ TwoAcross(parts, a, 1 * q) \/ TwoAcross(parts, a, 2 * q) \/ TwoAcross(parts, a, 3 * q)
      \/ TwoDown(parts, a, 1 * r) \/ TwoDown(parts, a, 2 * r) \/ TwoDown(parts, a, 3 * r)
  BY <1>1 DEF CutBy, Sbt, SbtHalf, SbtQuad
<1>4. \/ \E u \in Nat : u > 0 /\ u < w /\ TwoAcross(parts, a, u)
      \/ \E u \in Nat : u > 0 /\ u < h /\ TwoDown(parts, a, u)
  BY <1>2, <1>3
<1>5. CASE \E u \in Nat : u > 0 /\ u < w /\ TwoAcross(parts, a, u)
  <2>1. PICK u \in Nat : u > 0 /\ u < w /\ TwoAcross(parts, a, u)
    BY <1>5
  <2>2. PICK v \in Nat : v = w - u /\ v > 0 /\ v <= w /\ u <= w
    BY <2>1
  <2>3. (j = 1 \/ j = 2) /\ parts[1] = Rect(x, y, u, h) /\ parts[2] = Rect(x + u, y, v, h)
    <3>1. j = 1 \/ j = 2
      BY <2>1 DEF TwoAcross
    <3>2. parts[1] = Rect(x, y, u, h) /\ parts[2] = Rect(x + u, y, v, h)
      BY <1>1, <2>1, <2>2 DEF TwoAcross
    <3> QED
      BY <3>1, <3>2
  <2>4. /\ parts[1].w = u /\ parts[1].h = h /\ parts[2].w = v /\ parts[2].h = h
    BY <2>3 DEF Rect
  <2>5. /\ w <= w /\ h <= h /\ w > 0 /\ h > 0 /\ u > 0 /\ v > 0
    BY <1>2, <2>1, <2>2
  <2> QED
    BY <1>1, <2>1, <2>2, <2>3, <2>4, <2>5
<1>6. CASE \E u \in Nat : u > 0 /\ u < h /\ TwoDown(parts, a, u)
  <2>1. PICK u \in Nat : u > 0 /\ u < h /\ TwoDown(parts, a, u)
    BY <1>6
  <2>2. PICK v \in Nat : v = h - u /\ v > 0 /\ v <= h /\ u <= h
    BY <2>1
  <2>3. (j = 1 \/ j = 2) /\ parts[1] = Rect(x, y, w, u) /\ parts[2] = Rect(x, y + u, w, v)
    <3>1. j = 1 \/ j = 2
      BY <2>1 DEF TwoDown
    <3>2. parts[1] = Rect(x, y, w, u) /\ parts[2] = Rect(x, y + u, w, v)
      BY <1>1, <2>1, <2>2 DEF TwoDown
    <3> QED
      BY <3>1, <3>2
  <2>4. /\ parts[1].w = w /\ parts[1].h = u /\ parts[2].w = w /\ parts[2].h = v
    BY <2>3 DEF Rect
  <2>5. /\ w <= w /\ h <= h /\ w > 0 /\ h > 0 /\ u > 0 /\ v > 0
    BY <1>2, <2>1, <2>2
  <2> QED
    BY <1>1, <2>1, <2>2, <2>3, <2>4, <2>5
<1> QED
  BY <1>4, <1>5, <1>6

(* What lies inside an area of the picture does so too.                    *)
LEMMA WithinInside ==
  ASSUME cfg.picW \in Nat, cfg.picH \in Nat, NEW a \in AreaT, NEW b \in AreaT, Within(b, a), InsidePicture(a)
  PROVE  InsidePicture(b)
<1>1. PICK x \in Nat, y \in Nat, w \in Nat, h \in Nat : x = a.x /\ y = a.y /\ w = a.w /\ h = a.h
  BY AreaRect
<1>2. PICK p \in Nat, q \in Nat, u \in Nat, v \in Nat : p = b.x /\ q = b.y /\ u = b.w /\ v = b.h
  BY AreaRect
<1> QED
  BY <1>1, <1>2 DEF Within, InsidePicture

(* The parts of every transform split the walk takes.                      *)
LEMMA TuParts ==
  ASSUME IInv, CacheInv, TreeInv, GeoInv, NEW s \in TuSplits, SplitTu(s),
         NEW parts, parts = SubPartitions(Area, s)
  PROVE  Tiles(parts, Area) /\ \A j \in 1 .. Len(parts) : TuArea(parts[j], s)
<1>1. at \in {"cu", "tu"} /\ CanSplitTu(s) /\ (at = "cu" => NoSplit \in Permitted)
      /\ (s \in Sbt => at = "cu" /\ SbtAllowed(s))
  BY DEF SplitTu
<1>2. Legal(cfg) /\ Area \in AreaT /\ AreaOk(Area, Top(stack).split, curr, modeType)
  BY <1>1, AtArea
<1>3. /\ cfg.maxTb \in {32, 64} /\ cfg.maxTb \in Nat /\ cfg.picW \in Nat /\ cfg.picH \in Nat
      /\ s \in CuSplits \cup TuSplits /\ (s \in Sbt \/ s = TuMax) /\ TuMax \notin Sbt
  BY <1>2, LegalCfg DEF Legal, TuSplits, Sbt, SbtHalf, SbtQuad, TuMax
<1>4. s = TuMax => (Area.w > cfg.maxTb \/ Area.h > cfg.maxTb)
  BY <1>1 DEF CanSplitTu
<1>5. InsidePicture(Area) /\ Area.w \in Sizes /\ Area.h \in Sizes
  <2>1. CASE at = "cu"
    BY <1>1, <2>1, UnsplitInside
  <2>2. CASE at = "tu"
    <3>1. s = TuMax /\ Top(stack).split \in TuSplits
      BY <1>1, <1>3, <2>2 DEF IInv, TopInv
    <3>2. TuArea(Area, Top(stack).split)
      BY <1>2, <3>1 DEF AreaOk
    <3>3. Top(stack).split \notin Sbt
      <4>1. Area.w \in Nat /\ Area.h \in Nat
        BY <1>2, AreaRect
      <4> QED
        BY <1>3, <1>4, <3>1, <3>2, <4>1 DEF TuArea
    <3>4. Top(stack).split = TuMax
      BY <3>1, <3>3 DEF TuSplits
    <3> QED
      BY <3>2, <3>4 DEF TuArea
  <2> QED
    BY <1>1, <2>1, <2>2
<1>6. CutBy(parts, Area, s)
  BY <1>2, <1>3, <1>4, <1>5, HowSplit
<1>7. Tiles(parts, Area)
  BY <1>2, <1>3, <1>5, <1>6, SplitTiles
<1>8. ASSUME NEW j \in 1 .. Len(parts) PROVE TuArea(parts[j], s)
  <2>1. parts \in Seq(AreaT) /\ parts[j] \in AreaT /\ Within(parts[j], Area)
    BY <1>7 DEF Tiles, PartsApart
  <2>2. InsidePicture(parts[j])
    BY <1>2, <1>3, <1>5, <2>1, WithinInside
  <2>3. CASE s = TuMax
    <3>1. parts = MaxTuParts(Area)
      BY <2>3 DEF SubPartitions, Quad, Vert, Horz, Tt, TriH, TriV, TuMax
    <3>2. parts[j].w \in Sizes /\ parts[j].h \in Sizes
      BY <1>2, <1>3, <1>4, <1>5, <2>3, <3>1, MaxTuSizes
    <3>3. \A k \in Sizes : k > 0
      BY DEF Sizes
    <3> QED
      BY <1>3, <2>2, <2>3, <3>2, <3>3 DEF TuArea
  <2>4. CASE s \in Sbt
    <3>1. parts[j].w > 0 /\ parts[j].h > 0 /\ parts[j].w <= Area.w /\ parts[j].h <= Area.h
      BY <1>2, <1>5, <1>6, <2>4, SbtPartSizes
    <3>2. Area.w <= cfg.maxTb /\ Area.h <= cfg.maxTb
      BY <1>1, <2>4 DEF SbtAllowed
    <3>3. parts[j].w \in Nat /\ parts[j].h \in Nat /\ Area.w \in Nat /\ Area.h \in Nat
      BY <1>2, <2>1, AreaRect
    <3>4. parts[j].w <= cfg.maxTb /\ parts[j].h <= cfg.maxTb
      BY <1>3, <3>1, <3>2, <3>3
    <3> QED
      BY <1>3, <2>2, <2>4, <3>1, <3>4 DEF TuArea
  <2> QED
    BY <1>3, <2>3, <2>4
<1> QED
  BY <1>7, <1>8

(* The CTU itself is square and on the grid.                               *)
LEMMA GeoStart == Init => GeoInv
<1> SUFFICES ASSUME Init PROVE GeoInv
  OBVIOUS
<1>1. /\ Legal(cfg) /\ cfg.ctu \in {32, 64, 128} /\ cfg.picW >= 8 /\ cfg.picH >= 8
      /\ cfg.picW \in Nat /\ cfg.picH \in Nat
  <2>1. Legal(cfg)
    BY ConfigsAssumption DEF Init
  <2>2. cfg.ctu \in {32, 64, 128} /\ cfg.picW \in 8 .. cfg.ctu /\ cfg.picH \in 8 .. cfg.ctu
    BY <2>1 DEF Legal
  <2> QED
    BY <2>1, <2>2
<1> DEFINE a == Rect(0, 0, cfg.ctu, cfg.ctu)
<1>2. /\ Len(stack) = 1 /\ Len(frames) = 0 /\ at = "cu" /\ curr = NoCounters /\ modeType = "ALL"
      /\ stack[1].split = "CTU_LEVEL" /\ stack[1].parts = <<a>> /\ stack[1].idx = 0
  BY DEF Init
<1>3. a.x = 0 /\ a.y = 0 /\ a.w = cfg.ctu /\ a.h = cfg.ctu
  BY DEF Rect
<1>4. AreaOf(stack[1]) = a /\ Area = a /\ Len(stack[1].parts) = 1
  BY <1>2 DEF AreaOf, Area, Top
<1> HIDE DEF a
<1>5. SizeOk(a, "CTU_LEVEL", "ALL")
  <2>1. a.w = a.h /\ (a.w = 32 \/ a.w = 64 \/ a.w = 128)
    BY <1>1, <1>3
  <2>2. a.w \in Sizes /\ a.h \in Sizes /\ (a.w = 128 => a.h >= 64) /\ (a.h = 128 => a.w >= 64)
    BY <2>1 DEF Sizes
  <2>3. ChromaFits(a)
    BY <2>1 DEF ChromaFits
  <2>4. "CTU_LEVEL" \notin Mt
    BY DEF Mt, Bt, Tt, Horz, Vert, TriH, TriV
  <2> QED
    BY <2>1, <2>2, <2>3, <2>4 DEF SizeOk
<1>6. EdgeOk(a, curr)
  <2>1. a.w >= 8 /\ a.h >= 8 /\ a.x % a.w = 0 /\ a.y % a.h = 0
    BY <1>1, <1>3
  <2>2. curr.mt = 0 /\ curr.implicitBt = 0
    BY <1>2 DEF NoCounters
  <2> QED
    BY <2>1, <2>2 DEF EdgeOk
<1>7. AreaOk(a, "CTU_LEVEL", curr, "ALL")
  BY <1>5, <1>6 DEF AreaOk, CuArea, TuSplits, Sbt, SbtHalf, SbtQuad, TuMax
<1>8. ModeOf(1) = "ALL" /\ C(1) = curr /\ curr.mt = 0 /\ curr.bt = 0
  BY <1>2 DEF ModeOf, C, NoCounters
<1>9. InPicture(a.x, a.y)
  BY <1>1, <1>3 DEF InPicture
<1>10. ASSUME NEW j \in 1 .. Len(stack[1].parts)
       PROVE  AreaOk(stack[1].parts[j], stack[1].split, C(1), ModeOf(1))
  <2>1. stack[1].parts[j] = a
    BY <1>2, <1>4
  <2> QED
    BY <1>2, <1>7, <1>8, <2>1
<1>11. GeoAt(1)
  BY <1>2, <1>4, <1>8, <1>9, <1>10 DEF GeoAt
<1> QED
  BY <1>2, <1>11 DEF GeoInv

(* Opening a split adds a level of parts that fit.                         *)
LEMMA GeoPush ==
  ASSUME IInv, GeoInv, at \in {"cu", "tu"}, NEW s \in CuSplits \cup TuSplits, NEW child,
         NEW place \in {"cu", "tu"}, SplitCurrArea(s, child, place), modeType' = child,
         NEW parts, parts = SubPartitions(Area, s), Tiles(parts, Area),
         \A j \in 1 .. Len(parts) :
           AreaOk(parts[j], s, CountersAfterSplit(curr, s, s = ImplicitSplit), child)
  PROVE  GeoInv'
<1> DEFINE d == CountersAfterSplit(curr, s, s = ImplicitSplit)
<1>1. PICK n \in Nat : n = Len(stack) /\ n >= 1 /\ Top(stack) = stack[n]
  BY Here
<1>2. /\ Len(frames) = n - 1 /\ Len(stack') = n + 1 /\ Len(frames') = n /\ cfg' = cfg
      /\ \A i \in 1 .. n - 1 : frames'[i] = frames[i]
      /\ frames'[n] = Frame(child)
      /\ \A i \in 1 .. n : SameLevel(i) /\ C(i)' = C(i)
      /\ stack'[n + 1].split = s /\ stack'[n + 1].idx = 0 /\ stack'[n + 1].parts = parts
  BY <1>1, PushShape
<1>3. at' = place
  BY DEF SplitCurrArea
<1>4. PICK qg, q : curr' = QgMove(d, qg, q)
  BY DEF SplitCurrArea
<1>5. curr'.mt = d.mt /\ curr'.implicitBt = d.implicitBt /\ curr'.bt = d.bt
  BY <1>4 DEF QgMove, CountersAfterSplit
<1>6. s = Quad => d.mt = 0 /\ d.bt = 0
  BY DEF CountersAfterSplit
<1> HIDE DEF d
<1>7. ASSUME NEW i \in 1 .. n PROVE GeoAt(i)'
  <2>1. GeoAt(i) /\ SameLevel(i) /\ C(i)' = C(i) /\ (i > 1 => SameLevel(i - 1))
    BY <1>1, <1>2 DEF GeoInv
  <2>2. ModeOf(i)' = ModeOf(i)
    <3>1. i = n \/ i \in 1 .. n - 1
      BY <1>1
    <3>2. i = n => ModeOf(i) = modeType /\ frames'[i].mode = modeType
      BY <1>1, <1>2 DEF ModeOf, Frame
    <3> QED
      BY <1>2, <3>1, <3>2 DEF ModeOf
  <2>3. InPicture(AreaOf(stack'[i]).x, AreaOf(stack'[i]).y)
    BY <2>1 DEF SameLevel, AreaOf, GeoAt
  <2> QED
    BY <1>1, <1>2, <2>1, <2>2, <2>3, GeoKept DEF SameLevel
<1>8. GeoAt(n + 1)'
  <2>1. (\A j \in 1 .. Len(parts) : AreaOk(parts[j], s, curr', child))
    BY <1>5, SameArea DEF d
  <2>2. ASSUME NEW j \in 1 .. Len(parts) PROVE AreaOk(parts[j], s, curr, child)'
    <3>1. AreaOk(parts[j], s, curr', child)
      BY <2>1
    <3> QED
      BY <1>2, <3>1 DEF AreaOk, CuArea, SizeOk, EdgeOk, TuArea, Straddles, InsidePicture, InPicture,
         NeedsChroma, ChromaFits
  <2>3. (C(n + 1))' = curr' /\ ModeOf(n + 1)' = child
    BY <1>1, <1>2 DEF C, ModeOf
  <2>4. (\A j \in 1 .. Len(stack[n + 1].parts) :
           AreaOk(stack[n + 1].parts[j], stack[n + 1].split, C(n + 1), ModeOf(n + 1)))'
    BY <1>2, <2>2, <2>3
  <2>5. (stack[n + 1].split \in {"CTU_LEVEL", Quad} => C(n + 1).mt = 0 /\ C(n + 1).bt = 0)'
    <3>1. s # "CTU_LEVEL"
      BY DEF CuSplits, TuSplits, Mt, Bt, Tt, Sbt, SbtHalf, SbtQuad, TuMax, Quad, Horz, Vert, TriH, TriV
    <3> QED
      BY <1>2, <1>5, <1>6, <2>3, <3>1
  <2>6. AreaOf(stack'[n + 1]) = parts[1] /\ AreaOf(stack'[n]) = Area
    <3>1. SameLevel(n)
      BY <1>1, <1>2
    <3> QED
      BY <1>1, <1>2, <3>1 DEF SameLevel, AreaOf, Area
  <2>7. InPicture(parts[1].x, parts[1].y)
    <3>1. parts[1].x = Area.x /\ parts[1].y = Area.y
      BY DEF Tiles, Pos
    <3>2. InPicture(Area.x, Area.y)
      BY <1>1 DEF GeoInv, GeoAt, Area
    <3> QED
      BY <3>1, <3>2
  <2>8. InPicture(AreaOf(stack[n + 1]).x, AreaOf(stack[n + 1]).y)'
    BY <1>2, <2>6, <2>7 DEF InPicture
  <2>9. (n + 1 > 1 => PartsApart(stack[n + 1].parts, AreaOf(stack[n + 1 - 1])))'
    <3>1. PartsApart(parts, Area) /\ n + 1 - 1 = n
      BY <1>1 DEF Tiles
    <3> QED
      BY <1>2, <2>6, <3>1
  <2> QED
    BY <1>1, <2>4, <2>5, <2>8, <2>9 DEF GeoAt
<1>9. \A i \in 1 .. n + 1 : i \in 1 .. n \/ i = n + 1
  BY <1>1
<1> QED
  BY <1>2, <1>3, <1>7, <1>8, <1>9 DEF GeoInv

(* The parts of an open split are areas, the current one among them.       *)
LEMMA LevelParts ==
  ASSUME IInv, NEW i \in 1 .. Len(stack)
  PROVE  /\ stack[i].parts \in Seq(AreaT) /\ stack[i].idx \in Nat
         /\ i < Len(stack) \/ at # "past" =>
              stack[i].idx + 1 \in 1 .. Len(stack[i].parts) /\ AreaOf(stack[i]) \in AreaT
<1>1. stack[i] \in Level
  BY DEF IInv, TypeInv
<1>2. stack[i].parts \in Seq(AreaT) /\ stack[i].idx \in Nat
  BY <1>1 DEF Level
<1>3. i < Len(stack) \/ at # "past" => stack[i].idx < Len(stack[i].parts)
  BY DEF IInv, LevelInv, PlaceAt, PlaceOf
<1>4. ASSUME i < Len(stack) \/ at # "past"
      PROVE  stack[i].idx + 1 \in 1 .. Len(stack[i].parts) /\ AreaOf(stack[i]) \in AreaT
  BY <1>2, <1>3, <1>4 DEF AreaOf
<1> QED
  BY <1>2, <1>4

(* Coding leaves the areas as they are.                                    *)
LEMMA GeoStay ==
  ASSUME IInv, GeoInv, Leaf \/ CodeTu \/ CodeLocalChroma \/ UNCHANGED vars
  PROVE  GeoInv'
<1>1. PICK n \in Nat : n = Len(stack) /\ n >= 1 /\ Top(stack) = stack[n]
  BY Here
<1>2. /\ Len(stack') = n /\ cfg' = cfg /\ curr' = curr
      /\ \A i \in 1 .. n : SameLevel(i) /\ C(i)' = C(i)
      /\ \A i \in 1 .. n - 1 : frames'[i] = frames[i]
      /\ ~CodeLocalChroma => frames' = frames
      /\ CodeLocalChroma => /\ at = "chroma" /\ Len(frames) = n /\ Len(frames') = n - 1
                            /\ Top(frames) = frames[n]
  BY <1>1, StayShape
<1>3. /\ at' \in {"cu", "tu", "chroma"} => at \in {"cu", "tu", "chroma"}
      /\ at' = "out" => at = "out"
      /\ ~CodeLocalChroma => modeType' = modeType
      /\ CodeLocalChroma => modeType' = Top(frames).mode
  BY DEF Leaf, CodeTu, CodeLocalChroma, Recover, vars, walkVars
<1>4. ASSUME NEW i \in 1 .. n PROVE ModeOf(i)' = ModeOf(i)
  <2>1. CASE CodeLocalChroma
    <3>1. i = n \/ i \in 1 .. n - 1
      BY <1>1
    <3> QED
      BY <1>1, <1>2, <1>3, <2>1, <3>1 DEF ModeOf
  <2>2. CASE ~CodeLocalChroma
    BY <1>2, <1>3, <2>2 DEF ModeOf
  <2> QED
    BY <2>1, <2>2
<1>5. ASSUME NEW i \in 1 .. n PROVE GeoAt(i)'
  <2>1. GeoAt(i) /\ SameLevel(i) /\ C(i)' = C(i) /\ (i > 1 => SameLevel(i - 1))
    BY <1>1, <1>2 DEF GeoInv
  <2>2. AreaOf(stack'[i]) = AreaOf(stack[i])
    BY <2>1 DEF SameLevel, AreaOf
  <2>3. i < Len(stack') \/ at' \in {"cu", "tu", "chroma"} =>
          InPicture(AreaOf(stack'[i]).x, AreaOf(stack'[i]).y)
    BY <1>1, <1>2, <1>3, <2>1, <2>2 DEF GeoAt
  <2> QED
    BY <1>1, <1>2, <1>4, <2>1, <2>3, GeoKept DEF SameLevel
<1>6. (at = "out" => ~InPicture(Area.x, Area.y))'
  <2>1. Area' = Area
    BY <1>1, <1>2 DEF Area, Top, SameLevel, AreaOf
  <2> QED
    BY <1>2, <1>3, <2>1 DEF GeoInv, InPicture
<1> QED
  BY <1>2, <1>5, <1>6 DEF GeoInv

(* The part gone on to is coded only if it lies in the picture.            *)
LEMMA GeoNext == ASSUME IInv, GeoInv, NextPart PROVE GeoInv'
<1>1. PICK n \in Nat : n = Len(stack) /\ n > 1 /\ Top(stack) = stack[n] /\ C(n) = curr
  BY Here DEF NextPart
<1>2. /\ Len(frames) = n - 1 /\ cfg' = cfg /\ Len(stack') = n /\ Len(frames') = n - 1
      /\ \A i \in 1 .. n - 1 : SameLevel(i) /\ C(i)' = C(i)
      /\ stack'[n].split = stack[n].split /\ stack'[n].parts = stack[n].parts
      /\ stack'[n].idx = stack[n].idx + 1
      /\ \A i \in 1 .. n - 2 : frames'[i] = frames[i]
      /\ frames'[n - 1] = [frames[n - 1] EXCEPT !.done = @ + coded]
      /\ frames[n - 1] \in FrameT
      /\ curr'.mt = curr.mt /\ curr'.implicitBt = curr.implicitBt
      /\ stack[n].split \notin Tt => curr'.bt = curr.bt
  BY <1>1, MoveShape
<1>3. modeType' = modeType /\ C(n)' = curr'
  BY <1>2 DEF NextPart, walkVars, C
<1>4. ASSUME NEW i \in 1 .. n PROVE ModeOf(i)' = ModeOf(i)
  <2>1. frames'[n - 1].mode = frames[n - 1].mode
    BY <1>2 DEF FrameT
  <2>2. i = n \/ i \in 1 .. n - 1
    BY <1>1
  <2>3. ASSUME i \in 1 .. n - 1 PROVE frames'[i].mode = frames[i].mode
    <3>1. i = n - 1 \/ i \in 1 .. n - 2
      BY <1>1, <2>3
    <3> QED
      BY <1>2, <2>1, <3>1
  <2>4. i = n => ModeOf(i) = modeType /\ ModeOf(i)' = modeType
    BY <1>1, <1>2, <1>3 DEF ModeOf
  <2> QED
    BY <1>1, <1>2, <2>2, <2>3, <2>4 DEF ModeOf
<1>5. ASSUME NEW i \in 1 .. n - 1 PROVE GeoAt(i)'
  <2>1. GeoAt(i) /\ SameLevel(i) /\ C(i)' = C(i) /\ (i > 1 => SameLevel(i - 1)) /\ i \in 1 .. n
    BY <1>1, <1>2 DEF GeoInv
  <2>2. InPicture(AreaOf(stack'[i]).x, AreaOf(stack'[i]).y)
    <3>1. InPicture(AreaOf(stack[i]).x, AreaOf(stack[i]).y)
      BY <1>1, <2>1 DEF GeoAt
    <3> QED
      BY <2>1, <3>1 DEF SameLevel, AreaOf
  <2> QED
    BY <1>1, <1>2, <1>4, <2>1, <2>2, GeoKept DEF SameLevel
<1> DEFINE level == [Top(stack) EXCEPT !.idx = @ + 1, !.checkdIfImplicit = FALSE]
           last == Past(level)
           outside == ~InPicture(AreaOf(level).x, AreaOf(level).y)
<1>6. /\ stack' = WithTop(stack, level)
      /\ at' = IF last THEN "past"
               ELSE IF level.split \in TuSplits THEN "tu"
               ELSE IF outside THEN "out" ELSE "cu"
  BY DEF NextPart
<1>7. stack'[n] = level /\ Top(stack') = level /\ level.split = stack[n].split
      /\ level.parts = stack[n].parts /\ level.idx = stack[n].idx + 1 /\ stack[n].idx \in Nat
  <2>1. stack \in Seq(Level) /\ stack[n] \in Level
    BY <1>1, Here
  <2> HIDE DEF level
  <2>2. stack'[n] = level /\ Top(stack') = level
    BY <1>1, <1>2, <1>6, <2>1 DEF WithTop, Top
  <2> QED
    BY <1>1, <2>1, <2>2 DEF level, Level
<1> HIDE DEF level
<1>8. ASSUME at' \in {"cu", "tu", "chroma"} PROVE InPicture(AreaOf(stack'[n]).x, AreaOf(stack'[n]).y)
  <2>1. CASE at' = "tu"
    <3>1. ~last /\ level.split \in TuSplits
      BY <1>6, <2>1
    <3>2. stack[n].parts \in Seq(AreaT)
      BY <1>1, LevelParts
    <3>3. PICK k \in 1 .. Len(stack[n].parts) : k = level.idx + 1 /\ AreaOf(level) = stack[n].parts[k]
      <4>1. level.idx \in Nat /\ level.idx < Len(level.parts) /\ Len(level.parts) \in Nat
        BY <1>7, <3>1, <3>2 DEF Past
      <4> QED
        BY <1>7, <4>1 DEF AreaOf
    <3>4. TuArea(stack[n].parts[k], stack[n].split) /\ stack[n].parts[k] \in AreaT
      <4>1. GeoAt(n)
        BY <1>1 DEF GeoInv
      <4> QED
        BY <1>7, <3>1, <3>2, <4>1 DEF GeoAt, AreaOk
    <3>5. InPicture(stack[n].parts[k].x, stack[n].parts[k].y)
      <4>1. PICK b \in AreaT : b = stack[n].parts[k]
        BY <3>4
      <4>2. PICK x \in Nat, y \in Nat, w \in Nat, h \in Nat :
              x = b.x /\ y = b.y /\ w = b.w /\ h = b.h
        BY AreaRect
      <4>3. x + w <= cfg.picW /\ y + h <= cfg.picH /\ w > 0 /\ h > 0
        BY <3>4, <4>1, <4>2 DEF TuArea, InsidePicture
      <4>4. x < cfg.picW /\ y < cfg.picH
        BY <4>3, LegalCfg
      <4> QED
        BY <4>1, <4>2, <4>4 DEF InPicture
    <3> QED
      BY <1>7, <3>3, <3>5
  <2>2. CASE at' = "cu"
    BY <1>6, <1>7, <2>2
  <2>3. at' # "chroma"
    BY <1>6
  <2> QED
    BY <1>8, <2>1, <2>2, <2>3
<1>9. GeoAt(n)'
  <2>1. GeoAt(n) /\ SameLevel(n - 1) /\ n \in 1 .. Len(stack)
    BY <1>1, <1>2 DEF GeoInv
  <2>2. C(n)'.mt = C(n).mt /\ C(n)'.implicitBt = C(n).implicitBt
        /\ (stack[n].split \notin Tt => C(n)'.bt = C(n).bt)
    BY <1>1, <1>2, <1>3
  <2>3. n < Len(stack') \/ at' \in {"cu", "tu", "chroma"} =>
          InPicture(AreaOf(stack'[n]).x, AreaOf(stack'[n]).y)
    BY <1>1, <1>2, <1>8
  <2> QED
    BY <1>1, <1>2, <1>4, <2>1, <2>2, <2>3, GeoKept
<1>10. (at = "out" => ~InPicture(Area.x, Area.y))'
  <2>1. Area' = AreaOf(level)
    BY <1>7 DEF Area
  <2>2. at' = "out" => outside
    BY <1>6
  <2> QED
    BY <1>2, <2>1, <2>2 DEF InPicture
<1>11. \A i \in 1 .. n : i \in 1 .. n - 1 \/ i = n
  BY <1>1
<1> QED
  BY <1>2, <1>5, <1>9, <1>10, <1>11 DEF GeoInv

(* Leaving a split gives back the CU it divided.                           *)
LEMMA GeoPop ==
  ASSUME IInv, GeoInv, ExitCurrSplit \/ EnterLocalChroma \/ Abort
  PROVE  GeoInv'
<1>1. PICK n \in Nat : n = Len(stack) /\ n >= 1 /\ Top(stack) = stack[n]
  BY Here
<1>2. /\ n > 1 /\ at # "chroma" /\ Popped /\ cfg' = cfg /\ at' # "out"
      /\ \/ EnterLocalChroma /\ frames' = frames /\ modeType' = modeType
         \/ ~EnterLocalChroma /\ frames' = Pop(frames) /\ modeType' = Top(frames).mode
  <2>1. CASE ExitCurrSplit
    BY <1>1, <2>1 DEF ExitCurrSplit, EnterLocalChroma, Recover, PlaceBelow, IInv, TopInv
  <2>2. CASE EnterLocalChroma
    BY <1>1, <2>2 DEF EnterLocalChroma, IInv, TopInv
  <2>3. CASE Abort
    BY <1>1, <2>3 DEF Abort, EnterLocalChroma, Recover
  <2> QED
    BY <2>1, <2>2, <2>3
<1>3. /\ Len(frames) = n - 1 /\ Len(stack') = n - 1 /\ Top(frames) = frames[n - 1]
      /\ \A i \in 1 .. n - 1 : SameLevel(i) /\ C(i)' = C(i)
      /\ \A i \in 1 .. n - 2 : frames'[i] = frames[i]
      /\ frames' = Pop(frames) => Len(frames') = n - 2
  BY <1>1, <1>2, PopShape
<1>4. ASSUME NEW i \in 1 .. n - 1 PROVE ModeOf(i)' = ModeOf(i)
  <2>1. CASE EnterLocalChroma
    BY <1>2, <1>3, <2>1 DEF ModeOf
  <2>2. CASE ~EnterLocalChroma
    <3>1. i = n - 1 \/ i \in 1 .. n - 2
      BY <1>1
    <3> QED
      BY <1>1, <1>2, <1>3, <2>2, <3>1 DEF ModeOf
  <2> QED
    BY <2>1, <2>2
<1>5. ASSUME NEW i \in 1 .. n - 1 PROVE GeoAt(i)'
  <2>1. GeoAt(i) /\ SameLevel(i) /\ C(i)' = C(i) /\ (i > 1 => SameLevel(i - 1)) /\ i \in 1 .. n
    BY <1>1, <1>3 DEF GeoInv
  <2>2. InPicture(AreaOf(stack'[i]).x, AreaOf(stack'[i]).y)
    <3>1. InPicture(AreaOf(stack[i]).x, AreaOf(stack[i]).y)
      BY <1>1, <2>1 DEF GeoAt
    <3> QED
      BY <2>1, <3>1 DEF SameLevel, AreaOf
  <2> QED
    BY <1>1, <1>2, <1>4, <2>1, <2>2, GeoKept DEF SameLevel
<1> QED
  BY <1>2, <1>3, <1>5 DEF GeoInv

(* Every step leaves the areas in order.                                   *)
LEMMA GeoStep == ASSUME IInv, CacheInv, TreeInv, GeoInv, [Next]_vars PROVE GeoInv'
<1>1. ASSUME NEW s \in CuSplits, NEW m, Split(s, m) PROVE GeoInv'
  <2>1. /\ at = "cu" /\ s \in Permitted /\ s # NoSplit /\ m \in ChildModes(s)
        /\ SplitCurrArea(s, m, "cu") /\ modeType' = m
    BY <1>1 DEF Split
  <2>2. /\ Tiles(SubPartitions(Area, s), Area)
        /\ \A j \in 1 .. Len(SubPartitions(Area, s)) :
             CuArea(SubPartitions(Area, s)[j], s, CountersAfterSplit(curr, s, s = ImplicitSplit), m)
    BY <2>1, PermittedParts
  <2>3. s \notin TuSplits
    BY Kinds
  <2>4. \A j \in 1 .. Len(SubPartitions(Area, s)) :
          AreaOk(SubPartitions(Area, s)[j], s, CountersAfterSplit(curr, s, s = ImplicitSplit), m)
    BY <2>2, <2>3 DEF AreaOk
  <2> QED
    BY <2>1, <2>2, <2>4, GeoPush
<1>2. ASSUME NEW s \in TuSplits, SplitTu(s) PROVE GeoInv'
  <2>1. at \in {"cu", "tu"} /\ SplitCurrArea(s, modeType, "tu") /\ modeType' = modeType
    BY <1>2 DEF SplitTu
  <2>2. /\ Tiles(SubPartitions(Area, s), Area)
        /\ \A j \in 1 .. Len(SubPartitions(Area, s)) : TuArea(SubPartitions(Area, s)[j], s)
    BY <1>2, TuParts
  <2>3. \A j \in 1 .. Len(SubPartitions(Area, s)) :
          AreaOk(SubPartitions(Area, s)[j], s, CountersAfterSplit(curr, s, s = ImplicitSplit), modeType)
    BY <2>2 DEF AreaOk
  <2> QED
    BY <2>1, <2>2, <2>3, GeoPush
<1> QED
  BY <1>1, <1>2, GeoStay, GeoNext, GeoPop DEF Next

(* The areas are in order in every state.                                  *)
LEMMA GeoInvariance == Spec => [](IInv /\ CacheInv /\ TreeInv /\ GeoInv)
<1>1. IInv /\ CacheInv /\ TreeInv /\ GeoInv /\ [Next]_vars => GeoInv'
  BY GeoStep
<1> QED
  BY <1>1, GeoStart, Invariance, CacheInvariance, TreeInvariance, PTL DEF Spec

(* NoCheckFires: none of the CHECKs of splitCurrArea and                   *)
(* getCUSubPartitions can end the encoder, whatever slice and picture.     *)
THEOREM NeverThrows == Spec => []NoCheckFires
  BY GeoInvariance, NothingThrows, PTL

(* Four chroma samples in a row and sixteen in all.                        *)
LEMMA ChromaOf ==
  ASSUME NEW a \in AreaT, a.w \in Sizes, a.h \in Sizes
  PROVE  /\ a.w * a.h \in Nat
         /\ ChromaFits(a) => (a.w \div 2) * (a.h \div 2) >= 16 /\ a.w \div 2 >= 4 /\ a.w * a.h > 16
<1>1. PICK n \in {1, 2, 4, 8, 16, 32, 64, 128, 256, 512, 1024} :
        a.w * a.h = 16 * n /\ (a.w \div 2) * (a.h \div 2) = 4 * n
  BY InBlocks
<1>2. n \in Nat
  OBVIOUS
<1>3. ChromaFits(a) => 4 * n >= 16 /\ 16 * n > 16
  <2>1. ChromaFits(a) => 16 * n >= 64
    BY <1>1 DEF ChromaFits
  <2> QED
    BY <1>2, <2>1
<1>4. ChromaFits(a) => a.w \div 2 >= 4
  BY DEF ChromaFits, Sizes
<1> QED
  BY <1>1, <1>2, <1>3, <1>4

(* BlocksLargeEnough: signalModeCons and the local dual tree keep every    *)
(* block codable.                                                          *)
THEOREM EveryBlockCodable == Spec => []BlocksLargeEnough
<1>1. ASSUME IInv, CacheInv, TreeInv, GeoInv PROVE BlocksLargeEnough
  <2>1. PICK n \in Nat : n = Len(stack) /\ n >= 1 /\ Top(stack) = stack[n] /\ C(n) = curr
    BY <1>1, Here
  <2>2. Legal(cfg) /\ modeType \in ModeT
    BY <1>1, LegalCfg DEF IInv, TypeInv
  <2>3. ASSUME at \in {"cu", "chroma"}
        PROVE  Area \in AreaT /\ SizeOk(Area, Top(stack).split, ModeOf(n))
    <3>1. GeoAt(n) /\ stack[n].idx + 1 \in 1 .. Len(stack[n].parts) /\ AreaOf(stack[n]) \in AreaT
      BY <1>1, <2>1, <2>3, LevelParts DEF GeoInv
    <3>2. stack[n].split \notin TuSplits
      BY <1>1, <2>1, <2>3 DEF IInv, TopInv
    <3>3. CuArea(AreaOf(stack[n]), stack[n].split, C(n), ModeOf(n))
      BY <3>1, <3>2 DEF GeoAt, AreaOk, AreaOf
    <3> QED
      BY <2>1, <3>1, <3>3 DEF Area, CuArea
  <2>4. ASSUME at \in {"cu", "chroma"}
        PROVE  /\ Area.w * Area.h \in Nat
               /\ NeedsChroma(ModeOf(n)) => ChromaSize >= 16 /\ ChromaW >= 4 /\ Area.w * Area.h > 16
               /\ ~cfg.dualITree /\ ModeOf(n) = "INTER" => Area.w * Area.h >= 32
    BY <2>3, <2>4, ChromaOf DEF SizeOk, ChromaSize, ChromaW
  <2>5. at = "cu" => ModeOf(n) = modeType /\ TreeOk(chType, treeType, modeType)
    BY <1>1, <2>1 DEF IInv, TypeInv, ModeOf, TreeInv
  <2>6. at = "chroma" => ModeOf(n) = "ALL" /\ ~cfg.dualITree
    BY <1>1, <2>1 DEF IInv, TypeInv, ModeOf, TreeInv
  <2>7. ASSUME at = "chroma" PROVE ChromaSize >= 16 /\ ChromaW >= 4
    BY <2>4, <2>6, <2>7 DEF NeedsChroma
  <2>8. ASSUME at = "cu", treeType = "TREE_D", ~cfg.dualITree \/ IsChroma, modeType # "INTER"
        PROVE  ChromaSize >= 16 /\ ChromaW >= 4
    <3>1. NeedsChroma(modeType)
      BY <2>2, <2>5, <2>8 DEF TreeOk, NeedsChroma, ModeT, IsChroma
    <3> QED
      BY <2>4, <2>5, <2>8, <3>1
  <2>9. ASSUME at = "cu", ~cfg.intra, modeType # "INTRA" PROVE Area.w * Area.h > 16
    <3>1. ~cfg.dualITree
      BY <2>2, <2>9 DEF Legal
    <3>2. CASE modeType = "ALL"
      BY <2>4, <2>5, <2>9, <3>1, <3>2 DEF NeedsChroma
    <3>3. CASE modeType = "INTER"
      BY <2>4, <2>5, <2>9, <3>1, <3>3
    <3> QED
      BY <2>2, <2>9, <3>2, <3>3 DEF ModeT
  <2> QED
    BY <2>7, <2>8, <2>9 DEF BlocksLargeEnough
<1> QED
  BY <1>1, GeoInvariance, PTL

----------------------------------------------------------------------------
(* SumInv.                                                                 *)

(* An area inside the picture is visible as a whole, one beyond it not.    *)
LEMMA WholeVisible ==
  ASSUME cfg.picW \in Nat, cfg.picH \in Nat, NEW a \in AreaT
  PROVE  /\ InPicture(a.x, a.y) /\ InsidePicture(a) => Visible(a) = a.w * a.h
         /\ ~InPicture(a.x, a.y) => Visible(a) = 0
<1>1. PICK x \in Nat, y \in Nat, w \in Nat, h \in Nat, p \in Nat, q \in Nat :
        x = a.x /\ y = a.y /\ w = a.w /\ h = a.h /\ p = cfg.picW /\ q = cfg.picH
  BY AreaRect
<1>2. x + w <= p => MinOf(w, p - x) = w
  BY DEF MinOf
<1>3. y + h <= q => MinOf(h, q - y) = h
  BY DEF MinOf
<1> QED
  BY <1>1, <1>2, <1>3 DEF Visible, InPicture, InsidePicture

(* One part more adds what it has in the picture.                          *)
LEMMA OnePartMore ==
  ASSUME cfg.picW \in Nat, cfg.picH \in Nat, NEW parts \in Seq(AreaT), Len(parts) <= 4,
         NEW k \in Nat, k + 1 \in 1 .. Len(parts)
  PROVE  VisibleOf(parts, k + 1) = VisibleOf(parts, k) + Visible(parts[k + 1])
<1>1. k = 0 \/ k = 1 \/ k = 2 \/ k = 3
  OBVIOUS
<1>2. ASSUME NEW i \in 1 .. Len(parts) PROVE Visible(parts[i]) \in Nat
  BY AreaVisible
<1>3. PICK m \in Nat, n \in Nat, p \in Nat, q \in Nat :
        /\ 1 \in 1 .. Len(parts) => m = Visible(parts[1])
        /\ 2 \in 1 .. Len(parts) => n = Visible(parts[2])
        /\ 3 \in 1 .. Len(parts) => p = Visible(parts[3])
        /\ 4 \in 1 .. Len(parts) => q = Visible(parts[4])
  BY <1>2
<1>4. Len(parts) >= k + 1
  OBVIOUS
<1>5. CASE k = 0
  BY <1>3, <1>4, <1>5 DEF VisibleOf
<1>6. CASE k = 1
  BY <1>3, <1>4, <1>6 DEF VisibleOf
<1>7. CASE k = 2
  BY <1>3, <1>4, <1>7 DEF VisibleOf
<1>8. CASE k = 3
  BY <1>3, <1>4, <1>8 DEF VisibleOf
<1> QED
  BY <1>1, <1>5, <1>6, <1>7, <1>8

(* A level that keeps its part, what its frame has of it, and what the     *)
(* frame below has as done.                                                *)
LEMMA SumKept ==
  ASSUME cfg' = cfg, NEW i \in 1 .. Len(stack), SumAt(i), SameLevel(i),
         i > 1 => SameLevel(i - 1) /\ frames'[i - 1].done = frames[i - 1].done,
         i <= Len(frames') => frames'[i].coded \in {0, Visible(AreaOf(stack[i]))}
  PROVE  SumAt(i)'
<1>1. AreaOf(stack'[i]) = AreaOf(stack[i])
  BY DEF SameLevel, AreaOf
<1>2. i > 1 => AreaOf(stack'[i - 1]) = AreaOf(stack[i - 1])
  BY DEF SameLevel, AreaOf
<1>3. /\ Visible(AreaOf(stack[i]))' = Visible(AreaOf(stack[i]))
      /\ i > 1 => Visible(AreaOf(stack[i - 1]))' = Visible(AreaOf(stack[i - 1]))
  BY <1>1, <1>2 DEF Visible, InPicture
<1>4. \A k : VisibleOf(stack[i].parts, k)' = VisibleOf(stack[i].parts, k)
  BY DEF VisibleOf, Visible, InPicture, SameLevel
<1>5. (i <= Len(frames) => frames[i].coded \in {0, Visible(AreaOf(stack[i]))})'
  BY <1>3
<1>6. ASSUME i > 1
      PROVE  (/\ Len(stack[i].parts) <= 4
              /\ VisibleOf(stack[i].parts, Len(stack[i].parts)) = Visible(AreaOf(stack[i - 1]))
              /\ frames[i - 1].done = VisibleOf(stack[i].parts, stack[i].idx))'
  BY <1>3, <1>4, <1>6 DEF SumAt, SameLevel, VisibleOf, Visible, InPicture
<1> QED
  BY <1>5, <1>6 DEF SumAt

(* Nothing is coded at first.                                              *)
LEMMA SumStart == Init => SumInv
<1> SUFFICES ASSUME Init PROVE SumInv
  OBVIOUS
<1>1. Len(stack) = 1 /\ Len(frames) = 0 /\ at = "cu" /\ coded = 0
  BY DEF Init
<1> QED
  BY <1>1 DEF SumInv, SumAt

(* Coding a CU or a TU, or the chroma of an intra region, gives what its   *)
(* area has in the picture.                                                *)
LEMMA SumStay ==
  ASSUME IInv, CacheInv, TreeInv, GeoInv, SumInv, Leaf \/ CodeTu \/ CodeLocalChroma \/ UNCHANGED vars
  PROVE  SumInv'
<1>1. PICK n \in Nat : n = Len(stack) /\ n >= 1 /\ Top(stack) = stack[n]
  BY Here
<1>2. /\ Len(stack') = n /\ cfg' = cfg
      /\ \A i \in 1 .. n : SameLevel(i)
      /\ \A i \in 1 .. n - 1 : frames'[i] = frames[i]
      /\ ~CodeLocalChroma => frames' = frames
      /\ CodeLocalChroma => /\ at = "chroma" /\ Len(frames) = n /\ Len(frames') = n - 1
                            /\ Top(frames) = frames[n]
  BY <1>1, StayShape
<1>3. Area' = Area /\ Visible(Area)' = Visible(Area)
  <2>1. Area' = Area
    BY <1>1, <1>2 DEF Area, Top, SameLevel, AreaOf
  <2> QED
    BY <1>2, <2>1 DEF Visible, InPicture
<1>4. ASSUME NEW i \in 1 .. n PROVE SumAt(i)'
  <2>1. SumAt(i) /\ SameLevel(i)
    BY <1>1, <1>2 DEF SumInv
  <2>2. i > 1 => SameLevel(i - 1) /\ frames'[i - 1].done = frames[i - 1].done
    BY <1>1, <1>2
  <2>3. i <= Len(frames') => i <= Len(frames) /\ frames'[i].coded = frames[i].coded
    BY <1>1, <1>2
  <2> QED
    BY <1>1, <1>2, <2>1, <2>2, <2>3, SumKept DEF SumAt
<1>5. cfg.picW \in Nat /\ cfg.picH \in Nat
  BY LegalCfg
<1>6. CASE Leaf
  <2>1. at = "cu" /\ NoSplit \in Permitted /\ coded' = Area.w * Area.h /\ at' = at
    BY <1>6 DEF Leaf
  <2>2. InsidePicture(Area)
    BY <2>1, UnsplitInside
  <2>3. Area \in AreaT /\ InPicture(Area.x, Area.y)
    BY <2>1, AtArea
  <2>4. coded' = Visible(Area)
    BY <1>5, <2>1, <2>2, <2>3, WholeVisible
  <2> QED
    BY <1>2, <1>3, <1>4, <2>1, <2>4 DEF SumInv
<1>7. CASE CodeTu
  <2>1. at = "tu" /\ coded' = Area.w * Area.h /\ at' = at
    BY <1>7 DEF CodeTu
  <2>2. Area \in AreaT /\ InPicture(Area.x, Area.y) /\ AreaOk(Area, Top(stack).split, curr, modeType)
    BY <2>1, AtArea
  <2>3. InsidePicture(Area)
    BY <2>1, <2>2 DEF AreaOk, TuArea, IInv, TopInv
  <2>4. coded' = Visible(Area)
    BY <1>5, <2>1, <2>2, <2>3, WholeVisible
  <2> QED
    BY <1>2, <1>3, <1>4, <2>1, <2>4 DEF SumInv
<1>8. CASE CodeLocalChroma
  <2>1. at = "chroma" /\ at' = "cu" /\ coded' = frames[n].done
    BY <1>2, <1>8 DEF CodeLocalChroma
  <2>2. coded' = Visible(Area)
    BY <1>1, <2>1 DEF SumInv
  <2> QED
    BY <1>2, <1>3, <1>4, <2>1, <2>2 DEF SumInv
<1>9. CASE UNCHANGED vars
  <2>1. at' = at /\ coded' = coded /\ frames' = frames /\ stack' = stack
    BY <1>9 DEF vars
  <2> QED
    BY <1>1, <1>2, <1>3, <1>4, <2>1 DEF SumInv
<1> QED
  BY <1>6, <1>7, <1>8, <1>9

(* The parts of a new split have in the picture what their area has.       *)
LEMMA SumPush ==
  ASSUME IInv, SumInv, at \in {"cu", "tu"}, NEW s, NEW child, NEW place \in {"cu", "tu"},
         SplitCurrArea(s, child, place),
         NEW parts, parts = SubPartitions(Area, s), Tiles(parts, Area)
  PROVE  SumInv'
<1>1. PICK n \in Nat : n = Len(stack) /\ n >= 1 /\ Top(stack) = stack[n]
  BY Here
<1>2. /\ Len(frames) = n - 1 /\ Len(stack') = n + 1 /\ Len(frames') = n /\ cfg' = cfg
      /\ \A i \in 1 .. n - 1 : frames'[i] = frames[i]
      /\ frames'[n] = Frame(child)
      /\ \A i \in 1 .. n : SameLevel(i)
      /\ stack'[n + 1].idx = 0 /\ stack'[n + 1].parts = parts
  BY <1>1, PushShape
<1>3. at' = place /\ coded' = 0
  BY DEF SplitCurrArea
<1>4. frames'[n].coded = coded /\ frames'[n].done = 0 /\ Area = AreaOf(stack[n])
  BY <1>1, <1>2 DEF Frame, Area
<1>5. coded \in {0, Visible(Area)}
  BY DEF SumInv
<1>6. ASSUME NEW i \in 1 .. n PROVE SumAt(i)'
  <2>1. SumAt(i) /\ SameLevel(i)
    BY <1>1, <1>2 DEF SumInv
  <2>2. i > 1 => SameLevel(i - 1) /\ frames'[i - 1].done = frames[i - 1].done
    BY <1>1, <1>2
  <2>3. frames'[i].coded \in {0, Visible(AreaOf(stack[i]))}
    <3>1. i = n \/ i \in 1 .. n - 1
      BY <1>1
    <3>2. CASE i \in 1 .. n - 1
      BY <1>2, <2>1, <3>2 DEF SumAt
    <3> QED
      BY <1>4, <1>5, <3>1, <3>2
  <2> QED
    BY <1>1, <1>2, <2>1, <2>2, <2>3, SumKept
<1>7. SumAt(n + 1)'
  <2>1. PICK a : a = Area
    OBVIOUS
  <2>2. AreaOf(stack'[n]) = a /\ stack'[n + 1].parts = parts /\ stack'[n + 1].idx = 0
    <3>1. SameLevel(n)
      BY <1>1, <1>2
    <3> QED
      BY <1>2, <1>4, <2>1, <3>1 DEF SameLevel, AreaOf
  <2>3. Tiles(parts, a)
    BY <2>1
  <2>4. Len(parts) <= 4 /\ VisibleOf(parts, Len(parts)) = Visible(a)
    <3>1. Len(parts) \in 1 .. 4 /\ VisibleOf(parts, Len(parts)) = Visible(a)
      BY <2>3 DEF Tiles
    <3>2. \A k \in 1 .. 4 : k <= 4
      OBVIOUS
    <3> QED
      BY <3>1, <3>2
  <2>5. Visible(a)' = Visible(a) /\ \A k : VisibleOf(parts, k)' = VisibleOf(parts, k)
    BY <1>2 DEF VisibleOf, Visible, InPicture
  <2>6. VisibleOf(parts, Len(parts))' = Visible(a)'
    BY <2>4, <2>5
  <2>7. VisibleOf(parts, 0)' = 0
    BY DEF VisibleOf
  <2>8. n + 1 - 1 = n /\ ~(n + 1 <= Len(frames'))
    BY <1>1, <1>2
  <2> QED
    BY <1>4, <2>2, <2>4, <2>6, <2>7, <2>8 DEF SumAt
<1>8. \A i \in 1 .. n + 1 : i \in 1 .. n \/ i = n + 1
  BY <1>1
<1> QED
  BY <1>2, <1>3, <1>6, <1>7, <1>8 DEF SumInv

(* Going on adds what the part has to what is done of the area.            *)
LEMMA SumNext == ASSUME IInv, GeoInv, SumInv, NextPart PROVE SumInv'
<1>1. PICK n \in Nat : n = Len(stack) /\ n > 1 /\ Top(stack) = stack[n]
  BY Here DEF NextPart
<1>2. /\ Len(frames) = n - 1 /\ cfg' = cfg /\ Len(stack') = n /\ Len(frames') = n - 1
      /\ \A i \in 1 .. n - 1 : SameLevel(i)
      /\ stack'[n].parts = stack[n].parts /\ stack'[n].idx = stack[n].idx + 1
      /\ \A i \in 1 .. n - 2 : frames'[i] = frames[i]
      /\ frames'[n - 1] = [frames[n - 1] EXCEPT !.done = @ + coded]
      /\ frames[n - 1] \in FrameT
  BY <1>1, MoveShape
<1>3. /\ coded' = 0 /\ at' # "chroma"
      /\ at = "out" \/ (at \in {"cu", "tu"} /\ coded > 0)
  BY DEF NextPart
<1>4. frames'[n - 1].coded = frames[n - 1].coded /\ frames'[n - 1].done = frames[n - 1].done + coded
  BY <1>2 DEF FrameT
<1>5. ASSUME NEW i \in 1 .. n - 1 PROVE SumAt(i)'
  <2>1. SumAt(i) /\ SameLevel(i) /\ i \in 1 .. n
    BY <1>1, <1>2 DEF SumInv
  <2>2. i > 1 => SameLevel(i - 1) /\ frames'[i - 1].done = frames[i - 1].done
    BY <1>1, <1>2
  <2>3. frames'[i].coded = frames[i].coded
    <3>1. i = n - 1 \/ i \in 1 .. n - 2
      BY <1>1
    <3> QED
      BY <1>2, <1>4, <3>1
  <2> QED
    BY <1>1, <1>2, <2>1, <2>2, <2>3, SumKept DEF SumAt
<1>6. SumAt(n)'
  <2>1. PICK parts, k, a : parts = stack[n].parts /\ k = stack[n].idx /\ a = AreaOf(stack[n - 1])
    OBVIOUS
  <2>2. parts \in Seq(AreaT) /\ k \in Nat /\ k + 1 \in 1 .. Len(parts) /\ parts[k + 1] = Area
    BY <1>1, <1>3, <2>1, LevelParts DEF Area, AreaOf
  <2>3. /\ Len(parts) <= 4 /\ VisibleOf(parts, Len(parts)) = Visible(a)
        /\ frames[n - 1].done = VisibleOf(parts, k)
    BY <1>1, <2>1 DEF SumInv, SumAt
  <2>4. coded = Visible(Area)
    <3>1. CASE at = "out"
      <4>1. ~InPicture(Area.x, Area.y) /\ coded = 0
        BY <3>1 DEF GeoInv, SumInv
      <4> QED
        BY <4>1 DEF Visible
    <3>2. CASE at \in {"cu", "tu"} /\ coded > 0
      BY <3>2 DEF SumInv
    <3> QED
      BY <1>3, <3>1, <3>2
  <2>5. frames'[n - 1].done = VisibleOf(parts, k + 1)
    BY <1>4, <2>2, <2>3, <2>4, LegalCfg, OnePartMore
  <2>6. AreaOf(stack'[n - 1]) = a
    <3>1. SameLevel(n - 1)
      BY <1>1, <1>2
    <3> QED
      BY <2>1, <3>1 DEF SameLevel, AreaOf
  <2>7. Visible(a)' = Visible(a) /\ \A i : VisibleOf(parts, i)' = VisibleOf(parts, i)
    BY <1>2 DEF VisibleOf, Visible, InPicture
  <2>8. VisibleOf(parts, Len(parts))' = Visible(a)' /\ VisibleOf(parts, k + 1)' = VisibleOf(parts, k + 1)
    BY <2>3, <2>7
  <2>9. stack'[n].parts = parts /\ stack'[n].idx = k + 1 /\ ~(n <= Len(frames'))
    BY <1>1, <1>2, <2>1
  <2> QED
    BY <2>3, <2>5, <2>6, <2>8, <2>9 DEF SumAt
<1>7. \A i \in 1 .. n : i \in 1 .. n - 1 \/ i = n
  BY <1>1
<1> QED
  BY <1>2, <1>3, <1>5, <1>6, <1>7 DEF SumInv

(* When all parts are done, so is the area; a split given up leaves the    *)
(* area what it had.                                                       *)
LEMMA SumPop ==
  ASSUME IInv, SumInv, ExitCurrSplit \/ EnterLocalChroma \/ Abort
  PROVE  SumInv'
<1>1. PICK n \in Nat : n = Len(stack) /\ n >= 1 /\ Top(stack) = stack[n]
  BY Here
<1>2. /\ n > 1 /\ at # "chroma" /\ Popped /\ cfg' = cfg
      /\ frames' = frames \/ frames' = Pop(frames)
      /\ ~EnterLocalChroma => frames' = Pop(frames)
  <2>1. CASE ExitCurrSplit
    BY <1>1, <2>1 DEF ExitCurrSplit, Recover, IInv, TopInv
  <2>2. CASE EnterLocalChroma
    BY <1>1, <2>2 DEF EnterLocalChroma, IInv, TopInv
  <2>3. CASE Abort
    BY <1>1, <2>3 DEF Abort, Recover
  <2> QED
    BY <2>1, <2>2, <2>3
<1>3. /\ Len(frames) = n - 1 /\ Len(stack') = n - 1 /\ Top(frames) = frames[n - 1]
      /\ \A i \in 1 .. n - 1 : SameLevel(i)
      /\ \A i \in 1 .. n - 2 : frames'[i] = frames[i]
      /\ frames' = Pop(frames) => Len(frames') = n - 2
  BY <1>1, <1>2, PopShape
<1>4. ASSUME NEW i \in 1 .. n - 1 PROVE SumAt(i)'
  <2>1. SumAt(i) /\ SameLevel(i) /\ i \in 1 .. n
    BY <1>1, <1>3 DEF SumInv
  <2>2. i > 1 => SameLevel(i - 1) /\ frames'[i - 1].done = frames[i - 1].done
    BY <1>1, <1>3
  <2>3. i <= Len(frames') => i <= Len(frames) /\ frames'[i].coded = frames[i].coded
    BY <1>1, <1>2, <1>3
  <2> QED
    BY <1>1, <1>2, <2>1, <2>2, <2>3, SumKept DEF SumAt
<1>5. Area' = AreaOf(stack[n - 1]) /\ Visible(Area)' = Visible(AreaOf(stack[n - 1]))
  <2>1. Area' = AreaOf(stack[n - 1])
    <3>1. SameLevel(n - 1)
      BY <1>1, <1>2, <1>3
    <3> QED
      BY <1>3, <3>1 DEF Area, Top, SameLevel, AreaOf
  <2> QED
    BY <1>2, <2>1 DEF Visible, InPicture
<1>6. frames[n - 1].coded \in {0, Visible(AreaOf(stack[n - 1]))}
  BY <1>1, <1>2, <1>3 DEF SumInv, SumAt
<1>7. at = "past" => frames[n - 1].done = Visible(AreaOf(stack[n - 1]))
  <2>1. SumAt(n) /\ PlaceAt(n)
    BY <1>1 DEF SumInv, IInv, LevelInv
  <2>2. at = "past" => stack[n].idx = Len(stack[n].parts)
    <3>1. stack[n].parts \in Seq(AreaT) /\ stack[n].idx \in Nat
      BY <1>1, LevelParts
    <3> QED
      BY <1>1, <2>1, <3>1 DEF IInv, TopInv, PlaceAt, PlaceOf, Past
  <2> QED
    BY <1>2, <2>1, <2>2 DEF SumAt
<1>8. CASE ExitCurrSplit
  <2>1. at' \in {"cu", "tu"} /\ coded' = frames[n - 1].done /\ at = "past"
    BY <1>3, <1>8 DEF ExitCurrSplit, PlaceBelow
  <2> QED
    BY <1>3, <1>4, <1>5, <1>7, <2>1 DEF SumInv
<1>9. CASE EnterLocalChroma
  <2>1. at' = "chroma" /\ coded' = 0 /\ at = "past" /\ frames' = frames
    BY <1>9 DEF EnterLocalChroma
  <2> QED
    BY <1>3, <1>4, <1>5, <1>7, <2>1 DEF SumInv
<1>10. CASE Abort
  <2>1. at' = "cu" /\ coded' = frames[n - 1].coded
    BY <1>3, <1>10 DEF Abort
  <2> QED
    BY <1>3, <1>4, <1>5, <1>6, <2>1 DEF SumInv
<1> QED
  BY <1>8, <1>9, <1>10

(* Every step keeps account of the samples.                                *)
LEMMA SumStep == ASSUME IInv, CacheInv, TreeInv, GeoInv, SumInv, [Next]_vars PROVE SumInv'
<1>1. ASSUME NEW s \in CuSplits, NEW m, Split(s, m) PROVE SumInv'
  <2>1. at = "cu" /\ s \in Permitted /\ s # NoSplit /\ m \in ChildModes(s) /\ SplitCurrArea(s, m, "cu")
    BY <1>1 DEF Split
  <2>2. Tiles(SubPartitions(Area, s), Area)
    BY <2>1, PermittedParts
  <2> QED
    BY <2>1, <2>2, SumPush
<1>2. ASSUME NEW s \in TuSplits, SplitTu(s) PROVE SumInv'
  <2>1. at \in {"cu", "tu"} /\ SplitCurrArea(s, modeType, "tu")
    BY <1>2 DEF SplitTu
  <2>2. Tiles(SubPartitions(Area, s), Area)
    BY <1>2, TuParts
  <2> QED
    BY <2>1, <2>2, SumPush
<1> QED
  BY <1>1, <1>2, SumStay, SumNext, SumPop DEF Next

(* PartsDivideTheArea: however a CTU is split, into CUs and TUs, on the    *)
(* boundary or not, the parts of every open split lie apart in the area    *)
(* they divide, and what is coded of an area is exactly what it has in the *)
(* picture.                                                                *)
THEOREM EverySampleOnce == Spec => []PartsDivideTheArea
<1>1. IInv /\ CacheInv /\ TreeInv /\ GeoInv /\ SumInv /\ [Next]_vars => SumInv'
  BY SumStep
<1>2. ASSUME IInv, GeoInv PROVE PartsLieApart
  <2> SUFFICES ASSUME NEW i \in 2 .. Len(stack) PROVE PartsApart(stack[i].parts, AreaOf(stack[i - 1]))
    BY DEF PartsLieApart, PartsApart
  <2>1. i \in 1 .. Len(stack) /\ i > 1
    BY <1>2, Here
  <2> QED
    BY <1>2, <2>1 DEF GeoInv, GeoAt
<1>3. SumInv => CodedCoversVisibleArea
  BY DEF SumInv, CodedCoversVisibleArea
<1>4. IInv /\ GeoInv /\ SumInv => PartsDivideTheArea
  BY <1>2, <1>3 DEF PartsDivideTheArea
<1> QED
  BY <1>1, <1>4, SumStart, GeoInvariance, PTL DEF Spec

----------------------------------------------------------------------------
(* The table of sizes.                                                     *)

(* The list of sizes, place by place.                                      *)
LEMMA SizeList ==
  /\ Net!SizeIds = 1 .. 14
  /\ Net!cu_size_list[1] = <<128, 128>> /\ Net!cu_size_list[2] = <<64, 128>>
  /\ Net!cu_size_list[3] = <<128, 64>> /\ Net!cu_size_list[4] = <<64, 64>>
  /\ Net!cu_size_list[5] = <<64, 32>> /\ Net!cu_size_list[6] = <<32, 64>>
  /\ Net!cu_size_list[7] = <<16, 64>> /\ Net!cu_size_list[8] = <<64, 16>>
  /\ Net!cu_size_list[9] = <<32, 32>> /\ Net!cu_size_list[10] = <<32, 16>>
  /\ Net!cu_size_list[11] = <<16, 32>> /\ Net!cu_size_list[12] = <<32, 8>>
  /\ Net!cu_size_list[13] = <<8, 32>> /\ Net!cu_size_list[14] = <<16, 16>>
  BY DEF Net!SizeIds, Net!cu_size_list

(* An id is one of fourteen.                                               *)
LEMMA Ids ==
  ASSUME NEW id \in Net!SizeIds
  PROVE  \/ id = 1 \/ id = 2 \/ id = 3 \/ id = 4 \/ id = 5 \/ id = 6 \/ id = 7
         \/ id = 8 \/ id = 9 \/ id = 10 \/ id = 11 \/ id = 12 \/ id = 13 \/ id = 14
  BY SizeList

(* No size is listed twice.                                                *)
LEMMA OnePlace ==
  ASSUME NEW i \in Net!SizeIds, NEW j \in Net!SizeIds, Net!cu_size_list[i] = Net!cu_size_list[j]
  PROVE  i = j
<1>1. \A w, h, u, v : <<w, h>> = <<u, v>> => w = u /\ h = v
  OBVIOUS
<1> DEFINE W == <<128, 64, 128, 64, 64, 32, 16, 64, 32, 32, 16, 32, 8, 16>>
           H == <<128, 128, 64, 64, 32, 64, 64, 16, 32, 16, 32, 8, 32, 16>>
<1>2. \A id \in Net!SizeIds : Net!cu_size_list[id] = <<W[id], H[id]>>
  BY SizeList, Ids
<1>3. W[i] = W[j] /\ H[i] = H[j]
  BY <1>1, <1>2
<1> QED
  BY <1>3, Ids

(* The place of a listed size is where it is listed.                       *)
LEMMA IndexOf ==
  ASSUME NEW w, NEW h, NEW id \in Net!SizeIds, Net!cu_size_list[id] = <<w, h>>
  PROVE  Net!Known(w, h) /\ Net!Size_Index(w, h) = id
<1>1. Net!Known(w, h)
  BY DEF Net!Known
<1>2. \E k \in Net!SizeIds : Net!cu_size_list[k] = <<w, h>>
  OBVIOUS
<1> DEFINE k == CHOOSE k \in Net!SizeIds : Net!cu_size_list[k] = <<w, h>>
<1>3. k \in Net!SizeIds /\ Net!cu_size_list[k] = <<w, h>>
  BY <1>2
<1>4. k = id
  BY <1>3, OnePlace
<1> QED
  BY <1>1, <1>4 DEF Net!Size_Index

(* Every size the partitioner produces and the encoder asks about is one   *)
(* of them.                                                                *)
LEMMA TargetsKnown ==
  ASSUME NEW w \in Sizes, NEW h \in Sizes, w = 128 => h >= 64, h = 128 => w >= 64,
         Net!Is_Tgt_Size(w, h)
  PROVE  \E id \in Net!SizeIds : Net!cu_size_list[id] = <<w, h>>
<1>1. (w >= 16 /\ h >= 16) \/ (w = 32 /\ h = 8) \/ (w = 8 /\ h = 32)
  BY DEF Net!Is_Tgt_Size
<1>2. /\ w = 4 \/ w = 8 \/ w = 16 \/ w = 32 \/ w = 64 \/ w = 128
      /\ h = 4 \/ h = 8 \/ h = 16 \/ h = 32 \/ h = 64 \/ h = 128
  BY DEF Sizes
<1>3. \A id \in 1 .. 14 : id \in Net!SizeIds
  BY SizeList
<1>4. CASE w = 128 \/ h = 128
  BY <1>1, <1>2, <1>4, <1>3, SizeList
<1>5. CASE w = 64 /\ h # 128
  BY <1>1, <1>2, <1>5, <1>3, SizeList
<1>6. CASE w = 32 /\ h # 128
  BY <1>1, <1>2, <1>6, <1>3, SizeList
<1>7. CASE w = 16 /\ h # 128
  BY <1>1, <1>2, <1>7, <1>3, SizeList
<1>8. CASE w < 16 /\ h # 128
  BY <1>1, <1>2, <1>8, <1>3, SizeList
<1> QED
  BY <1>2, <1>4, <1>5, <1>6, <1>7, <1>8

----------------------------------------------------------------------------
(* What the network can permit.                                            *)

(* Some answer for a size permits each of its alternatives.                *)
LEMMA Answered ==
  ASSUME NEW id \in Net!SizeIds, NEW mode \in Net!NetSplits, Net!Sorted(id) \in 2 .. 6,
         id \in {2, 3} \/ \E k \in 1 .. Net!Sorted(id) : Net!Alternatives(id)[k] = mode
  PROVE  \E permit \in Net!Answers(id) : mode \in permit
<1>1. CASE id \in {2, 3}
  <2>1. <<1, 2>> \in Net!Places(id)
    BY DEF Net!Places
  <2>2. Net!mode_permit(id, <<1, 2>>) = Net!NetSplits
    BY <1>1 DEF Net!mode_permit
  <2> QED
    BY <2>1, <2>2 DEF Net!Answers
<1>2. CASE id \notin {2, 3}
  <2>1. PICK k \in 1 .. Net!Sorted(id) : Net!Alternatives(id)[k] = mode
    BY <1>2
  <2>2. PICK j \in 1 .. Net!Sorted(id) : j # k
    <3>1. 1 \in 1 .. Net!Sorted(id) /\ 2 \in 1 .. Net!Sorted(id) /\ 1 # 2
      OBVIOUS
    <3> QED
      BY <3>1
  <2>3. <<k, j>> \in Net!Places(id)
    BY <2>2 DEF Net!Places
  <2>4. mode \in Net!mode_permit(id, <<k, j>>)
    <3>1. 1 \in 1 .. 2 /\ <<k, j>>[1] = k
      OBVIOUS
    <3> QED
      BY <1>2, <2>1, <3>1 DEF Net!mode_permit, Net!top_n
  <2> QED
    BY <2>3, <2>4 DEF Net!Answers
<1> QED
  BY <1>1, <1>2

(* How many values are compared at each size, and what they stand for.     *)
LEMMA NetOf ==
  ASSUME NEW id \in Net!SizeIds
  PROVE  /\ Net!Sorted(id) \in 2 .. 6
         /\ id = 1 => Net!Sorted(id) = 4 /\ Net!Alternatives(id) = <<"QT", "VER_2", "HOR_2", "NO">>
         /\ id \in {2, 3} => Net!Sorted(id) = 2
         /\ id \in Net!Square => /\ Net!Sorted(id) = 6
                                 /\ Net!Alternatives(id) = <<"QT", "VER_2", "HOR_2", "VER_3", "HOR_3", "NO">>
         /\ id = 12 => Net!Sorted(id) = 4 /\ Net!Alternatives(id) = <<"VER_2", "HOR_2", "VER_3", "NO">>
         /\ id = 13 => Net!Sorted(id) = 4 /\ Net!Alternatives(id) = <<"VER_2", "HOR_2", "HOR_3", "NO">>
         /\ id \notin {1, 2, 3, 12, 13} \cup Net!Square =>
              /\ Net!Sorted(id) = 5
              /\ Net!Alternatives(id) = <<"VER_2", "HOR_2", "VER_3", "HOR_3", "NO">>
<1>1. Net!Square = {4, 9, 14}
  BY DEF Net!Square
<1>2. /\ id = 1 => Net!Sorted(id) = 4
      /\ id \in {2, 3} => Net!Sorted(id) = 2
      /\ id \in Net!Square => Net!Sorted(id) = 6
      /\ id \in {12, 13} => Net!Sorted(id) = 4
      /\ id \notin {1, 2, 3, 12, 13} \cup Net!Square => Net!Sorted(id) = 5
  BY <1>1, Ids DEF Net!Sorted
<1>3. Net!Sorted(id) \in {2, 4, 5, 6}
  BY <1>2
<1>4. Net!Sorted(id) \in 2 .. 6
  BY <1>3
<1>5. /\ id = 1 => Net!Alternatives(id) = <<"QT", "VER_2", "HOR_2", "NO">>
      /\ id \in Net!Square => Net!Alternatives(id) = <<"QT", "VER_2", "HOR_2", "VER_3", "HOR_3", "NO">>
      /\ id = 12 => Net!Alternatives(id) = <<"VER_2", "HOR_2", "VER_3", "NO">>
      /\ id = 13 => Net!Alternatives(id) = <<"VER_2", "HOR_2", "HOR_3", "NO">>
      /\ id \notin {1, 12, 13} \cup Net!Square =>
           Net!Alternatives(id) = <<"VER_2", "HOR_2", "VER_3", "HOR_3", "NO">>
  BY <1>1, Ids DEF Net!Alternatives
<1> QED
  BY <1>2, <1>4, <1>5

(* The network that stands for a size says something on each split that    *)
(* the size can have.                                                      *)
LEMMA CoversSplit ==
  ASSUME NEW id \in Net!SizeIds, NEW w, NEW h, Net!cu_size_list[id] = <<w, h>>,
         NEW s \in CuSplits, s = Quad => w = h, s \in Tt => w <= 64 /\ h <= 64,
         s = TriH => h > 8, s = TriV => w > 8
  PROVE  \E permit \in Net!Answers(id) : Net!Get_External_Mode(TestModeOf(s)) \in permit
<1> DEFINE mode == Net!Get_External_Mode(TestModeOf(s))
<1>1. /\ s = Quad => mode = "QT"
      /\ s = Horz => mode = "HOR_2"
      /\ s = Vert => mode = "VER_2"
      /\ s = TriH => mode = "HOR_3"
      /\ s = TriV => mode = "VER_3"
  BY DEF TestModeOf, Net!Get_External_Mode, Quad, Horz, Vert, TriH, TriV
<1>2. s = Quad \/ s = Horz \/ s = Vert \/ s = TriH \/ s = TriV
  BY DEF CuSplits, Mt, Bt, Tt
<1>3. mode \in Net!NetSplits
  BY <1>1, <1>2 DEF Net!NetSplits
<1> HIDE DEF mode
<1>4. TriH \in Tt /\ TriV \in Tt
  BY DEF Tt
<1>5. w # h => id \notin Net!Square /\ id # 1
  <2>1. \A u, v : <<w, h>> = <<u, v>> => w = u /\ h = v
    OBVIOUS
  <2> QED
    BY <2>1, SizeList DEF Net!Square
<1>6. /\ id = 1 => w = 128 /\ h = 128
      /\ id = 12 => h = 8
      /\ id = 13 => w = 8
      /\ id \in {12, 13} \/ id \notin {1, 2, 3} \cup Net!Square => w # h
  BY SizeList, Ids DEF Net!Square
<1>7. id \in {2, 3} \/ \E k \in 1 .. Net!Sorted(id) : Net!Alternatives(id)[k] = mode
  <2>1. CASE id = 1
    <3>1. s \notin Tt
      BY <1>6, <2>1
    <3>2. mode = "QT" \/ mode = "VER_2" \/ mode = "HOR_2"
      BY <1>1, <1>2, <1>4, <3>1
    <3> QED
      BY <2>1, <3>2, NetOf
  <2>2. CASE id \in Net!Square
    <3>1. Net!Sorted(id) = 6 /\ Net!Alternatives(id) = <<"QT", "VER_2", "HOR_2", "VER_3", "HOR_3", "NO">>
      BY <2>2, NetOf
    <3> QED
      BY <1>1, <1>2, <3>1
  <2>3. CASE id = 12
    <3>1. s # Quad /\ s # TriH
      BY <1>6, <2>3
    <3>2. Net!Sorted(id) = 4 /\ Net!Alternatives(id) = <<"VER_2", "HOR_2", "VER_3", "NO">>
      BY <2>3, NetOf
    <3> QED
      BY <1>1, <1>2, <3>1, <3>2
  <2>4. CASE id = 13
    <3>1. s # Quad /\ s # TriV
      BY <1>6, <2>4
    <3>2. Net!Sorted(id) = 4 /\ Net!Alternatives(id) = <<"VER_2", "HOR_2", "HOR_3", "NO">>
      BY <2>4, NetOf
    <3> QED
      BY <1>1, <1>2, <3>1, <3>2
  <2>5. CASE id \notin {1, 2, 3, 12, 13} \cup Net!Square
    <3>1. s # Quad
      BY <1>6, <2>5
    <3>2. Net!Sorted(id) = 5 /\ Net!Alternatives(id) = <<"VER_2", "HOR_2", "VER_3", "HOR_3", "NO">>
      BY <2>5, NetOf
    <3> QED
      BY <1>1, <1>2, <3>1, <3>2
  <2> QED
    BY <2>1, <2>2, <2>3, <2>4, <2>5
<1>8. \E permit \in Net!Answers(id) : mode \in permit
  BY <1>3, <1>7, NetOf, Answered
<1> QED
  BY <1>8 DEF mode

(* What the partitioner permits where it permits no split at all, too.     *)
LEMMA FreeSplits ==
  ASSUME IInv, CacheInv, TreeInv, GeoInv, at = "cu", ImplicitSplit = NoSplit,
         NEW s \in Permitted, s # NoSplit
  PROVE  /\ s \in CuSplits
         /\ s = Quad => Area.w = Area.h
         /\ s \in Tt => Area.w <= 64 /\ Area.h <= 64
         /\ s = TriH => Area.h > 8
         /\ s = TriV => Area.w > 8
<1>1. /\ Legal(cfg) /\ CuArea(Area, Top(stack).split, curr, modeType) /\ treeType # "TREE_C"
  BY AtArea DEF AreaOk, TreeOk, IInv, TopInv
<1>2. /\ Area.w \in Nat /\ Area.h \in Nat /\ cfg.minCb \in {4, 8}
      /\ Top(stack).split \in {"CTU_LEVEL", Quad} => Area.w = Area.h
  BY <1>1, AtArea, AreaRect DEF CuArea, SizeOk, Legal
<1>3. \/ s \in QtIfAllowed
      \/ s \in Bt /\ CanBtt /\ CanBt(s)
      \/ s \in Tt /\ CanBtt /\ CanTt(s)
  BY <1>1 DEF Permitted
<1>4. Quad \notin Bt /\ Quad \notin Tt /\ TriH \notin Bt /\ TriV \notin Bt /\ Quad # TriH /\ Quad # TriV
      /\ Bt \cap Tt = {} /\ TriH \in Tt /\ TriV \in Tt
  BY DEF Bt, Tt, Quad, Horz, Vert, TriH, TriV
<1>5. s \in CuSplits
  BY PermittedSplits
<1>6. s = Quad => Area.w = Area.h
  BY <1>2, <1>3, <1>4 DEF QtIfAllowed, CanQt
<1>7. s \in Tt => CanTt(s)
  BY <1>3, <1>4 DEF QtIfAllowed
<1>8. s \in Tt => Area.w <= 64 /\ Area.h <= 64
  BY <1>7 DEF CanTt, MAX_TB_SIZEY
<1>9. s = TriH => Area.h > 8
  BY <1>2, <1>4, <1>7 DEF CanTt
<1>10. s = TriV => Area.w > 8
  BY <1>2, <1>4, <1>7 DEF CanTt, TriH, TriV
<1> QED
  BY <1>5, <1>6, <1>8, <1>9, <1>10

(* The size of a CU the encoder asks about, and its place in the list.     *)
LEMMA TargetId ==
  ASSUME IInv, CacheInv, TreeInv, GeoInv, AtTarget
  PROVE  /\ Net!Size_Index(Area.w, Area.h) \in Net!SizeIds /\ Net!Known(Area.w, Area.h)
         /\ Net!cu_size_list[Net!Size_Index(Area.w, Area.h)] = <<Area.w, Area.h>>
<1>1. at = "cu" /\ Net!Is_Tgt_Size(Area.w, Area.h)
  BY DEF AtTarget
<1>2. /\ Area.w \in Sizes /\ Area.h \in Sizes
      /\ Area.w = 128 => Area.h >= 64
      /\ Area.h = 128 => Area.w >= 64
  BY <1>1, AtArea DEF AreaOk, CuArea, SizeOk, IInv, TopInv
<1>3. PICK id \in Net!SizeIds : Net!cu_size_list[id] = <<Area.w, Area.h>>
  BY <1>1, <1>2, TargetsKnown
<1> QED
  BY <1>3, IndexOf

(* NetworkCoversTheCu: the split rules of the partitioner fit the table of *)
(* the network, so that the answer for 128x128 is never taken for another  *)
(* size and no permitted split goes untested.                              *)
THEOREM NetworkCovers == Spec => []NetworkCoversTheCu
<1>1. ASSUME IInv, CacheInv, TreeInv, GeoInv, AtTarget
      PROVE  /\ Net!Known(Area.w, Area.h)
             /\ \A s \in Permitted \ {NoSplit} :
                  \E permit \in Net!Answers(Net!Size_Index(Area.w, Area.h)) :
                    Net!Get_External_Mode(TestModeOf(s)) \in permit
  <2>1. PICK id \in Net!SizeIds : /\ id = Net!Size_Index(Area.w, Area.h) /\ Net!Known(Area.w, Area.h)
                                  /\ Net!cu_size_list[id] = <<Area.w, Area.h>>
    BY <1>1, TargetId
  <2>2. at = "cu" /\ ImplicitSplit = NoSplit
    BY <1>1 DEF AtTarget
  <2>3. ASSUME NEW s \in Permitted \ {NoSplit}
        PROVE  \E permit \in Net!Answers(id) : Net!Get_External_Mode(TestModeOf(s)) \in permit
    <3>1. /\ s \in CuSplits /\ (s = Quad => Area.w = Area.h)
          /\ (s \in Tt => Area.w <= 64 /\ Area.h <= 64)
          /\ (s = TriH => Area.h > 8) /\ (s = TriV => Area.w > 8)
      BY <1>1, <2>2, FreeSplits
    <3> QED
      BY <2>1, <3>1, CoversSplit
  <2> QED
    BY <2>1, <2>3
<1>2. IInv /\ CacheInv /\ TreeInv /\ GeoInv => NetworkCoversTheCu
  BY <1>1 DEF NetworkCoversTheCu
<1> QED
  BY <1>2, GeoInvariance, PTL

----------------------------------------------------------------------------
(* What the network's values decide.                                       *)

(* Where as many values are compared as were written, the buffer as it was *)
(* found has no say.                                                       *)
LEMMA OnlyOutputs ==
  ASSUME NEW id \in Net!SizeIds, id # 1
  PROVE  Net!DecidedByOutputs(id)
<1> SUFFICES ASSUME NEW out \in Net!Outputs(id), NEW buf \in Net!Buffers
             PROVE  Net!Get_Mode(id, out, buf) = Net!Get_Mode(id, out, Net!Empty)
  BY DEF Net!DecidedByOutputs
<1>1. Net!Sorted(id) = Net!Written(id) /\ Net!Sorted(id) \in Nat /\ Net!Sorted(id) \in 2 .. 6
  BY Ids, NetOf DEF Net!Sorted, Net!Written, Net!Square
<1>2. ASSUME NEW a \in Net!Buffers, NEW b \in Net!Buffers, NEW i \in 1 .. Net!Sorted(id)
      PROVE  Net!Net_Run(id, out, a)[i] = Net!Net_Run(id, out, b)[i]
  BY <1>1 DEF Net!Net_Run, Net!Cells
<1>3. ASSUME NEW a \in Net!Buffers, NEW b \in Net!Buffers
      PROVE  Net!Best(Net!Net_Run(id, out, a), id) = Net!Best(Net!Net_Run(id, out, b), id)
  <2>1. \A p \in Net!Places(id) : p[1] \in 1 .. Net!Sorted(id) /\ p[2] \in 1 .. Net!Sorted(id)
    BY DEF Net!Places
  <2> QED
    BY <1>2, <2>1 DEF Net!Best
<1>4. ASSUME NEW a \in Net!Buffers, NEW b \in Net!Buffers
      PROVE  Net!Get_Mode(id, out, a) = Net!Get_Mode(id, out, b)
  BY <1>3 DEF Net!Get_Mode
<1>5. Net!Empty \in Net!Buffers
  BY ValuesAssumption DEF Net!Empty, Net!Buffers
<1> QED
  BY <1>4, <1>5

(* DecidedByThisCall: no value an earlier CU left in the buffer permits or *)
(* forbids a split, at any size but 128x128.                               *)
THEOREM DecidedFresh == Spec => []DecidedByThisCall
<1>1. ASSUME IInv, CacheInv, TreeInv, GeoInv, AtTarget, <<Area.w, Area.h>> # <<128, 128>>
      PROVE  Net!Size_Index(Area.w, Area.h) \in IndependentSizes
  <2>1. PICK id \in Net!SizeIds : /\ id = Net!Size_Index(Area.w, Area.h)
                                  /\ Net!cu_size_list[id] = <<Area.w, Area.h>>
    BY <1>1, TargetId
  <2>2. id # 1
    BY <1>1, <2>1, SizeList
  <2> QED
    BY <2>1, <2>2, OnlyOutputs DEF IndependentSizes
<1>2. IInv /\ CacheInv /\ TreeInv /\ GeoInv => DecidedByThisCall
  BY <1>1 DEF DecidedByThisCall
<1> QED
  BY <1>2, GeoInvariance, PTL
=============================================================================
