--------------------------- MODULE UnitPartitioner ---------------------------
(***************************************************************************)
(* QTBTPartitioner (Lib/CommonLib/UnitPartitioner.cpp): the stack of part  *)
(* levels and the depth counters with which the encoder walks one CTU,     *)
(* driven the way EncCu::xCompressCU and xCheckModeSplit drive it: a CU is *)
(* coded unsplit or split, again and again as the mode loop goes on; the   *)
(* parts of a split are visited in turn; a split may be abandoned after    *)
(* any part; small intra regions code their chroma once, after the luma    *)
(* parts (the local dual tree).                                            *)
(*                                                                         *)
(* Chroma format is 4:2:0.  The CTU lies at the origin, and picW x picH is *)
(* what is left of the picture from there, so that a value below ctu puts  *)
(* the CTU on the boundary.  The chroma quantisation group follows the     *)
(* same rules as the luma one and is left out.                             *)
(***************************************************************************)
EXTENDS Integers, Sequences, FiniteSets

CONSTANT Configs   \* the configurations of slice and picture to walk

\* What the encoder application accepts (EncAppCfg.cpp, xConfirmPara), for the
\* sizes of one slice type and channel, in luma samples.  PreCalcValues sets
\* the least BT and TT size to the least coding block size minCb.
Legal(c) ==
  /\ c.ctu \in {32, 64, 128} /\ c.picW \in 8 .. c.ctu /\ c.picH \in 8 .. c.ctu
  /\ c.minCb \in {4, 8} /\ c.picW % 8 = 0 /\ c.picH % 8 = 0
  /\ c.minQt \in {8, 16, 32, 64} /\ c.minQt <= c.ctu
  /\ c.maxBt \in c.minQt .. c.ctu /\ c.maxTt \in c.minQt .. 64 /\ c.maxTt <= c.ctu
  /\ c.maxBtDepth \in Nat /\ (c.maxBtDepth = 0 => c.maxBt = c.minQt /\ c.maxTt = c.minQt)
  /\ c.maxTb \in {32, 64} /\ (c.ctu = 32 => c.maxTb = 32)
  /\ c.cuQpDeltaSubdiv \in Nat
  /\ c.ch \in {"LUMA", "CHROMA"} /\ (c.ch = "CHROMA" => c.dualITree)
  /\ c.dualITree => c.intra

ASSUME ConfigsAssumption == \A c \in Configs : Legal(c)

Quad == "CU_QUAD_SPLIT"
Horz == "CU_HORZ_SPLIT"
Vert == "CU_VERT_SPLIT"
TriH == "CU_TRIH_SPLIT"
TriV == "CU_TRIV_SPLIT"
NoSplit == "CU_DONT_SPLIT"
TuMax == "TU_MAX_TR_SPLIT"
SbtHalf == {"SBT_VER_HALF", "SBT_HOR_HALF"}   \* the two POS variants tile alike
SbtQuad == {"SBT_VER_QUAD_POS0", "SBT_VER_QUAD_POS1",
            "SBT_HOR_QUAD_POS0", "SBT_HOR_QUAD_POS1"}
Bt == {Horz, Vert}
Tt == {TriH, TriV}
Mt == Bt \cup Tt
CuSplits == Mt \cup {Quad}
Sbt == SbtHalf \cup SbtQuad
TuSplits == Sbt \cup {TuMax}

MAX_TB_SIZEY == 64
MIN_TB_SIZEY == 4
MIN_DUALTREE_CHROMA_WIDTH == 4
MIN_DUALTREE_CHROMA_SIZE == 16

VARIABLES
  cfg,       \* the configuration: never changes
  stack,     \* m_partStack
  curr,      \* currDepth, currQtDepth, ... currQgPos
  chType, treeType, modeType,
  at,        \* where the walk stands: see TypeOK
  coded,     \* luma samples the best coding of the current CU or TU covers
  frames     \* the locals of the xCompressCU calls below the current one

walkVars == <<chType, treeType, modeType>>
vars == <<cfg, stack, curr, chType, treeType, modeType, at, coded, frames>>

----------------------------------------------------------------------------
Top(s) == s[Len(s)]
Pop(s) == SubSeq(s, 1, Len(s) - 1)
WithTop(s, e) == [s EXCEPT ![Len(s)] = e]

AreaOf(level) == level.parts[level.idx + 1]
Area == AreaOf(Top(stack))
Past(level) == level.idx >= Len(level.parts)
IsImplicit(level) == level.checkdIfImplicit /\ level.implicitSplit # NoSplit
Pos(a) == <<a.x, a.y>>
Rect(x, y, w, h) == [x |-> x, y |-> y, w |-> w, h |-> h]

InPicture(x, y) == x < cfg.picW /\ y < cfg.picH

MinOf(m, n) == IF m < n THEN m ELSE n
\* the samples of an area that lie in the picture
Visible(a) == IF InPicture(a.x, a.y)
              THEN MinOf(a.w, cfg.picW - a.x) * MinOf(a.h, cfg.picH - a.y)
              ELSE 0

----------------------------------------------------------------------------
(* The parts of an area: getCUSubPartitions, getMaxTuTiling, getSbtTuTiling. *)
InFour(k, m) == (k * m) \div 4

QuadParts(a) ==
  LET w == a.w \div 2
      h == a.h \div 2
  IN [i \in 1 .. 4 |-> Rect(a.x + w * ((i - 1) % 2), a.y + h * ((i - 1) \div 2), w, h)]

\* parts that start and extend over the given quarters of the area
Across(a, from, len) ==
  [i \in 1 .. Len(from) |-> Rect(a.x + InFour(a.w, from[i]), a.y, InFour(a.w, len[i]), a.h)]
Down(a, from, len) ==
  [i \in 1 .. Len(from) |-> Rect(a.x, a.y + InFour(a.h, from[i]), a.w, InFour(a.h, len[i]))]

\* mutant: the middle part of a ternary split starts after a half
TriPartsWrongOffset(a, s) ==
  IF s = TriH THEN Down(a, <<0, 2, 3>>, <<1, 2, 1>>) ELSE Across(a, <<0, 2, 3>>, <<1, 2, 1>>)
TriParts(a, s) ==
  IF s = TriH THEN Down(a, <<0, 1, 3>>, <<1, 2, 1>>) ELSE Across(a, <<0, 1, 3>>, <<1, 2, 1>>)

MaxTuParts(a) ==
  LET size == IF a.w > 64 \/ a.h > 64 THEN 64 ELSE cfg.maxTb
      across == IF a.w >= size THEN a.w \div size ELSE 1
      down == IF a.h >= size THEN a.h \div size ELSE 1
      w == a.w \div across
      h == a.h \div down
  IN [i \in 1 .. across * down |->
        Rect(a.x + w * ((i - 1) % across), a.y + h * ((i - 1) \div across), w, h)]

SubPartitions(a, s) ==
  CASE s = Quad -> QuadParts(a)
    [] s \in {Vert, "SBT_VER_HALF"} -> Across(a, <<0, 2>>, <<2, 2>>)
    [] s \in {Horz, "SBT_HOR_HALF"} -> Down(a, <<0, 2>>, <<2, 2>>)
    [] s \in Tt -> TriParts(a, s)
    [] s = TuMax -> MaxTuParts(a)
    [] s = "SBT_VER_QUAD_POS0" -> Across(a, <<0, 1>>, <<1, 3>>)
    [] s = "SBT_VER_QUAD_POS1" -> Across(a, <<0, 3>>, <<3, 1>>)
    [] s = "SBT_HOR_QUAD_POS0" -> Down(a, <<0, 1>>, <<1, 3>>)
    [] s = "SBT_HOR_QUAD_POS1" -> Down(a, <<0, 3>>, <<3, 1>>)

----------------------------------------------------------------------------
(* getImplicitSplit: the split the picture boundary, or a dual intra tree  *)
(* above 64 samples, prescribes for an area a reached with the counters c. *)
(* The answer is cached in the level.                                      *)
PrescribedSplit(a, c) ==
  LET blIn == InPicture(a.x, a.y + a.h - 1)
      trIn == InPicture(a.x + a.w - 1, a.y)
      isBtAllowed == /\ a.w <= cfg.maxBt /\ a.h <= cfg.maxBt
                     /\ c.mt < cfg.maxBtDepth + c.implicitBt
      isQtAllowed == a.w > cfg.minQt /\ a.h > cfg.minQt /\ c.bt = 0
  IN IF cfg.dualITree /\ (a.w > 64 \/ a.h > 64) THEN Quad
     ELSE IF blIn /\ trIn THEN NoSplit
     ELSE IF ~blIn /\ ~trIn /\ isQtAllowed THEN Quad
     ELSE IF ~blIn /\ isBtAllowed /\ a.w <= MAX_TB_SIZEY THEN Horz
     ELSE IF ~trIn /\ isBtAllowed /\ a.h <= MAX_TB_SIZEY THEN Vert
     ELSE Quad

ComputeImplicitSplit == PrescribedSplit(Area, curr)

ImplicitSplit ==
  IF Top(stack).checkdIfImplicit THEN Top(stack).implicitSplit ELSE ComputeImplicitSplit

\* the level after getImplicitSplit was asked
Checked(level) == [level EXCEPT !.checkdIfImplicit = TRUE, !.implicitSplit = ImplicitSplit]

----------------------------------------------------------------------------
(* canSplit: what may be done with the current area.                       *)
ChromaW == Area.w \div 2
ChromaSize == (Area.w \div 2) * (Area.h \div 2)
IsChroma == chType = "CHROMA"

\* mutant: the split above is not looked at
CanQtAnywhere == /\ Area.w > cfg.minQt
                 /\ ~(IsChroma /\ ChromaW <= MIN_DUALTREE_CHROMA_WIDTH)
CanQt == /\ Top(stack).split \in {"CTU_LEVEL", Quad}
         /\ Area.w > cfg.minQt
         /\ ~(IsChroma /\ ChromaW <= MIN_DUALTREE_CHROMA_WIDTH)

CanBtt ==
  LET small(size) == Area.w <= size /\ Area.h <= size
      large(size) == Area.w > size \/ Area.h > size
  IN /\ curr.mt < cfg.maxBtDepth + curr.implicitBt
     /\ ~small(cfg.minCb)
     /\ ~(large(cfg.maxBt) /\ large(cfg.maxTt))

\* a binary split of the middle part of a ternary split, in its direction
ParallelToTt(s) ==
  /\ Top(stack).split \in Tt /\ Top(stack).idx = 1
  /\ s = IF Top(stack).split = TriH THEN Horz ELSE Vert

CanBt(s) ==
  LET size == IF s = Horz THEN Area.h ELSE Area.w
      across == IF s = Horz THEN Area.w ELSE Area.h
  IN /\ ~ParallelToTt(s)
     /\ Area.w <= cfg.maxBt /\ Area.h <= cfg.maxBt
     /\ size > cfg.minCb
     /\ ~(across > MAX_TB_SIZEY /\ size <= MAX_TB_SIZEY)
     /\ IsChroma => /\ ChromaSize > MIN_DUALTREE_CHROMA_SIZE
                    /\ s = Vert => ChromaW # 4
     /\ ~(modeType = "INTER" /\ Area.w * Area.h = 32)

CanTt(s) ==
  LET size == IF s = TriH THEN Area.h ELSE Area.w
  IN /\ size > 2 * cfg.minCb
     /\ Area.w <= cfg.maxTt /\ Area.h <= cfg.maxTt
     /\ Area.w <= MAX_TB_SIZEY /\ Area.h <= MAX_TB_SIZEY
     /\ IsChroma => /\ ChromaSize > 2 * MIN_DUALTREE_CHROMA_SIZE
                    /\ s = TriV => ChromaW # 8
     /\ ~(modeType = "INTER" /\ Area.w * Area.h = 64)

QtIfAllowed == IF CanQt THEN {Quad} ELSE {}

\* at an implicit split only that split, or a quad split, is left
UnderImplicit ==
  LET dir == {s \in Bt : s = ImplicitSplit /\ ~(s = Vert /\ IsChroma /\ ChromaW = 4)}
  IN IF dir = {} THEN {Quad} ELSE dir \cup QtIfAllowed

Permitted ==
  CASE treeType = "TREE_C" -> {NoSplit}
    [] treeType # "TREE_C" /\ ImplicitSplit # NoSplit -> UnderImplicit
    [] OTHER -> {NoSplit} \cup QtIfAllowed
                \cup {s \in Bt : CanBtt /\ CanBt(s)} \cup {s \in Tt : CanBtt /\ CanTt(s)}

CanSplitTu(s) ==
  IF s = TuMax THEN Area.w > cfg.maxTb \/ Area.h > cfg.maxTb
  ELSE curr.tr = 0

\* checkAllowedSbt: the sizes at which an inter CU may use a sub-block transform
SbtAllowed(s) ==
  LET size == IF s \in {"SBT_VER_HALF", "SBT_VER_QUAD_POS0", "SBT_VER_QUAD_POS1"}
              THEN Area.w ELSE Area.h
  IN /\ Area.w <= cfg.maxTb /\ Area.h <= cfg.maxTb
     /\ size >= IF s \in SbtQuad THEN 16 ELSE 8
     /\ ~cfg.intra /\ modeType # "INTRA"
----------------------------------------------------------------------------
(* splitCurrArea, nextPart and exitCurrSplit on the counters.              *)
NoCounters == [depth |-> 0, qt |-> 0, tr |-> 0, bt |-> 0, mt |-> 0,
               sub |-> 0, implicitBt |-> 0, qgPos |-> <<0, 0>>]

QgMove(c, qg, a) == IF qg THEN [c EXCEPT !.qgPos = Pos(a)] ELSE c

\* how much deeper in binary splits the part idx of a split lies
BtDepths(s, idx) == IF s \in Mt THEN (IF s \in Tt /\ idx # 1 THEN 2 ELSE 1) ELSE 0
Subdivs(s, idx) == IF s = Quad THEN 2 ELSE IF s \in Mt THEN BtDepths(s, idx) ELSE 1
One(condition) == IF condition THEN 1 ELSE 0

CountersAfterSplit(c, s, implicit) ==
  [depth |-> c.depth + 1,
   qt    |-> c.qt + One(s = Quad),
   tr    |-> IF s \in TuSplits THEN c.tr + 1 ELSE 0,
   mt    |-> IF s = Quad THEN 0 ELSE c.mt + One(s \in Mt),
   bt    |-> IF s = Quad THEN 0 ELSE c.bt + BtDepths(s, 0),
   sub   |-> c.sub + Subdivs(s, 0),
   implicitBt |-> c.implicitBt + One(s \in Mt /\ implicit),
   qgPos |-> c.qgPos]

QgAfterSplit(level, c) == level.qg /\ c.sub <= cfg.cuQpDeltaSubdiv

NewLevel(s, a, qg) ==
  [split |-> s, parts |-> SubPartitions(a, s), idx |-> 0,
   checkdIfImplicit |-> FALSE, implicitSplit |-> NoSplit, qg |-> qg]

\* the level has already moved on to part idx
CountersAtNextPart(c, level) ==
  LET by == IF level.split \in Tt THEN (IF level.idx = 1 THEN -1 ELSE 1) ELSE 0
  IN [depth |-> c.depth, qt |-> c.qt, tr |-> c.tr, mt |-> c.mt, bt |-> c.bt + by,
      sub |-> c.sub + by, implicitBt |-> c.implicitBt, qgPos |-> c.qgPos]

CountersBefore(c, s, idx, implicit) ==
  [depth |-> c.depth - 1,
   qt    |-> c.qt - One(s = Quad),
   tr    |-> c.tr - One(s \in TuSplits),
   mt    |-> c.mt - One(s \in Mt),
   bt    |-> c.bt - BtDepths(s, idx),
   sub   |-> c.sub - Subdivs(s, idx),
   implicitBt |-> c.implicitBt - One(s \in Mt /\ implicit),
   qgPos |-> c.qgPos]
\* mutant: the second bt level of a ternary split is always taken back
CountersAtExitBlind(c, level, implicit) == CountersBefore(c, level.split, 0, implicit)
\* idx is the part the split is left at, which may be any
CountersAtExit(c, level, implicit) == CountersBefore(c, level.split, level.idx, implicit)

----------------------------------------------------------------------------
(* signalModeCons: which mode types the parts of a split may have.         *)
ModeConsInherits(s) ==
  LET least == (Area.w * Area.h) \div IF s \in Bt THEN 2 ELSE 4
      is2xNChroma == (ChromaW = 4 /\ s = Vert) \/ (ChromaW = 8 /\ s = TriV)
  IN \/ cfg.dualITree \/ modeType # "ALL"
     \/ least \div 4 >= 16 /\ ~is2xNChroma

\* mutant: blocks 2 chroma samples wide are not seen
ChildModesIgnoring2xN(s) ==
  LET least == (Area.w * Area.h) \div IF s \in Bt THEN 2 ELSE 4
  IN IF cfg.dualITree \/ modeType # "ALL" \/ least \div 4 >= 16 THEN {modeType}
     ELSE IF least < 32 \/ cfg.intra THEN {"INTRA"} ELSE {"INTER", "INTRA"}
ChildModes(s) ==
  LET least == (Area.w * Area.h) \div IF s \in Bt THEN 2 ELSE 4
  IN IF ModeConsInherits(s) THEN {modeType}
     ELSE IF least < 32 \/ cfg.intra THEN {"INTRA"} ELSE {"INTER", "INTRA"}

----------------------------------------------------------------------------
Init ==
  /\ cfg \in Configs
  /\ stack = << [split |-> "CTU_LEVEL", parts |-> <<Rect(0, 0, cfg.ctu, cfg.ctu)>>, idx |-> 0,
                 checkdIfImplicit |-> FALSE, implicitSplit |-> NoSplit, qg |-> TRUE] >>
  /\ curr = NoCounters
  /\ chType = cfg.ch /\ treeType = "TREE_D" /\ modeType = "ALL"
  /\ at = "cu" /\ coded = 0 /\ frames = <<>>

Frame(child) ==
  [ch |-> chType, tree |-> treeType, mode |-> modeType, childMode |-> child,
   coded |-> coded, done |-> 0, base |-> curr]

\* an unsplit coding of the current CU that needs no transform split
Leaf ==
  /\ at = "cu" /\ NoSplit \in Permitted /\ ~CanSplitTu(TuMax)
  /\ coded' = Area.w * Area.h
  /\ stack' = WithTop(stack, Checked(Top(stack)))
  /\ UNCHANGED <<cfg, curr, walkVars, at, frames>>

\* splitCurrArea, for the parts' mode type and the place to go on at
SplitCurrArea(s, child, place) ==
  LET implicit == s = ImplicitSplit
      counters == CountersAfterSplit(curr, s, implicit)
      qg == QgAfterSplit(Top(stack), counters)
      level == NewLevel(s, Area, qg)
  IN /\ stack' = Append(WithTop(stack, Checked(Top(stack))), level)
     /\ curr' = QgMove(counters, qg, AreaOf(level))
     /\ frames' = Append(frames, Frame(child))
     /\ at' = place /\ coded' = 0
     /\ UNCHANGED <<cfg, chType>>

PartsTooSmall(s) ==
  \E i \in DOMAIN SubPartitions(Area, s) :
    LET part == SubPartitions(Area, s)[i]
    IN part.h < MIN_TB_SIZEY \/ part.w < MIN_TB_SIZEY

\* the CHECKs of splitCurrArea and getCUSubPartitions, which end the encoder
SplitThrows(s) == (s = Quad /\ (curr.bt > 0 \/ curr.mt > 0)) \/ PartsTooSmall(s)

\* xCheckModeSplit up to the first part
Split(s, child) ==
  /\ at = "cu" /\ s \in Permitted \ {NoSplit} /\ child \in ChildModes(s)
  /\ ~SplitThrows(s)
  /\ SplitCurrArea(s, child, "cu")
  /\ modeType' = child
  /\ treeType' = IF treeType # "TREE_D" THEN treeType
                 ELSE IF modeType = "ALL" /\ child = "INTRA" THEN "TREE_L" ELSE "TREE_D"

\* an unsplit CU whose residual is coded in several transform units
SplitTu(s) ==
  /\ at \in {"cu", "tu"} /\ CanSplitTu(s)
  /\ at = "cu" => NoSplit \in Permitted
  /\ s \in Sbt => at = "cu" /\ SbtAllowed(s)
  /\ SplitCurrArea(s, modeType, "tu")
  /\ UNCHANGED <<treeType, modeType>>

CodeTu ==
  /\ at = "tu" /\ coded = 0 /\ ~CanSplitTu(TuMax)
  /\ coded' = Area.w * Area.h
  /\ UNCHANGED <<cfg, stack, curr, walkVars, at, frames>>

\* mutant: the answer for the part before is still cached
NextPartKeepsCache ==
  LET level == [Top(stack) EXCEPT !.idx = @ + 1]
      last == Past(level)
      moved == CountersAtNextPart(curr, level)
      outside == ~InPicture(AreaOf(level).x, AreaOf(level).y)
  IN /\ Len(stack) > 1
     /\ at = "out" \/ (at \in {"cu", "tu"} /\ coded > 0)
     /\ stack' = WithTop(stack, level)
     /\ frames' = [frames EXCEPT ![Len(frames)].done = @ + coded]
     /\ coded' = 0
     /\ curr' = IF last THEN curr ELSE QgMove(moved, level.qg, AreaOf(level))
     /\ at' = IF last THEN "past"
              ELSE IF level.split \in TuSplits THEN "tu"
              ELSE IF outside THEN "out" ELSE "cu"
     /\ UNCHANGED <<cfg, walkVars>>
\* nextPart: the part is coded, or it lies outside the picture
NextPart ==
  LET level == [Top(stack) EXCEPT !.idx = @ + 1, !.checkdIfImplicit = FALSE]
      last == Past(level)
      moved == CountersAtNextPart(curr, level)
      outside == ~InPicture(AreaOf(level).x, AreaOf(level).y)
  IN /\ Len(stack) > 1
     /\ at = "out" \/ (at \in {"cu", "tu"} /\ coded > 0)
     /\ stack' = WithTop(stack, level)
     /\ frames' = [frames EXCEPT ![Len(frames)].done = @ + coded]
     /\ coded' = 0
     /\ curr' = IF last THEN curr ELSE QgMove(moved, level.qg, AreaOf(level))
     /\ at' = IF last THEN "past"
              ELSE IF level.split \in TuSplits THEN "tu"
              ELSE IF outside THEN "out" ELSE "cu"
     /\ UNCHANGED <<cfg, walkVars>>

\* mutant: the quantisation group stays where the last part put it
PoppedKeepsQg ==
  LET below == Pop(stack)
  IN /\ stack' = below
     /\ curr' = CountersAtExit(curr, Top(stack), IsImplicit(Top(below)))
Popped ==
  LET below == Pop(stack)
      up == CountersAtExit(curr, Top(stack), IsImplicit(Top(below)))
  IN /\ stack' = below
     /\ curr' = QgMove(up, Top(below).qg, AreaOf(Top(below)))

\* what xCompressCU recovers after xCheckModeSplit
Recover ==
  /\ chType' = Top(frames).ch /\ treeType' = Top(frames).tree /\ modeType' = Top(frames).mode
  /\ frames' = Pop(frames)

PlaceBelow == IF Top(Pop(stack)).split \in TuSplits THEN "tu" ELSE "cu"

ChromaNotSplit == Top(frames).mode = "ALL" /\ Top(frames).childMode = "INTRA"

\* mutant: the mode type of the parts stays in force
ExitCurrSplitKeepsMode ==
  /\ at = "past" /\ ~(Top(stack).split \in CuSplits /\ ChromaNotSplit)
  /\ Popped
  /\ chType' = Top(frames).ch /\ treeType' = Top(frames).tree /\ modeType' = modeType
  /\ frames' = Pop(frames)
  /\ at' = PlaceBelow /\ coded' = Top(frames).done
  /\ UNCHANGED cfg
\* all parts were visited
ExitCurrSplit ==
  /\ at = "past" /\ ~(Top(stack).split \in CuSplits /\ ChromaNotSplit)
  /\ Popped /\ Recover
  /\ at' = PlaceBelow /\ coded' = Top(frames).done
  /\ UNCHANGED cfg

\* the luma parts of an intra region are done: its chroma comes now
EnterLocalChroma ==
  /\ at = "past" /\ Top(stack).split \in CuSplits /\ ChromaNotSplit
  /\ Popped
  /\ chType' = "CHROMA" /\ treeType' = "TREE_C"
  /\ at' = "chroma" /\ coded' = 0
  /\ UNCHANGED <<cfg, modeType, frames>>

CodeLocalChroma ==
  /\ at = "chroma" /\ NoSplit \in Permitted
  /\ Recover
  /\ at' = "cu" /\ coded' = Top(frames).done
  /\ UNCHANGED <<cfg, stack, curr>>

\* xCheckModeSplit gives up: the part found no coding, or an intra region
\* already costs more than the best coding of the CU
Abort ==
  /\ at = "cu" /\ Len(stack) > 1
  /\ \/ coded = 0 /\ Top(stack).split \in Mt
     \/ coded > 0 /\ ~cfg.intra /\ modeType = "INTRA" /\ Top(frames).coded > 0
  /\ Popped /\ Recover
  /\ at' = "cu" /\ coded' = Top(frames).coded
  /\ UNCHANGED cfg

Next ==
  \/ Leaf \/ CodeTu \/ NextPart \/ ExitCurrSplit \/ EnterLocalChroma \/ CodeLocalChroma \/ Abort
  \/ \E s \in CuSplits, m \in {"ALL", "INTER", "INTRA"} : Split(s, m)
  \/ \E s \in TuSplits : SplitTu(s)

Spec == Init /\ [][Next]_vars
----------------------------------------------------------------------------
(* Properties.                                                             *)

Places == {"cu", "out", "tu", "past", "chroma"}
Counters == [depth : Nat, qt : Nat, tr : Nat, bt : Nat, mt : Nat, sub : Nat,
             implicitBt : Nat, qgPos : Nat \X Nat]

\* The counters are unsigned and never go below zero, and one frame is kept
\* per open split.  (Proved in UnitPartitionerProofs.)
TypeOK ==
  /\ cfg \in Configs
  /\ curr \in Counters
  /\ at \in Places /\ coded \in Nat
  /\ chType \in {"LUMA", "CHROMA"}
  /\ treeType \in {"TREE_D", "TREE_L", "TREE_C"}
  /\ modeType \in {"ALL", "INTER", "INTRA"}
  /\ Len(stack) >= 1
  /\ Len(frames) = Len(stack) - (IF at = "chroma" THEN 0 ELSE 1)

\* Leaving a split, after its last part or in the middle, gives back the
\* counters and the quantisation group the CU had before the split.
ExitRestoresCounters ==
  [][Len(stack') < Len(stack) => curr' = Top(frames).base]_vars

\* When a split is over, the CU is again of the channel, tree and mode type it
\* was entered with, though the local dual tree changed all three (EncCu.cpp:958).
ExitRestoresTree ==
  [][Len(frames') < Len(frames) =>
       <<chType', treeType', modeType'>> = <<Top(frames).ch, Top(frames).tree, Top(frames).mode>>]_vars

\* The quantisation group starts at the current part of the deepest level that
\* still opens groups: predictQP of every CU in it refers to this position.
QgStartsAtDeepestGroup ==
  LET open == {i \in 1 .. Len(stack) : stack[i].qg}
      deepest == CHOOSE i \in open : \A j \in open : j <= i
  IN ~Past(stack[deepest]) => curr.qgPos = Pos(AreaOf(stack[deepest]))

\* What canSplit permits never runs into a CHECK: a quad split that the
\* boundary leaves as the only way is never below a binary one, and no part
\* is smaller than the least transform.
NoCheckFires == at = "cu" => \A s \in Permitted \ {NoSplit} : ~SplitThrows(s)

Disjoint(a, b) == a.x + a.w <= b.x \/ b.x + b.w <= a.x \/ a.y + a.h <= b.y \/ b.y + b.h <= a.y
Within(a, b) == /\ a.x >= b.x /\ a.x + a.w <= b.x + b.w
                /\ a.y >= b.y /\ a.y + a.h <= b.y + b.h

PartsLieApart ==
  \A n \in 2 .. Len(stack) :
    LET parts == stack[n].parts
    IN /\ \A i \in DOMAIN parts : Within(parts[i], AreaOf(stack[n - 1]))
       /\ \A i, j \in DOMAIN parts : i # j => Disjoint(parts[i], parts[j])

CodedCoversVisibleArea ==
  at \in {"cu", "tu"} => coded \in {0, Visible(Area)}

\* The parts of every open split, of CUs and of TUs, are apart from each other
\* and inside the area they divide; and what was coded of a CU, over all the
\* splits below it, is exactly what its area has in the picture: no CU crosses
\* the boundary and nothing is missed.
PartsDivideTheArea == PartsLieApart /\ CodedCoversVisibleArea

\* The local dual tree keeps every block codable (CodingStructure.cpp,
\* signalModeCons): chroma of an intra CU has at least 16 samples and is at least
\* 4 wide, and an inter CU is never 4x4.
BlocksLargeEnough ==
  LET wideEnough == ChromaSize >= 16 /\ ChromaW >= 4
      codesChroma == at = "cu" /\ coded > 0 /\ treeType = "TREE_D" /\ (~cfg.dualITree \/ IsChroma)
  IN /\ (codesChroma /\ modeType # "INTER") \/ at = "chroma" => wideEnough
     /\ at = "cu" /\ coded > 0 /\ ~cfg.intra /\ modeType # "INTRA" => Area.w * Area.h > 16

\* The cached implicit split is what getImplicitSplit would answer now, though
\* counters, channel and mode type changed and came back in between.
CachedSplitIsCurrent ==
  at \in {"cu", "tu"} /\ Top(stack).checkdIfImplicit
    => Top(stack).implicitSplit = ComputeImplicitSplit
=============================================================================
