------------------------------- MODULE CuTree -------------------------------
(***************************************************************************)
(* The search of one CTU of an inter slice over all its levels             *)
(* (EncCu::xCompressCU with xCheckModeSplit), as far as it moves the       *)
(* history of motion candidates (HMVP, CodingStructure::motionLut) and the *)
(* cache of codings found before (BestEncInfoCache).                       *)
(*                                                                         *)
(* The decoder keeps one history and appends to it CU by CU.  The encoder  *)
(* tries codings in many orders: every structure of a level has a history  *)
(* of its own, which must be, whenever a CU is searched, the one that the  *)
(* decoder will have there.  A CU reached again by other splits takes the  *)
(* coding found the first time, if its neighbourhood is the same; its      *)
(* merge index then stands for a candidate of today's history.             *)
(*                                                                         *)
(* One level's choice of modes is in CompressCU: here its unsplit modes    *)
(* are one test, which finds in an area what content says, and any split   *)
(* may be passed over.  Left out: costs (any test may win), IBC with its   *)
(* history of its own, geometric partitions (like affine here), several    *)
(* QPs, chroma (its structures leave the history alone), and the spatial   *)
(* candidates, which isTheSameNbHood makes equal as well.                  *)
(***************************************************************************)
EXTENDS Integers, Sequences, SequencesExt

CONSTANTS
  Ctus,                \* the CTUs: [area, content, lut, qtBeforeBt]
  MAX_NUM_HMVP_CANDS   \* room in the history

ZeroMotion == 0

ASSUME CandsAssumption == MAX_NUM_HMVP_CANDS \in Nat \ {0}

(***************************************************************************)
(* Areas are [x, y, w, h].                                                 *)
(***************************************************************************)
Area(x, y, w, h) == [x |-> x, y |-> y, w |-> w, h |-> h]

\* sides are powers of two, up to a CTU's; in units of the smallest
Sides == {1, 2, 4, 8, 16, 32, 64, 128}
Areas == [x : Nat, y : Nat, w : Sides, h : Sides]

\* PartitionerImpl::getCUSubPartitions
Parts(a, s) ==
  CASE s = "QUAD" -> <<Area(a.x, a.y, a.w \div 2, a.h \div 2),
                       Area(a.x + a.w \div 2, a.y, a.w \div 2, a.h \div 2),
                       Area(a.x, a.y + a.h \div 2, a.w \div 2, a.h \div 2),
                       Area(a.x + a.w \div 2, a.y + a.h \div 2, a.w \div 2, a.h \div 2)>>
    [] s = "HORZ" -> <<Area(a.x, a.y, a.w, a.h \div 2),
                       Area(a.x, a.y + a.h \div 2, a.w, a.h \div 2)>>
    [] s = "VERT" -> <<Area(a.x, a.y, a.w \div 2, a.h),
                       Area(a.x + a.w \div 2, a.y, a.w \div 2, a.h)>>
    [] s = "TRIH" -> <<Area(a.x, a.y, a.w, a.h \div 4),
                       Area(a.x, a.y + a.h \div 4, a.w, a.h \div 2),
                       Area(a.x, a.y + 3 * (a.h \div 4), a.w, a.h \div 4)>>
    [] s = "TRIV" -> <<Area(a.x, a.y, a.w \div 4, a.h),
                       Area(a.x + a.w \div 4, a.y, a.w \div 2, a.h),
                       Area(a.x + 3 * (a.w \div 4), a.y, a.w \div 4, a.h)>>

\* As far as the size allows; UnitPartitioner has the rules.  No quad split is
\* below another split.
CanSplit(lv, s) ==
  CASE s = "QUAD" -> /\ lv.area.w = lv.area.h /\ lv.area.w >= 2
                     /\ \A i \in DOMAIN lv.path : lv.path[i] = "QUAD"
    [] s = "HORZ" -> lv.area.h >= 2
    [] s = "VERT" -> lv.area.w >= 2
    [] s = "TRIH" -> lv.area.h >= 4
    [] s = "TRIV" -> lv.area.w >= 4

\* The order in which they come from the stack of test modes (QT_BEFORE_BT
\* looks at the neighbours' depths).
TestModes(qtBeforeBt) ==
  IF qtBeforeBt THEN <<"QUAD", "HORZ", "VERT", "TRIH", "TRIV">>
                ELSE <<"HORZ", "VERT", "TRIH", "TRIV", "QUAD">>

(***************************************************************************)
(* CTUs: content is what the search finds in each area that splits reach,  *)
(* a motion of its own or a merge index, counted from 1.                   *)
(***************************************************************************)
Splits == {"QUAD", "HORZ", "VERT", "TRIH", "TRIV"}
Contents == [mode : {"new", "affine", "intra"}, arg : Nat] \cup [mode : {"merge"}, arg : Nat \ {0}]
Luts == {lut \in Seq(Nat) : Len(lut) <= MAX_NUM_HMVP_CANDS}

ASSUME CtusAssumption ==
  \A c \in Ctus :
    /\ c.area \in Areas /\ c.lut \in Luts
    /\ c.area \in DOMAIN c.content
    /\ \A a \in DOMAIN c.content :
         /\ c.content[a] \in Contents
         /\ \A s \in Splits : CanSplit([area |-> a, path |-> <<>>], s) =>
              \A k \in DOMAIN Parts(a, s) : Parts(a, s)[k] \in DOMAIN c.content

(***************************************************************************)
(* Motion and its history                                                  *)
(***************************************************************************)
\* addMiToLut: a motion that is there moves to the end, else the oldest goes
AddMiToLut(lut, mi) ==
  LET same == SelectInSeq(lut, LAMBDA m : m = mi)
  IN IF same # 0 THEN Append(RemoveAt(lut, same), mi)
     ELSE Append(IF Len(lut) = MAX_NUM_HMVP_CANDS THEN Tail(lut) ELSE lut, mi)

\* addMergeHMVPCand: a merge index counts from the newest candidate, behind the
\* oldest is zero motion (getInterMergeCandidates); explicit motion stands for
\* itself, its predictor is left out
DeriveMotion(cu, lut) ==
  CASE cu.mode = "new" -> cu.arg
    [] cu.mode = "merge" -> IF cu.arg <= Len(lut) THEN lut[Len(lut) + 1 - cu.arg] ELSE ZeroMotion
    [] OTHER -> ZeroMotion

\* saveMotionInHMVP of a CU that is inter
SaveMotionInHMVP(lut, cu) ==
  IF cu.mode \in {"new", "merge"} THEN AddMiToLut(lut, cu.motion) ELSE lut

VARIABLES
  ctu,     \* the CTU that is compressed
  levels,  \* the calls of xCompressCU, the CTU's first
  cache,   \* m_bestEncInfo: the areas with an entry, and the CU in it
  final    \* the structure compressCtu hands on, or no coding

vars == <<ctu, levels, cache, final>>

\* A coding structure: its history and its CUs; no CUs is a cost of MAX_DOUBLE.
\* A CU is [area, path, mode, arg, motion, found]: path is its split series,
\* found the motion it had when it was searched.
NoCoding(lut) == [lut |-> lut, cus |-> <<>>]

\* xCompressCU begins: both structures inherit the history
Level(area, path, lut) ==
  [area |-> area, path |-> path, best |-> NoCoding(lut), temp |-> NoCoding(lut),
   stage |-> "unsplit", next |-> 1, split |-> "none", part |-> 0, oldLut |-> lut]

Init ==
  /\ ctu \in Ctus
  /\ levels = <<Level(ctu.area, <<>>, ctu.lut)>>
  /\ cache = <<>>
  /\ final = NoCoding(ctu.lut)

Cur == Last(levels)
Above == levels[Len(levels) - 1]
WithCur(lv) == [levels EXCEPT ![Len(levels)] = lv]

\* xCheckBestMode: the better structure becomes the best, the other is used for
\* the next test
CheckBestMode(lv, better) == IF better THEN [lv EXCEPT !.best = lv.temp, !.temp = lv.best] ELSE lv
Start(lv) == [lv EXCEPT !.temp.cus = <<>>]

(***************************************************************************)
(* The cache                                                               *)
(***************************************************************************)
\* getSplitAtDepth for all depths
SplitAt(path, i) == IF i <= Len(path) THEN path[i] ELSE "none"

\* the area in which the walk stands below the first n splits of its path
AncestorArea(n) == levels[n + 1].area

CommonDepth(cu, path) ==
  CHOOSE n \in 0 .. Len(path) :
    /\ \A i \in 1 .. n : path[i] = SplitAt(cu.path, i)
    /\ n = Len(path) \/ path[n + 1] # SplitAt(cu.path, n + 1)

\* mutant: the position in the common ancestor is not looked at
SameSplitsOnly(cu, path) == CommonDepth(cu, path) >= 0

\* nothing of the deepest common ancestor comes before the CU
IsTheSameNbHood(cu, path) ==
  LET cmnAnc == AncestorArea(CommonDepth(cu, path))
  IN cmnAnc.x = cu.area.x /\ cmnAnc.y = cu.area.y

\* isValid
IsValid(lv) ==
  lv.area \in DOMAIN cache /\ IsTheSameNbHood(cache[lv.area], lv.path)

\* setFromCs, at the end of the unsplit modes
SetFromCs(lv) ==
  cache' = IF Len(lv.best.cus) # 1 THEN cache
           ELSE [a \in DOMAIN cache \cup {lv.area} |-> IF a = lv.area THEN lv.best.cus[1] ELSE cache[a]]

(***************************************************************************)
(* The steps of the search                                                 *)
(***************************************************************************)
\* xReuseCachedResult, setCUData, xDeriveCUMV: the CU takes its place in this
\* tree and its motion from this history
Reused(lv) ==
  LET cu == cache[lv.area]
  IN [cu EXCEPT !.path = lv.path, !.motion = DeriveMotion(cu, lv.temp.lut)]

Searched(lv) ==
  LET cu == ctu.content[lv.area]
      motion == DeriveMotion(cu, lv.temp.lut)
  IN [area |-> lv.area, path |-> lv.path, mode |-> cu.mode, arg |-> cu.arg,
      motion |-> motion, found |-> motion]

\* The unsplit modes, or the one cached in their place; they may all end
\* early and deliver nothing.
TestUnsplit ==
  /\ levels # <<>> /\ Cur.stage = "unsplit"
  /\ \E delivers \in BOOLEAN :
       LET cu == IF IsValid(Cur) THEN Reused(Cur) ELSE Searched(Cur)
           lv == CheckBestMode([Start(Cur) EXCEPT !.temp.cus = <<cu>>], delivers)
       IN /\ levels' = WithCur([lv EXCEPT !.stage = "split"])
          /\ SetFromCs(lv)
  /\ UNCHANGED <<ctu, final>>

\* xCheckModeSplit enters the first part; earlier modes in the list were not
\* tried, or given up by their first estimate
EnterSplit ==
  /\ levels # <<>> /\ Cur.stage = "split"
  /\ \E k \in Cur.next .. 5 : \E split \in {TestModes(ctu.qtBeforeBt)[k]} :
       /\ CanSplit(Cur, split)
       /\ LET lv == [Start(Cur) EXCEPT !.stage = "parts", !.next = k + 1, !.split = split,
                                       !.part = 1, !.oldLut = Cur.temp.lut]
          IN levels' = Append(WithCur(lv), Level(Parts(lv.area, lv.split)[1],
                                                 Append(lv.path, lv.split), lv.temp.lut))
  /\ UNCHANGED <<ctu, cache, final>>

\* The end of xCompressCU: an unsplit inter CU joins the history
Ended(lv) ==
  IF Len(lv.best.cus) = 1 /\ lv.best.cus[1].area = lv.area
  THEN [lv.best EXCEPT !.lut = SaveMotionInHMVP(@, lv.best.cus[1])]
  ELSE lv.best

\* mutant: an abandoned split leaves its history behind
KeepsLut(lv) == [lv EXCEPT !.stage = "split"]
\* the history as it was before the split
Restored(lv) == [lv EXCEPT !.stage = "split", !.temp.lut = lv.oldLut]

\* useSubStructure
WithPart(lv, sub) == [lv EXCEPT !.temp = [lut |-> sub.lut, cus |-> @.cus \o sub.cus]]

\* A part ends with a coding, and others follow.
NextPart ==
  /\ Len(levels) > 1 /\ Cur.stage = "split" /\ Cur.best.cus # <<>>
  /\ Above.part < Len(Parts(Above.area, Above.split))
  /\ LET lv == [WithPart(Above, Ended(Cur)) EXCEPT !.part = @ + 1]
     IN levels' = SubSeq(levels, 1, Len(levels) - 2) \o
          <<lv, Level(Parts(lv.area, lv.split)[lv.part], Cur.path, lv.temp.lut)>>
  /\ UNCHANGED <<ctu, cache, final>>

\* The last part ends with a coding: the split is compared with the best.
EndSplit ==
  /\ Len(levels) > 1 /\ Cur.stage = "split" /\ Cur.best.cus # <<>>
  /\ Above.part = Len(Parts(Above.area, Above.split))
  /\ \E better \in BOOLEAN :
       /\ Above.best.cus = <<>> => better
       /\ levels' = Append(SubSeq(levels, 1, Len(levels) - 2),
                           Restored(CheckBestMode(WithPart(Above, Ended(Cur)), better)))
  /\ UNCHANGED <<ctu, cache, final>>

\* A part ends without a coding: the split is abandoned.  In a quad split this
\* does not happen (CompressCU).
AbandonSplit ==
  /\ Len(levels) > 1 /\ Cur.stage = "split" /\ Cur.best.cus = <<>>
  /\ Above.split # "QUAD"
  /\ levels' = Append(SubSeq(levels, 1, Len(levels) - 2), Restored(Above))
  /\ UNCHANGED <<ctu, cache, final>>

\* compressCtu: the coding goes to the picture
EndCtu ==
  /\ Len(levels) = 1 /\ Cur.stage = "split" /\ Cur.best.cus # <<>>
  /\ final' = Ended(Cur)
  /\ levels' = <<>>
  /\ UNCHANGED <<ctu, cache>>

Next == TestUnsplit \/ EnterSplit \/ NextPart \/ EndSplit \/ AbandonSplit \/ EndCtu

Spec == Init /\ [][Next]_vars

----------------------------------------------------------------------------
\* DecCu::decompressCtu: the history before each CU and after the last
Decode(cus, lut) ==
  LET decoded[n \in 0 .. Len(cus)] ==
        IF n = 0 THEN [lut |-> lut, motions |-> <<>>]
        ELSE LET before == decoded[n - 1]
                 cu == [cus[n] EXCEPT !.motion = DeriveMotion(cus[n], before.lut)]
             IN [lut |-> SaveMotionInHMVP(before.lut, cu), motions |-> Append(before.motions, cu.motion)]
  IN decoded[Len(cus)]

\* The decoder derives for every CU of the coding chosen the motion that the
\* encoder predicted it with, and both begin the next CTU with the same
\* history: whatever was tried, won, lost or was abandoned in between (the
\* restoring of motionLut at the three ends of xCheckModeSplit).
MotionsAgree ==
  final.cus # <<>> =>
    LET decoded == Decode(final.cus, ctu.lut)
    IN /\ decoded.motions = [i \in DOMAIN final.cus |-> final.cus[i].motion]
       /\ decoded.lut = final.lut

\* A coding taken from the cache has the motion that was searched when it was
\* found: isTheSameNbHood lets it pass only where the history, too, is what it
\* was then.
ReusedAsFound ==
  \A i \in DOMAIN levels : \A cs \in {levels[i].best, levels[i].temp} :
    \A j \in DOMAIN cs.cus : cs.cus[j].motion = cs.cus[j].found
=============================================================================
