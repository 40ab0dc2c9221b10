----------------------------- MODULE CompressCU -----------------------------
(***************************************************************************)
(* The search of one CU: EncCu::xCompressCU with the mode controller       *)
(* EncModeCtrlMTnoRQT and the CNN's pruning (FAST_ON).  initCULevel lists  *)
(* the test modes; nextMode drops them while tryMode refuses; each accepted*)
(* mode is tested, and the cheapest result is kept.  At the first split    *)
(* after an unsplit test the network is asked, once; from then on a split  *)
(* it does not permit is passed over.                                      *)
(*                                                                         *)
(* A split test codes the parts by recursion; here it delivers some result *)
(* or none.  The settings are those of run/100_encoder_randomaccess_vtm_   *)
(* gop32.cfg: one QP, LCTUFast, no IBC, palette, hash search, early skip   *)
(* detection, nor content-based QTBT.                                      *)
(***************************************************************************)
EXTENDS NetModes

CONSTANTS
  Cus,          \* the CUs to search: see Legal
  MaxCost,      \* bound: rate-distortion costs are 1 .. MaxCost
  MaxBtDepth    \* getMaxBtDepth of the slice

Bts == {"SPLIT_BT_H", "SPLIT_BT_V"}
Tts == {"SPLIT_TT_H", "SPLIT_TT_V"}
Splits == {"SPLIT_QT"} \cup Bts \cup Tts
InterModes == {"AFFINE", "MERGE_SKIP", "MERGE_GEO", "INTER_ME", "IMV_1", "IMV_3", "IMV_4"}
NonSplits == InterModes \cup {"INTRA", "RECO_CACHED"}
TestModes == NonSplits \cup {"POST_DONT_SPLIT"} \cup Splits

\* What the levels above, the partitioner and the neighbours make of a CU.  Its
\* depths are counters of the partitioner; skipAbove is the run of ancestors
\* whose best unsplit coding was skip, and deep says whether currMtDepth has
\* reached m_skipThreshold.  The QT depth rule (minDepth) and a reusable result
\* exclude each other: it takes neighbours at least two levels deeper, which
\* also put the QT first at every ancestor with the same corner, so that no
\* other path has coded the block before.
Legal(c) ==
  /\ c.slice \in {"B", "I"} /\ c.w \in 4 .. 128 /\ c.h \in 4 .. 128
  /\ c.implicit \in Splits \cup {"DONT_SPLIT"} /\ c.can \subseteq Splits
  /\ c.implicit # "DONT_SPLIT" => c.can # {} /\ c.can \subseteq {c.implicit, "SPLIT_QT"}
  /\ c.mode \in {"ALL", "INTER", "INTRA"}
  /\ Is_Tgt_Size(c.w, c.h) => c.mode = "ALL"
  /\ c.slice = "I" => c.mode # "INTER"
  /\ c.belowMinDepth \in BOOLEAN /\ c.atMaxDepth \in BOOLEAN /\ c.qtBeforeBt \in BOOLEAN
  /\ c.reusing \in BOOLEAN /\ ~(c.reusing /\ c.belowMinDepth)
  /\ c.bt \in Nat /\ c.deep \in BOOLEAN /\ c.skipAbove \in Nat
  /\ c.related \subseteq {"isSkip", "isIntra"}
  /\ c.partsFail \in BOOLEAN

ASSUME CusAssumption == \A c \in Cus : Legal(c)
ASSUME MaxAssumption == MaxCost \in Nat \ {0} /\ MaxBtDepth \in Nat

VARIABLES
  pc,         \* "next": in nextMode; "test": in the loop's body; how it ended
  cu,         \* the CU: never changes
  todo,       \* testModes, a stack filled in the order of Rank
  lastTestMode,
  feature,    \* the extra features of the ComprCUCtx that steer the rules
  best,       \* bestCS and bestCU
  fast,       \* xCompressCU's locals: the network asked, and its answer
  tested,     \* history: the modes tested
  pruned,     \* history: the splits passed over
  noted       \* history: what the network was asked about; the QT given up

vars == <<pc, cu, todo, lastTestMode, feature, best, fast, tested, pruned, noted>>

NoMode == "INVALID"
NoBest == [mode |-> NoMode, cost |-> 0, skip |-> FALSE, cbf |-> FALSE, bt |-> 0, lastBt |-> 0]
Coded == best # NoBest

----------------------------------------------------------------------------
(* initCULevel: which modes are listed, and in which order they come up.   *)

AtBoundary(c) == c.implicit # "DONT_SPLIT"
ForcedQt(c) == c.belowMinDepth /\ "SPLIT_QT" \in c.can
OnlySplits(c) == AtBoundary(c) \/ ForcedQt(c)

Rank(m) ==
  CASE m = "AFFINE" -> 1 [] m = "MERGE_SKIP" -> 2 [] m = "MERGE_GEO" -> 3
    [] m = "INTER_ME" -> 4 [] m = "IMV_1" -> 5 [] m = "IMV_3" -> 6 [] m = "IMV_4" -> 7
    [] m = "INTRA" -> 8 [] m = "RECO_CACHED" -> 9 [] m = "POST_DONT_SPLIT" -> 10
    [] m = "SPLIT_QT" -> IF cu.qtBeforeBt THEN 11 ELSE 16
    [] m = "SPLIT_BT_H" -> 12 [] m = "SPLIT_BT_V" -> 13
    [] m = "SPLIT_TT_H" -> 14 [] m = "SPLIT_TT_V" -> 15

ListedInter(c) ==
  IF c.slice = "B" /\ ~(c.w = 4 /\ c.h = 4) /\ c.mode # "INTRA" THEN InterModes ELSE {}

\* the QT is listed whether or not it is possible
Listed(c) ==
  ListedInter(c)
  \cup (IF c.mode # "INTER" THEN {"INTRA"} ELSE {})
  \cup (IF c.reusing THEN {"RECO_CACHED"} ELSE {})
  \cup {"POST_DONT_SPLIT", "SPLIT_QT"}
  \cup (c.can \cap (Bts \cup Tts))

\* mutant: both binary splits count as done from the start
InitialFeatureDone(c) ==
  [didHorz |-> TRUE, didVert |-> TRUE, didQuad |-> FALSE,
   doTriH |-> TRUE, doTriV |-> TRUE, qtFiner |-> FALSE, noSplitSkip |-> FALSE]
InitialFeature(c) ==
  [didHorz |-> "SPLIT_BT_H" \in c.can, didVert |-> "SPLIT_BT_V" \in c.can, didQuad |-> FALSE,
   doTriH |-> TRUE, doTriV |-> TRUE, qtFiner |-> FALSE, noSplitSkip |-> FALSE]

Init ==
  /\ cu \in Cus
  /\ pc = "next" /\ todo = Listed(cu) /\ lastTestMode = NoMode
  /\ feature = InitialFeature(cu) /\ best = NoBest
  /\ fast = [unsplitTested |-> FALSE, chosen |-> FALSE, permit |-> {}]
  /\ tested = {} /\ pruned = {}
  /\ noted = [asked |-> NoBest, qtGivenUp |-> FALSE]

\* testModes.back()
IsCurrent(m) == m \in todo /\ \A n \in todo \ {m} : Rank(m) < Rank(n)

----------------------------------------------------------------------------
(* tryMode.                                                                *)

GEO_MIN_CU_SIZE == 8
GEO_MAX_CU_SIZE == 64

\* mutant: what was skip or intra on an earlier visit is not merged again
InterAllowedNoMerge(m) ==
  /\ m \in {"INTER_ME", "MERGE_SKIP"} => cu.related = {}
  /\ m = "AFFINE" => "isIntra" \notin cu.related
InterAllowed(m) ==
  /\ m = "INTER_ME" => cu.related = {}
  /\ m = "AFFINE" => "isIntra" \notin cu.related
  /\ m = "MERGE_GEO" =>
       /\ {cu.w, cu.h} \subseteq GEO_MIN_CU_SIZE .. GEO_MAX_CU_SIZE
       /\ cu.w < 8 * cu.h /\ cu.h < 8 * cu.w

\* Intra is not tried above 64x64 (LCTUFast); once something is coded it may
\* be given up for what the residual looks like.
IntraVerdicts == IF cu.w * cu.h > 4096 THEN {FALSE} ELSE IF Coded THEN BOOLEAN ELSE {TRUE}

\* three levels in a row found skip to be the best unsplit coding
SkipHistory == cu.slice = "B" /\ feature.noSplitSkip /\ cu.skipAbove >= 2

\* skip is the best and the block is deep: no first split
SkipLeaf == Coded /\ best.skip /\ cu.deep /\ lastTestMode \notin Splits

\* the best coding splits no further than the BT depth allows to judge
Shallow ==
  LET least == IF cu.slice = "I" THEN 3 ELSE 2
  IN \/ best.bt = 0 /\ MaxBtDepth >= least
     \/ best.bt = 1 /\ best.lastBt = 1 /\ MaxBtDepth >= least + 1

QtGivenUp ==
  /\ ~cu.qtBeforeBt /\ Coded /\ Shallow /\ cu.w <= 64 /\ cu.h <= 64
  /\ feature.didHorz /\ feature.didVert

NoResidualAlong(did) == did /\ Coded /\ best.bt = cu.bt /\ ~best.cbf

RuledOut(m) ==
  CASE m = "SPLIT_QT" -> QtGivenUp
    [] m = "SPLIT_TT_H" -> NoResidualAlong(feature.didHorz) \/ ~feature.doTriH
    [] m = "SPLIT_TT_V" -> NoResidualAlong(feature.didVert) \/ ~feature.doTriV
    [] m \in Bts -> FALSE

\* the quad split tested before was split again: binary splits are too coarse
QtWasFiner(m) == m # "SPLIT_QT" /\ cu.qtBeforeBt /\ feature.didQuad /\ feature.qtFiner

SplitAllowed(m) == m \in cu.can /\ ~SkipHistory /\ ~SkipLeaf /\ ~RuledOut(m) /\ ~QtWasFiner(m)

\* mutant: the QT depth rule does not come before the rules on unsplit modes
VerdictsLate(m) ==
  CASE AtBoundary(cu) -> {m \in cu.can}
    [] ~AtBoundary(cu) /\ cu.reusing /\ m \in NonSplits -> {m = "RECO_CACHED"}
    [] ~OnlySplits(cu) /\ ~cu.reusing /\ m = "INTRA" -> IntraVerdicts
    [] ~AtBoundary(cu) /\ ~cu.reusing /\ m \in InterModes -> {InterAllowed(m)}
    [] ~AtBoundary(cu) /\ m = "POST_DONT_SPLIT" -> {FALSE}
    [] ~AtBoundary(cu) /\ m \in Splits -> {IF ForcedQt(cu) THEN m = "SPLIT_QT" ELSE SplitAllowed(m)}
    [] OTHER -> {FALSE}
Verdicts(m) ==
  CASE AtBoundary(cu) -> {m = cu.implicit \/ (m = "SPLIT_QT" /\ m \in cu.can)}
    [] ~AtBoundary(cu) /\ cu.reusing /\ m \in NonSplits -> {m = "RECO_CACHED"}
    [] ~AtBoundary(cu) /\ ForcedQt(cu) /\ ~(cu.reusing /\ m \in NonSplits) -> {m = "SPLIT_QT"}
    [] ~OnlySplits(cu) /\ ~cu.reusing /\ m = "INTRA" -> IntraVerdicts
    [] ~OnlySplits(cu) /\ ~cu.reusing /\ m \in InterModes -> {InterAllowed(m)}
    [] ~OnlySplits(cu) /\ m = "POST_DONT_SPLIT" -> {FALSE}
    [] ~OnlySplits(cu) /\ m \in Splits ->
         {SplitAllowed(m) /\ ~(m = "SPLIT_QT" /\ cu.atMaxDepth)}

\* the flags of a split that will not be tested
Forget(m) ==
  [feature EXCEPT !.didHorz = @ /\ m # "SPLIT_BT_H",
                  !.didVert = @ /\ m # "SPLIT_BT_V",
                  !.didQuad = @ /\ m # "SPLIT_QT"]

FeatureAfterRefusal(m) ==
  CASE ~OnlySplits(cu) /\ m = "POST_DONT_SPLIT" /\ Coded /\ best.mode \notin Splits ->
         [feature EXCEPT !.noSplitSkip = best.skip]
    [] ~OnlySplits(cu) /\ m = "SPLIT_QT" /\ cu.atMaxDepth -> feature
    [] ~OnlySplits(cu) /\ m \in Splits /\ ~(m = "SPLIT_QT" /\ cu.atMaxDepth) ->
         IF m \notin cu.can \/ SkipHistory THEN Forget(m)
         ELSE IF ~SkipLeaf /\ ~RuledOut(m) /\ m \in Bts THEN Forget(m) ELSE feature
    [] OTHER -> feature

----------------------------------------------------------------------------
(* nextMode and the loop of xCompressCU.                                   *)

Refuse(m) ==
  /\ pc = "next" /\ IsCurrent(m) /\ FALSE \in Verdicts(m)
  /\ todo' = todo \ {m}
  /\ feature' = FeatureAfterRefusal(m)
  /\ noted' = [noted EXCEPT !.qtGivenUp =
       @ \/ (m = "SPLIT_QT" /\ ~OnlySplits(cu) /\ ~cu.atMaxDepth /\ m \in cu.can
             /\ ~SkipHistory /\ ~SkipLeaf /\ QtGivenUp)]
  /\ UNCHANGED <<pc, cu, lastTestMode, best, fast, tested, pruned>>

Accept(m) ==
  /\ pc = "next" /\ IsCurrent(m) /\ TRUE \in Verdicts(m)
  /\ pc' = "test"
  /\ feature' = [feature EXCEPT !.didQuad = @ \/ (m = "SPLIT_QT" /\ ~OnlySplits(cu))]
  /\ UNCHANGED <<cu, todo, lastTestMode, best, fast, tested, pruned, noted>>

\* nothing left: the level ends, with or without a coding
Finish ==
  /\ pc = "next" /\ todo = {}
  /\ pc' = "end"
  /\ UNCHANGED <<cu, todo, lastTestMode, feature, best, fast, tested, pruned, noted>>

IsTarget == cu.slice = "B" /\ Is_Tgt_Size(cu.w, cu.h)

\* mutant: nothing need have been tested unsplit
AskDueAtOnce(m) == IsTarget /\ ~fast.chosen /\ m \in Splits
AskDue(m) == IsTarget /\ ~fast.chosen /\ fast.unsplitTested /\ m \in Splits

\* Get_Mode reads the first CU and PU of the best coding, which must exist
Ask(m) ==
  /\ pc = "test" /\ IsCurrent(m) /\ AskDue(m)
  /\ \E permit \in Answers(Size_Index(cu.w, cu.h)) :
       fast' = [fast EXCEPT !.chosen = TRUE, !.permit = permit]
  /\ noted' = [noted EXCEPT !.asked = best]
  /\ pc' = IF Coded THEN pc ELSE "undefined"
  /\ UNCHANGED <<cu, todo, lastTestMode, feature, best, tested, pruned>>

Forbidden(m) == IsTarget /\ fast.chosen /\ Get_External_Mode(m) \notin fast.permit

ToNextMode(m) == lastTestMode' = m /\ todo' = todo \ {m}

\* mutant: the loop starts over without calling nextMode
PassOverForever(m) ==
  /\ pc = "test" /\ IsCurrent(m) /\ Forbidden(m)
  /\ pc' = "next" /\ pruned' = pruned \cup {m}
  /\ UNCHANGED <<cu, todo, lastTestMode, feature, best, fast, tested, noted>>
\* continue: in a do-while this evaluates the condition, nextMode
PassOver(m) ==
  /\ pc = "test" /\ IsCurrent(m) /\ Forbidden(m)
  /\ ToNextMode(m) /\ pc' = "next"
  /\ pruned' = pruned \cup {m}
  /\ UNCHANGED <<cu, feature, best, fast, tested, noted>>

\* mutant: the cost of a CU not coded yet starts at zero
BetterThanNothing(r) == IF r # NoBest /\ r.cost < best.cost THEN r ELSE best
\* xCheckBestMode and useModeResult: an empty result changes nothing
Better(r) == IF r # NoBest /\ (~Coded \/ r.cost < best.cost) THEN r ELSE best

MaySkip == {"AFFINE", "MERGE_SKIP", "MERGE_GEO", "RECO_CACHED"}
\* the others may find no candidate, or give up early
AlwaysDelivers == {"MERGE_SKIP", "RECO_CACHED"}

UnsplitResults(m) ==
  {r \in [mode : {m}, cost : 1 .. MaxCost, skip : BOOLEAN, cbf : BOOLEAN,
          bt : {cu.bt}, lastBt : {cu.bt}] : r.skip => m \in MaySkip /\ ~r.cbf}
  \cup (IF m \in AlwaysDelivers THEN {} ELSE {NoBest})

\* mutant: a reused coding does not count as a test
TestUnsplitReuseUncounted(m) ==
  /\ pc = "test" /\ IsCurrent(m) /\ m \in NonSplits
  /\ \E r \in UnsplitResults(m) : best' = Better(r)
  /\ fast' = [fast EXCEPT !.unsplitTested = @ \/ (IsTarget /\ m # "RECO_CACHED")]
  /\ tested' = tested \cup {m}
  /\ ToNextMode(m) /\ pc' = "next"
  /\ UNCHANGED <<cu, feature, pruned, noted>>
TestUnsplit(m) ==
  /\ pc = "test" /\ IsCurrent(m) /\ m \in NonSplits
  /\ \E r \in UnsplitResults(m) : best' = Better(r)
  /\ fast' = [fast EXCEPT !.unsplitTested = @ \/ IsTarget]
  /\ tested' = tested \cup {m}
  /\ ToNextMode(m) /\ pc' = "next"
  /\ UNCHANGED <<cu, feature, pruned, noted>>

\* btDepth of the first and the last part; two stands for more under a QT
PartBtDepths(m) ==
  CASE m = "SPLIT_QT" -> 0 .. 2
    [] m \in Bts -> {cu.bt + 1, cu.bt + 2}
    [] m \in Tts -> {cu.bt + 2}

\* Whether the first part was skipped is left out: after a split was tested,
\* only its depth and its residual are looked at.  Nothing is delivered when a
\* part is not coded, or when the best coding so far is cheaper than the split
\* could become.
SplitResults(m) ==
  [mode : {m}, cost : 1 .. MaxCost, skip : {FALSE}, cbf : BOOLEAN,
   bt : PartBtDepths(m), lastBt : PartBtDepths(m)]
  \cup (IF Coded \/ cu.partsFail THEN {NoBest} ELSE {})

\* useModeResult, whose rules also look at results without a cost
LearnFromSplit(m, r) ==
  LET any == r # NoBest \/ cu.partsFail
  IN \E q \in IF m = "SPLIT_QT" /\ r # NoBest THEN BOOLEAN ELSE {feature.qtFiner},
        h \in IF m = "SPLIT_BT_H" /\ any THEN BOOLEAN ELSE {feature.doTriH},
        v \in IF m = "SPLIT_BT_V" /\ any THEN BOOLEAN ELSE {feature.doTriV} :
       feature' = [feature EXCEPT !.qtFiner = q, !.doTriH = h, !.doTriV = v]

\* xCheckModeSplit; afterwards the loop reads bestCS->cus[0]
TestSplit(m) ==
  /\ pc = "test" /\ IsCurrent(m) /\ m \in Splits /\ ~AskDue(m) /\ ~Forbidden(m)
  /\ \E r \in SplitResults(m) :
       /\ best' = Better(r)
       /\ LearnFromSplit(m, r)
  /\ tested' = tested \cup {m}
  /\ ToNextMode(m) /\ pc' = IF best' = NoBest THEN "undefined" ELSE "next"
  /\ UNCHANGED <<cu, fast, pruned, noted>>

\* CHECK: "Split decision reusing cannot skip quad split"
QuadPartFails(m) ==
  /\ pc = "test" /\ IsCurrent(m) /\ m = "SPLIT_QT" /\ ~AskDue(m) /\ ~Forbidden(m)
  /\ cu.partsFail
  /\ pc' = "abort"
  /\ UNCHANGED <<cu, todo, lastTestMode, feature, best, fast, tested, pruned, noted>>

Step(m) ==
  \/ Refuse(m) \/ Accept(m) \/ Ask(m) \/ PassOver(m)
  \/ TestUnsplit(m) \/ TestSplit(m) \/ QuadPartFails(m)

Next == (\E m \in TestModes : Step(m)) \/ Finish

Spec == Init /\ [][Next]_vars
\* the search is one thread's straight code
FairSpec == Spec /\ WF_vars(Next)

----------------------------------------------------------------------------
(* Properties.                                                             *)

Results ==
  [mode : NonSplits \cup Splits, cost : 1 .. MaxCost, skip : BOOLEAN, cbf : BOOLEAN,
   bt : Nat, lastBt : Nat] \cup {NoBest}

\* Where the loop stands, what is left to try, the controller's flags, the best
\* result, the network's answer and the histories are what their names say.  (Proved in CompressCUProofs.)
TypeOK ==
  /\ cu \in Cus
  /\ pc \in {"next", "test", "end", "undefined", "abort"}
  /\ todo \subseteq Listed(cu) /\ (pc = "test" => todo # {})
  /\ lastTestMode \in TestModes \cup {NoMode}
  /\ feature \in [didHorz : BOOLEAN, didVert : BOOLEAN, didQuad : BOOLEAN, doTriH : BOOLEAN,
                  doTriV : BOOLEAN, qtFiner : BOOLEAN, noSplitSkip : BOOLEAN]
  /\ best \in Results
  /\ fast \in [unsplitTested : BOOLEAN, chosen : BOOLEAN, permit : SUBSET NetAlternatives]
  /\ tested \subseteq NonSplits \cup Splits /\ pruned \subseteq Splits
  /\ noted \in [asked : Results, qtGivenUp : BOOLEAN]

\* Where the picture boundary or the QT depth rule of LCTUFast leaves nothing
\* but splits, the network has no say: no such split is passed over, and the
\* search does not end before each was tested.  (The loop in xCompressCU knows
\* neither condition; it relies on tryMode refusing every unsplit mode there.)
ForcedSplitsKept ==
  OnlySplits(cu) =>
    /\ pruned = {}
    /\ pc = "end" => IF AtBoundary(cu) THEN cu.can \subseteq tested ELSE "SPLIT_QT" \in tested

\* Get_Mode is called on a coded CU that is not split: it reads cus[0] and
\* pus[0] and the prediction of the best coding as those of the whole block.
\* Counting a mode as tested before it is (AFFINE may find no candidate) is
\* sound only because MERGE_SKIP, which always delivers, comes before splits.
AskedAboutUnsplitCoding == fast.chosen => noted.asked # NoBest /\ noted.asked.mode \notin Splits

\* Unless only splits are left, no split of a target CU is tested that the
\* network forbids: it has answered before the first one.
SplitsArePermitted ==
  IsTarget /\ ~OnlySplits(cu) =>
    \A m \in tested \cap Splits : fast.chosen /\ Get_External_Mode(m) \in fast.permit

\* The quad split is given up for shallow binary splits only after both binary
\* splits were tested, or else passed over at the network's word.  The second
\* case is real: DID_HORZ_SPLIT and DID_VERT_SPLIT stay set for a split the
\* loop skips, so that a QT the network permits may be refused though no binary
\* split was tested.
QtGivenUpAfterBinary == noted.qtGivenUp => Bts \subseteq tested \cup pruned

\* An inter CU that may stay unsplit always leaves the search with a coding,
\* whatever the network forbids (also "no split") and whichever tests deliver
\* nothing; any other leaves it with one if it tested a split at all.
EndsCoded ==
  pc = "end" =>
    /\ cu.slice = "B" /\ cu.mode # "INTRA" /\ ~OnlySplits(cu) /\ ~(cu.w = 4 /\ cu.h = 4) => Coded
    /\ tested \cap Splits # {} => Coded

\* As long as parts are coded, the loop neither reads the first CU of an empty
\* coding nor runs into the check on quad splits.
NoFault == ~cu.partsFail => pc \notin {"undefined", "abort"}

\* The search ends: every round of the loop, also one that passes a split over,
\* takes a mode off the list.
EveryLevelEnds == <>(pc \in {"end", "undefined", "abort"})
=============================================================================
