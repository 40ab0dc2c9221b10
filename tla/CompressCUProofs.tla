-------------------------- MODULE CompressCUProofs --------------------------
(***************************************************************************)
(* Proofs about CompressCU, for any set of legal CUs and any bounds.       *)
(*                                                                         *)
(* Everything rests on the order of the list: a split comes up only after  *)
(* every unsplit mode (Order).  While an inter CU may stay unsplit, the    *)
(* mode that always delivers is either still listed or has been tested and *)
(* has left a coding (Delivered): so the network, asked at the first split,*)
(* finds one.  Where only splits are left, no unsplit mode is ever in the  *)
(* loop's body, so the network is never asked (OnlySplitsLeft).            *)
(***************************************************************************)
EXTENDS CompressCU, TLAPS

(* The list is walked from the unsplit modes over POST_DONT_SPLIT to the   *)
(* splits, and its places are numbers.                                     *)
LEMMA RankOrder ==
  /\ \A m \in TestModes : Rank(m) \in Nat
  /\ \A m \in NonSplits : Rank(m) < 11
  /\ Rank("POST_DONT_SPLIT") < 11
  /\ \A m \in Splits : Rank(m) > 10
  BY DEF Rank, TestModes, NonSplits, InterModes, Splits, Bts, Tts

LEMMA ListedType ==
  ASSUME NEW c \in Cus
  PROVE  Listed(c) \subseteq TestModes
  BY CusAssumption DEF Listed, ListedInter, Legal, TestModes, NonSplits, Splits, Bts, Tts

(* Once a split is the current mode, nothing but splits is left.           *)
LEMMA SplitsLast ==
  ASSUME TypeOK, NEW m \in Splits, IsCurrent(m)
  PROVE  todo \subseteq Splits
<1> SUFFICES ASSUME NEW n \in todo, n \notin Splits PROVE FALSE
  OBVIOUS
<1>1. n \in TestModes
  BY ListedType DEF TypeOK
<1>2. Rank(n) < 11 /\ Rank(m) > 10 /\ Rank(n) \in Nat /\ Rank(m) \in Nat
  BY <1>1, RankOrder DEF TestModes
<1> QED
  BY <1>2 DEF IsCurrent

(* The current mode is unique.                                             *)
LEMMA CurrentIsUnique ==
  ASSUME TypeOK, NEW m, NEW n, IsCurrent(m), IsCurrent(n)
  PROVE  m = n
<1>1. m \in TestModes /\ n \in TestModes
  BY ListedType DEF TypeOK, IsCurrent
<1>2. Rank(m) \in Nat /\ Rank(n) \in Nat
  BY <1>1, RankOrder
<1> QED
  BY <1>2 DEF IsCurrent

(* Whatever values are best, the network permits some of its alternatives. *)
LEMMA AnswersType ==
  ASSUME NEW w, NEW h
  PROVE  Answers(Size_Index(w, h)) \subseteq SUBSET NetAlternatives
<1> DEFINE id == Size_Index(w, h)
<1>1. id \in 1 .. 14
  <2>1. SizeIds = 1 .. 14
    BY DEF SizeIds, cu_size_list
  <2> HIDE DEF id
  <2>2. CASE Known(w, h)
    BY <2>1, <2>2, Zenon DEF Size_Index, Known, id
  <2>3. CASE ~Known(w, h)
    BY <2>3 DEF Size_Index, id
  <2> QED
    BY <2>2, <2>3
<1>2. /\ Sorted(id) \in Nat
      /\ \A i \in 1 .. Sorted(id) : Alternatives(id)[i] \in NetAlternatives
  <2> HIDE DEF id
  <2> USE DEF Alternatives, Sorted, Square, NetAlternatives, NetSplits
  <2>1. CASE id = 1
    BY <2>1
  <2>2. CASE id \in {4, 9, 14}
    <3>1. Alternatives(id) = <<"QT", "VER_2", "HOR_2", "VER_3", "HOR_3", "NO">> /\ Sorted(id) = 6
      BY <2>2
    <3> QED
      BY <3>1
  <2>3. CASE id = 12
    BY <2>3
  <2>4. CASE id = 13
    BY <2>4
  <2>5. CASE id \notin {1, 4, 9, 12, 13, 14}
    <3>1. /\ Alternatives(id) = <<"VER_2", "HOR_2", "VER_3", "HOR_3", "NO">>
          /\ Sorted(id) = IF id \in {2, 3} THEN 2 ELSE 5
      BY <2>5
    <3> QED
      BY <3>1
  <2> QED
    BY <2>1, <2>2, <2>3, <2>4, <2>5
<1> SUFFICES ASSUME NEW best1 \in Places(id)
             PROVE  mode_permit(id, best1) \subseteq NetAlternatives
  BY DEF Answers
<1>3. best1 \in (1 .. Sorted(id)) \X (1 .. Sorted(id))
  BY DEF Places
<1>4. \A i \in 1 .. top_n : Alternatives(id)[best1[i]] \in NetAlternatives
  BY <1>2, <1>3 DEF top_n
<1> QED
  BY <1>4 DEF mode_permit, NetAlternatives

Features ==
  [didHorz : BOOLEAN, didVert : BOOLEAN, didQuad : BOOLEAN, doTriH : BOOLEAN,
   doTriV : BOOLEAN, qtFiner : BOOLEAN, noSplitSkip : BOOLEAN]

(* A better result is a result, and it never takes a coding away.          *)
LEMMA BetterResult ==
  ASSUME best \in Results, NEW r \in Results
  PROVE  /\ Better(r) \in Results
         /\ Coded => Better(r) # NoBest
         /\ r # NoBest => Better(r) # NoBest
         /\ Better(r) \in {best, r}
  BY DEF Better, Coded

LEMMA ResultTypes ==
  ASSUME TypeOK, NEW m
  PROVE  /\ m \in NonSplits => UnsplitResults(m) \subseteq Results
         /\ m \in Splits => SplitResults(m) \subseteq Results
<1>1. cu.bt \in Nat
  BY CusAssumption DEF TypeOK, Legal
<1>2. ASSUME m \in NonSplits PROVE UnsplitResults(m) \subseteq Results
  BY <1>1, <1>2 DEF UnsplitResults, Results, NoBest
<1>3. ASSUME m \in Splits PROVE SplitResults(m) \subseteq Results
  <2>1. PartBtDepths(m) \subseteq Nat
    BY <1>1, <1>3 DEF PartBtDepths, Splits, Bts, Tts
  <2> QED
    BY <2>1, <1>3 DEF SplitResults, Results
<1> QED
  BY <1>2, <1>3

----------------------------------------------------------------------------
(* The inductive invariant, part by part.                                  *)

\* a split is tested or passed over only when nothing but splits is left
Order == tested \cap Splits # {} \/ fast.chosen => todo \subseteq Splits

\* where only splits are left, no unsplit mode is let through
OnlySplitsLeft ==
  OnlySplits(cu) =>
    /\ ~fast.unsplitTested /\ ~fast.chosen /\ pruned = {}
    /\ pc = "test" => \A m \in NonSplits : ~IsCurrent(m)

\* the mode that always delivers
MayStayUnsplit(c) ==
  c.slice = "B" /\ c.mode # "INTRA" /\ ~OnlySplits(c) /\ ~(c.w = 4 /\ c.h = 4)
Sure == IF cu.reusing THEN "RECO_CACHED" ELSE "MERGE_SKIP"
Delivered ==
  MayStayUnsplit(cu) => Sure \in todo \/ (Coded /\ (IsTarget => fast.unsplitTested))

\* until a split is tested the best coding is an unsplit one; afterwards there
\* is a coding, or the loop has read an empty one
BestKind ==
  /\ tested \cap Splits = {} /\ Coded => best.mode \notin Splits
  /\ tested \cap Splits # {} => Coded \/ pc = "undefined"
  /\ pc = "end" => todo = {}

\* the network is asked before a split of a target CU is tested
AskedFirst ==
  /\ IsTarget /\ fast.unsplitTested /\ ~fast.chosen => tested \cap Splits = {}
  /\ fast.chosen => IsTarget

\* what may not be skipped is listed or tested
ForcedListed ==
  OnlySplits(cu) =>
    IF AtBoundary(cu) THEN cu.can \subseteq todo \cup tested ELSE "SPLIT_QT" \in todo \cup tested

\* a binary split that counts as done is still to come, or was tested or passed
\* over, or the rule that refused it refuses all that is left
Marks ==
  ~OnlySplits(cu) =>
    \/ /\ feature.didHorz => "SPLIT_BT_H" \in todo \cup tested \cup pruned
       /\ feature.didVert => "SPLIT_BT_V" \in todo \cup tested \cup pruned
    \/ SkipLeaf /\ pc # "test" /\ todo \subseteq Splits

IInv ==
  /\ TypeOK /\ Order /\ OnlySplitsLeft /\ Delivered /\ BestKind /\ AskedFirst /\ ForcedListed
  /\ SplitsArePermitted /\ AskedAboutUnsplitCoding /\ NoFault /\ Marks /\ QtGivenUpAfterBinary

----------------------------------------------------------------------------
(* A target CU that is not bound to splits may stay unsplit.               *)
LEMMA TargetMayStay ==
  ASSUME TypeOK, IsTarget, ~OnlySplits(cu)
  PROVE  MayStayUnsplit(cu)
<1>1. Legal(cu)
  BY CusAssumption DEF TypeOK
<1>2. cu.mode = "ALL" /\ ~(cu.w = 4 /\ cu.h = 4)
  BY <1>1 DEF Legal, IsTarget, Is_Tgt_Size
<1> QED
  BY <1>2 DEF MayStayUnsplit, IsTarget

(* The mode that always delivers is listed, accepted, and delivers.        *)
LEMMA SureMode ==
  ASSUME TypeOK, MayStayUnsplit(cu)
  PROVE  /\ Sure \in NonSplits
         /\ Sure \in Listed(cu)
         /\ FALSE \notin Verdicts(Sure)
         /\ NoBest \notin UnsplitResults(Sure)
<1>1. Sure \in NonSplits /\ Sure \in AlwaysDelivers /\ Sure \in {"RECO_CACHED", "MERGE_SKIP"}
  BY DEF Sure, NonSplits, InterModes, AlwaysDelivers
<1>2. Sure \in Listed(cu)
  BY DEF Sure, Listed, ListedInter, MayStayUnsplit, InterModes
<1>3. FALSE \notin Verdicts(Sure)
  <2>1. ~AtBoundary(cu) /\ ~ForcedQt(cu) /\ ~OnlySplits(cu)
    BY DEF MayStayUnsplit, OnlySplits
  <2>2. CASE cu.reusing
    <3>1. Sure = "RECO_CACHED"
      BY <2>2 DEF Sure
    <3>2. Verdicts(Sure) = {Sure = "RECO_CACHED"}
      BY <1>1, <2>1, <2>2, <3>1 DEF Verdicts, Splits, Bts, Tts
    <3> QED
      BY <3>1, <3>2
  <2>3. CASE ~cu.reusing
    <3>1. Sure = "MERGE_SKIP" /\ Sure \in InterModes /\ InterAllowed(Sure)
      BY <2>3 DEF Sure, InterModes, InterAllowed
    <3>2. Sure \notin {"INTRA", "POST_DONT_SPLIT"} \cup Splits
      BY <3>1 DEF Splits, Bts, Tts
    <3> QED
      BY <2>1, <2>3, <3>1, <3>2 DEF Verdicts
  <2> QED
    BY <2>2, <2>3
<1>4. NoBest \notin UnsplitResults(Sure)
  BY <1>1, MaxAssumption DEF UnsplitResults, NoBest
<1> QED
  BY <1>1, <1>2, <1>3, <1>4

(* When a split of a target CU comes up, an unsplit coding exists.         *)
LEMMA CodedBeforeSplits ==
  ASSUME IInv, NEW m \in Splits, IsCurrent(m), IsTarget, ~OnlySplits(cu)
  PROVE  Coded /\ fast.unsplitTested
<1>1. MayStayUnsplit(cu)
  BY TargetMayStay DEF IInv
<1>2. Sure \notin todo
  <2>1. todo \subseteq Splits
    BY SplitsLast DEF IInv
  <2> QED
    BY <1>1, <2>1, SureMode DEF IInv, NonSplits, InterModes, Splits, Bts, Tts
<1> QED
  BY <1>1, <1>2 DEF IInv, Delivered

(* Where only splits are left, no unsplit mode is let through.             *)
LEMMA OnlySplitsAccepted ==
  ASSUME TypeOK, OnlySplits(cu), NEW m \in TestModes, TRUE \in Verdicts(m)
  PROVE  m \in Splits
<1>1. Legal(cu)
  BY CusAssumption DEF TypeOK
<1>2. CASE AtBoundary(cu)
  <2>1. m = cu.implicit \/ m = "SPLIT_QT"
    BY <1>2 DEF Verdicts
  <2> QED
    BY <1>1, <1>2, <2>1 DEF Legal, AtBoundary, Splits
<1>3. CASE ~AtBoundary(cu)
  <2>1. ForcedQt(cu) /\ ~cu.reusing
    BY <1>1, <1>3 DEF OnlySplits, ForcedQt, Legal
  <2>2. m = "SPLIT_QT"
    BY <1>3, <2>1 DEF Verdicts
  <2> QED
    BY <2>1, <2>2 DEF ForcedQt, Splits
<1> QED
  BY <1>2, <1>3

----------------------------------------------------------------------------
(* TypeOK is inductive.                                                    *)

LEMMA FeatureTypes ==
  ASSUME TypeOK, NEW m \in TestModes
  PROVE  /\ FeatureAfterRefusal(m) \in Features
         /\ \A r : LearnFromSplit(m, r) => feature' \in Features
<1>1. feature \in Features
  BY DEF TypeOK, Features
<1>2. Forget(m) \in Features
  BY <1>1, ZenonT(40) DEF Forget, Features
<1>3. [feature EXCEPT !.noSplitSkip = best.skip] \in Features
  <2>1. best.skip \in BOOLEAN
    <3>1. CASE best = NoBest
      BY <3>1 DEF NoBest
    <3>2. CASE best # NoBest
      BY <3>2 DEF TypeOK, Results
    <3> QED
      BY <3>1, <3>2
  <2> QED
    BY <1>1, <2>1 DEF Features
<1>4. FeatureAfterRefusal(m) \in Features
  BY <1>1, <1>2, <1>3 DEF FeatureAfterRefusal
<1>5. ASSUME NEW r, LearnFromSplit(m, r) PROVE feature' \in Features
  <2>1. PICK q \in BOOLEAN, h \in BOOLEAN, v \in BOOLEAN :
          feature' = [feature EXCEPT !.qtFiner = q, !.doTriH = h, !.doTriV = v]
    <3>1. feature.qtFiner \in BOOLEAN /\ feature.doTriH \in BOOLEAN /\ feature.doTriV \in BOOLEAN
      BY <1>1 DEF Features
    <3> QED
      BY <1>5, <3>1 DEF LearnFromSplit
  <2> QED
    BY <1>1, <2>1, ZenonT(40) DEF Features
<1> QED
  BY <1>4, <1>5

LEMMA TypeInit == Init => TypeOK
<1> SUFFICES ASSUME Init PROVE TypeOK
  OBVIOUS
<1>1. feature \in Features /\ best \in Results /\ noted \in [asked : Results, qtGivenUp : BOOLEAN]
  BY DEF Init, InitialFeature, Features, Results
<1> QED
  BY <1>1 DEF Init, TypeOK, Features, NetAlternatives, NetSplits

LEMMA TypeStep ==
  ASSUME TypeOK, Order, NEW m \in TestModes, Step(m)
  PROVE  TypeOK'
<1> USE DEF TypeOK
<1>1. m \in todo /\ m \in NonSplits \cup {"POST_DONT_SPLIT"} \cup Splits
  BY DEF Step, Refuse, Accept, Ask, PassOver, TestUnsplit, TestSplit, QuadPartFails, IsCurrent,
         TestModes
<1>2. CASE Refuse(m)
  <2>1. feature' \in Features
    BY <1>2, FeatureTypes DEF Refuse
  <2>2. noted' \in [asked : Results, qtGivenUp : BOOLEAN]
    BY <1>2 DEF Refuse
  <2> QED
    BY <1>2, <2>1, <2>2 DEF Refuse, Features
<1>3. CASE Accept(m)
  <2>1. feature' \in Features
    BY <1>3 DEF Accept, Features
  <2> QED
    BY <1>1, <1>3, <2>1 DEF Accept, Features
<1>4. CASE Ask(m)
  <2>1. fast' \in [unsplitTested : BOOLEAN, chosen : BOOLEAN, permit : SUBSET NetAlternatives]
    <3>1. PICK permit \in Answers(Size_Index(cu.w, cu.h)) :
            fast' = [fast EXCEPT !.chosen = TRUE, !.permit = permit]
      BY <1>4 DEF Ask
    <3>2. permit \in SUBSET NetAlternatives
      BY <3>1, AnswersType
    <3> QED
      BY <3>1, <3>2
  <2>2. noted' \in [asked : Results, qtGivenUp : BOOLEAN]
    BY <1>4 DEF Ask
  <2>3. pc' \in {"test", "undefined"}
    BY <1>4 DEF Ask
  <2> QED
    BY <1>4, <1>1, <2>1, <2>2, <2>3 DEF Ask
<1>5. CASE PassOver(m)
  <2>1. m \in Splits
    BY <1>5, <1>1 DEF PassOver, Forbidden, Order
  <2> QED
    BY <1>5, <1>1, <2>1 DEF PassOver, ToNextMode
<1>6. CASE TestUnsplit(m)
  <2>1. best' \in Results
    BY <1>6, ResultTypes, BetterResult DEF TestUnsplit
  <2>2. fast' \in [unsplitTested : BOOLEAN, chosen : BOOLEAN, permit : SUBSET NetAlternatives]
    BY <1>6 DEF TestUnsplit
  <2> QED
    BY <1>6, <1>1, <2>1, <2>2 DEF TestUnsplit, ToNextMode
<1>7. CASE TestSplit(m)
  <2>1. best' \in Results
    BY <1>7, ResultTypes, BetterResult DEF TestSplit
  <2>2. feature' \in Features
    BY <1>7, FeatureTypes DEF TestSplit
  <2> QED
    BY <1>7, <1>1, <2>1, <2>2 DEF TestSplit, ToNextMode, Features
<1>8. CASE QuadPartFails(m)
  BY <1>8 DEF QuadPartFails
<1> QED
  BY <1>2, <1>3, <1>4, <1>5, <1>6, <1>7, <1>8 DEF Step

----------------------------------------------------------------------------
(* Each part is preserved by a step of the loop.                           *)

(* The CU never changes and the list never grows.                          *)
LEMMA Frame ==
  ASSUME NEW m, Step(m)
  PROVE  /\ IsCurrent(m)
         /\ cu' = cu
         /\ todo' \in {todo, todo \ {m}}
         /\ IsTarget' <=> IsTarget
  BY DEF Step, Refuse, Accept, Ask, PassOver, TestUnsplit, TestSplit, QuadPartFails, ToNextMode,
         IsTarget

LEMMA OrderStep ==
  ASSUME IInv, NEW m \in TestModes, Step(m)
  PROVE  Order'
<1>1. m \in Splits => todo \subseteq Splits
  BY SplitsLast, Frame DEF IInv
<1>2. m \in todo /\ todo' \subseteq todo
  BY Frame DEF IsCurrent
<1>3. CASE Ask(m) \/ TestSplit(m)
  BY <1>1, <1>2, <1>3 DEF Ask, AskDue, TestSplit, Order
<1>4. CASE TestUnsplit(m)
  <2>1. m \notin Splits
    BY <1>4 DEF TestUnsplit, NonSplits, InterModes, Splits, Bts, Tts
  <2> QED
    BY <1>2, <1>4, <2>1 DEF TestUnsplit, Order, IInv
<1>5. CASE Refuse(m) \/ Accept(m) \/ PassOver(m) \/ QuadPartFails(m)
  BY <1>2, <1>5 DEF Refuse, Accept, PassOver, QuadPartFails, Order, IInv
<1> QED
  BY <1>3, <1>4, <1>5 DEF Step

LEMMA OnlySplitsLeftStep ==
  ASSUME IInv, NEW m \in TestModes, Step(m)
  PROVE  OnlySplitsLeft'
<1> SUFFICES ASSUME OnlySplits(cu)
             PROVE  /\ ~fast'.unsplitTested /\ ~fast'.chosen /\ pruned' = {}
                    /\ pc' = "test" => \A n \in NonSplits : ~IsCurrent(n)'
  BY Frame DEF OnlySplitsLeft
<1>1. ~fast.unsplitTested /\ ~fast.chosen /\ pruned = {}
  BY DEF IInv, OnlySplitsLeft
<1>2. CASE Refuse(m) \/ QuadPartFails(m)
  BY <1>1, <1>2 DEF Refuse, QuadPartFails
<1>3. CASE Accept(m)
  <2>1. m \in Splits
    BY <1>3, OnlySplitsAccepted DEF Accept, IInv
  <2>2. \A n \in NonSplits : ~IsCurrent(n)
    BY <2>1, <1>3, CurrentIsUnique
       DEF Accept, IInv, NonSplits, InterModes, Splits, Bts, Tts
  <2>3. \A n : IsCurrent(n)' <=> IsCurrent(n)
    BY <1>3 DEF Accept, IsCurrent, Rank
  <2> QED
    BY <1>1, <1>3, <2>2, <2>3 DEF Accept
<1>4. CASE Ask(m) \/ PassOver(m)
  BY <1>1, <1>4 DEF Ask, AskDue, PassOver, Forbidden
<1>5. CASE TestUnsplit(m)
  BY <1>5 DEF TestUnsplit, IInv, OnlySplitsLeft
<1>6. CASE TestSplit(m)
  <2>1. pc' # "test"
    BY <1>6 DEF TestSplit
  <2> QED
    BY <1>1, <1>6, <2>1 DEF TestSplit
<1> QED
  BY <1>2, <1>3, <1>4, <1>5, <1>6 DEF Step

(* A step never loses a coding, and only tests change the best.            *)
LEMMA CodingKept ==
  ASSUME TypeOK, NEW m, Step(m)
  PROVE  /\ Coded => best' # NoBest
         /\ ~TestUnsplit(m) /\ ~TestSplit(m) => best' = best
<1>1. CASE TestUnsplit(m)
  <2>1. PICK r \in UnsplitResults(m) : best' = Better(r)
    BY <1>1 DEF TestUnsplit
  <2>2. r \in Results
    BY <1>1, ResultTypes DEF TestUnsplit
  <2> QED
    BY <1>1, <2>1, <2>2, BetterResult DEF TypeOK
<1>2. CASE TestSplit(m)
  <2>1. PICK r \in SplitResults(m) : best' = Better(r)
    BY <1>2 DEF TestSplit
  <2>2. r \in Results
    BY <1>2, ResultTypes DEF TestSplit
  <2> QED
    BY <1>2, <2>1, <2>2, BetterResult DEF TypeOK
<1>3. CASE Refuse(m) \/ Accept(m) \/ Ask(m) \/ PassOver(m) \/ QuadPartFails(m)
  BY <1>3 DEF Refuse, Accept, Ask, PassOver, QuadPartFails, Coded
<1> QED
  BY <1>1, <1>2, <1>3 DEF Step

LEMMA DeliveredStep ==
  ASSUME IInv, NEW m \in TestModes, Step(m)
  PROVE  Delivered'
<1> SUFFICES ASSUME MayStayUnsplit(cu)
             PROVE  Sure \in todo' \/ (best' # NoBest /\ (IsTarget => fast'.unsplitTested))
  BY Frame DEF Delivered, Sure, Coded
<1>1. fast.unsplitTested => fast'.unsplitTested
  BY DEF Step, Refuse, Accept, Ask, PassOver, TestUnsplit, TestSplit, QuadPartFails, IInv, TypeOK
<1>2. CASE Sure \notin todo
  BY <1>1, <1>2, CodingKept DEF IInv, Delivered
<1>3. CASE Sure \in todo /\ m # Sure
  BY <1>3, Frame
<1>4. CASE Sure \in todo /\ m = Sure
  <2>1. m \in NonSplits /\ m \notin Splits
    BY <1>4, SureMode DEF IInv, NonSplits, InterModes, Splits, Bts, Tts
  <2>2. CASE Refuse(m)
    BY <2>2, <1>4, SureMode DEF Refuse, IInv
  <2>3. CASE PassOver(m)
    BY <2>1, <2>3, Frame DEF PassOver, Forbidden, IInv, Order, IsCurrent
  <2>4. CASE TestUnsplit(m)
    <3>1. PICK r \in UnsplitResults(m) : best' = Better(r)
      BY <2>4 DEF TestUnsplit
    <3>2. r \in Results /\ r # NoBest
      BY <1>4, <2>1, <3>1, SureMode, ResultTypes DEF IInv
    <3>3. best' # NoBest
      BY <3>1, <3>2, BetterResult DEF IInv, TypeOK
    <3> QED
      BY <2>4, <3>3 DEF TestUnsplit, IInv, TypeOK
  <2>5. CASE Accept(m) \/ Ask(m) \/ QuadPartFails(m)
    BY <2>5, <1>4 DEF Accept, Ask, QuadPartFails
  <2> QED
    BY <2>1, <2>2, <2>3, <2>4, <2>5 DEF Step, TestSplit
<1> QED
  BY <1>2, <1>3, <1>4

LEMMA BestKindStep ==
  ASSUME IInv, NEW m \in TestModes, Step(m)
  PROVE  BestKind'
<1>1. pc # "end" /\ pc' # "end" /\ pc # "undefined"
  BY DEF Step, Refuse, Accept, Ask, PassOver, TestUnsplit, TestSplit, QuadPartFails
<1>2. CASE TestUnsplit(m)
  <2>1. m \notin Splits /\ tested' \cap Splits = tested \cap Splits
    BY <1>2 DEF TestUnsplit, NonSplits, InterModes, Splits, Bts, Tts
  <2>2. PICK r \in UnsplitResults(m) : best' = Better(r)
    BY <1>2 DEF TestUnsplit
  <2>3. best' \in {best, r}
    BY <2>2 DEF Better
  <2>4. r.mode \notin Splits
    BY <2>1, <2>2 DEF UnsplitResults, NoBest, NoMode, Splits, Bts, Tts
  <2> QED
    BY <1>1, <2>1, <2>3, <2>4, CodingKept DEF IInv, BestKind, Coded
<1>3. CASE TestSplit(m)
  <2>1. m \in tested' \cap Splits
    BY <1>3 DEF TestSplit
  <2>2. best' # NoBest \/ pc' = "undefined"
    BY <1>3 DEF TestSplit
  <2> QED
    BY <1>1, <2>1, <2>2 DEF BestKind, Coded
<1>4. CASE Refuse(m) \/ Accept(m) \/ Ask(m) \/ PassOver(m) \/ QuadPartFails(m)
  <2>1. tested' = tested /\ best' = best
    BY <1>4 DEF Refuse, Accept, Ask, PassOver, QuadPartFails
  <2> QED
    BY <1>1, <2>1 DEF IInv, BestKind, Coded
<1> QED
  BY <1>2, <1>3, <1>4 DEF Step

LEMMA AskedFirstStep ==
  ASSUME IInv, NEW m \in TestModes, Step(m)
  PROVE  AskedFirst'
<1>1. CASE Ask(m)
  BY <1>1, Frame DEF Ask, AskDue, AskedFirst, IInv, TypeOK
<1>2. CASE TestUnsplit(m)
  <2>1. m \in todo /\ m \notin Splits
    BY <1>2, Frame DEF TestUnsplit, IsCurrent, NonSplits, InterModes, Splits, Bts, Tts
  <2>2. tested \cap Splits = {} /\ tested' \cap Splits = {} /\ ~fast.chosen
    BY <1>2, <2>1 DEF TestUnsplit, IInv, Order
  <2> QED
    BY <1>2, <2>2 DEF TestUnsplit, AskedFirst, IInv, TypeOK
<1>3. CASE TestSplit(m)
  BY <1>3, Frame DEF TestSplit, AskDue, AskedFirst, IInv
<1>4. CASE Refuse(m) \/ Accept(m) \/ PassOver(m) \/ QuadPartFails(m)
  <2>1. tested' = tested /\ fast' = fast
    BY <1>4 DEF Refuse, Accept, PassOver, QuadPartFails
  <2> QED
    BY <2>1, Frame DEF AskedFirst, IInv
<1> QED
  BY <1>1, <1>2, <1>3, <1>4 DEF Step

LEMMA ForcedListedStep ==
  ASSUME IInv, NEW m \in TestModes, Step(m)
  PROVE  ForcedListed'
<1>1. tested \subseteq tested'
  BY DEF Step, Refuse, Accept, Ask, PassOver, TestUnsplit, TestSplit, QuadPartFails
<1>2. CASE ~OnlySplits(cu)
  BY <1>2, Frame DEF ForcedListed
<1>3. CASE OnlySplits(cu) /\ Refuse(m)
  <2>1. FALSE \in Verdicts(m)
    BY <1>3 DEF Refuse
  <2>2. CASE AtBoundary(cu)
    <3>1. Legal(cu)
      BY CusAssumption DEF IInv, TypeOK
    <3>2. m \notin cu.can
      <4>1. ASSUME m = cu.implicit \/ (m = "SPLIT_QT" /\ m \in cu.can) PROVE FALSE
        <5>1. Verdicts(m) = {TRUE}
          BY <2>2, <4>1 DEF Verdicts, OnlySplits
        <5> QED
          BY <2>1, <5>1
      <4> QED
        BY <2>2, <3>1, <4>1 DEF Legal, AtBoundary
    <3> QED
      BY <1>3, <2>2, <3>2, Frame DEF Refuse, ForcedListed, IInv
  <2>3. CASE ~AtBoundary(cu)
    <3>1. Legal(cu) /\ ForcedQt(cu)
      BY <1>3, <2>3, CusAssumption DEF IInv, TypeOK, OnlySplits
    <3>2. ASSUME m = "SPLIT_QT" PROVE FALSE
      <4>1. Verdicts(m) = {TRUE}
        BY <2>3, <3>1, <3>2 DEF Verdicts, ForcedQt, OnlySplits, Legal
      <4> QED
        BY <2>1, <4>1
    <3> QED
      BY <1>3, <2>3, <3>2, Frame DEF Refuse, ForcedListed, IInv
  <2> QED
    BY <2>2, <2>3
<1>4. CASE OnlySplits(cu) /\ ~Refuse(m)
  <2>1. ~PassOver(m)
    BY <1>4 DEF PassOver, Forbidden, IInv, OnlySplitsLeft
  <2>2. todo \subseteq todo' \cup tested'
    BY <1>4, <2>1 DEF Step, Accept, Ask, TestUnsplit, TestSplit, QuadPartFails, ToNextMode
  <2> QED
    BY <1>1, <1>4, <2>2, Frame DEF ForcedListed, IInv
<1> QED
  BY <1>2, <1>3, <1>4

LEMMA PermittedStep ==
  ASSUME IInv, NEW m \in TestModes, Step(m)
  PROVE  SplitsArePermitted'
<1> SUFFICES ASSUME IsTarget, ~OnlySplits(cu)
             PROVE  \A n \in tested' \cap Splits :
                      fast'.chosen /\ Get_External_Mode(n) \in fast'.permit
  BY Frame DEF SplitsArePermitted
<1>1. \A n \in tested \cap Splits : fast.chosen /\ Get_External_Mode(n) \in fast.permit
  BY DEF IInv, SplitsArePermitted
<1>2. CASE Ask(m)
  BY <1>2, <1>1 DEF Ask, AskDue
<1>3. CASE TestUnsplit(m)
  <2>1. m \notin Splits
    BY <1>3 DEF TestUnsplit, NonSplits, InterModes, Splits, Bts, Tts
  <2>2. fast'.chosen = fast.chosen /\ fast'.permit = fast.permit
    BY <1>3 DEF TestUnsplit, IInv, TypeOK
  <2> QED
    BY <1>1, <1>3, <2>1, <2>2 DEF TestUnsplit
<1>4. CASE TestSplit(m)
  <2>1. fast.unsplitTested
    BY <1>4, CodedBeforeSplits DEF TestSplit
  <2>2. fast.chosen /\ Get_External_Mode(m) \in fast.permit
    BY <1>4, <2>1 DEF TestSplit, AskDue, Forbidden
  <2> QED
    BY <1>1, <1>4, <2>2 DEF TestSplit
<1>5. CASE Refuse(m) \/ Accept(m) \/ PassOver(m) \/ QuadPartFails(m)
  BY <1>1, <1>5 DEF Refuse, Accept, PassOver, QuadPartFails
<1> QED
  BY <1>2, <1>3, <1>4, <1>5 DEF Step

(* At the question nothing is split, and the best coding is there.         *)
LEMMA AskedStep ==
  ASSUME IInv, NEW m \in TestModes, Step(m)
  PROVE  AskedAboutUnsplitCoding' /\ NoFault'
<1>1. CASE Ask(m)
  <2>1. ~OnlySplits(cu)
    BY <1>1 DEF Ask, AskDue, IInv, OnlySplitsLeft
  <2>2. Coded
    BY <1>1, <2>1, CodedBeforeSplits DEF Ask, AskDue
  <2>3. best.mode \notin Splits
    BY <1>1, <2>2 DEF Ask, AskDue, IInv, AskedFirst, BestKind
  <2>4. noted'.asked = best
    BY <1>1 DEF Ask, IInv, TypeOK
  <2> QED
    BY <1>1, <2>2, <2>3, <2>4
       DEF Ask, AskedAboutUnsplitCoding, NoFault, Coded
<1>2. CASE TestSplit(m)
  <2>1. fast' = fast /\ noted' = noted /\ cu' = cu
    BY <1>2 DEF TestSplit
  <2>2. ASSUME ~cu.partsFail PROVE best' # NoBest
    <3>1. PICK r \in SplitResults(m) : best' = Better(r)
      BY <1>2 DEF TestSplit
    <3>2. CASE Coded
      BY <3>2, CodingKept DEF IInv
    <3>3. CASE ~Coded
      <4>1. r # NoBest
        <5>1. r.cost \in 1 .. MaxCost
          BY <2>2, <3>1, <3>3 DEF SplitResults
        <5> QED
          BY <5>1, MaxAssumption DEF NoBest
      <4> QED
        BY <3>1, <3>3, <4>1 DEF Better
    <3> QED
      BY <3>2, <3>3
  <2> QED
    BY <1>2, <2>1, <2>2 DEF TestSplit, IInv, AskedAboutUnsplitCoding, NoFault
<1>3. CASE Refuse(m)
  BY <1>3 DEF Refuse, IInv, AskedAboutUnsplitCoding, NoFault, TypeOK
<1>4. CASE QuadPartFails(m)
  BY <1>4 DEF QuadPartFails, IInv, AskedAboutUnsplitCoding, NoFault
<1>5. CASE TestUnsplit(m)
  BY <1>5 DEF TestUnsplit, IInv, AskedAboutUnsplitCoding, NoFault, TypeOK
<1>6. CASE Accept(m) \/ PassOver(m)
  BY <1>6 DEF Accept, PassOver, IInv, AskedAboutUnsplitCoding, NoFault
<1> QED
  BY <1>1, <1>2, <1>3, <1>4, <1>5, <1>6 DEF Step

(* A CU under a leaf of skip has every split refused.                      *)
LEMMA SkipLeafRefuses ==
  ASSUME NEW m \in Splits, SkipLeaf, ~OnlySplits(cu)
  PROVE  TRUE \notin Verdicts(m)
<1>1. m \notin NonSplits /\ m # "POST_DONT_SPLIT" /\ m # "INTRA" /\ m \notin InterModes
  BY DEF NonSplits, InterModes, Splits, Bts, Tts
<1>2. ~AtBoundary(cu) /\ ~ForcedQt(cu)
  BY DEF OnlySplits
<1>3. Verdicts(m) = {FALSE}
  BY <1>1, <1>2 DEF Verdicts, SplitAllowed
<1> QED
  BY <1>3

(* A refused binary split loses its mark, unless skip is the reason.       *)
LEMMA MarkLost ==
  ASSUME TypeOK, NEW m \in Bts, ~OnlySplits(cu), ~SkipLeaf
  PROVE  /\ m = "SPLIT_BT_H" => ~FeatureAfterRefusal(m).didHorz
         /\ m = "SPLIT_BT_V" => ~FeatureAfterRefusal(m).didVert
<1>1. FeatureAfterRefusal(m) = Forget(m)
  BY DEF FeatureAfterRefusal, RuledOut, Splits, Bts, Tts
<1> QED
  BY <1>1 DEF Forget, TypeOK

(* No refusal sets a mark.                                                 *)
LEMMA MarkNotSet ==
  ASSUME TypeOK, NEW m
  PROVE  /\ FeatureAfterRefusal(m).didHorz => feature.didHorz
         /\ FeatureAfterRefusal(m).didVert => feature.didVert
<1>1. FeatureAfterRefusal(m) \in {feature, Forget(m), [feature EXCEPT !.noSplitSkip = best.skip]}
  BY DEF FeatureAfterRefusal
<1>2. Forget(m).didHorz => feature.didHorz
  BY DEF Forget, TypeOK
<1>3. Forget(m).didVert => feature.didVert
  BY DEF Forget, TypeOK
<1>4. /\ [feature EXCEPT !.noSplitSkip = best.skip].didHorz = feature.didHorz
      /\ [feature EXCEPT !.noSplitSkip = best.skip].didVert = feature.didVert
  BY DEF TypeOK
<1> QED
  BY <1>1, <1>2, <1>3, <1>4

LEMMA MarksStep ==
  ASSUME IInv, NEW m \in TestModes, Step(m)
  PROVE  Marks'
<1> SUFFICES ASSUME ~OnlySplits(cu) PROVE Marks'
  BY Frame DEF Marks
<1>1. m \in todo /\ cu' = cu
  BY Frame DEF IsCurrent
<1>2. CASE SkipLeaf /\ pc # "test" /\ todo \subseteq Splits
  <2>1. Refuse(m)
    <3>1. ~Accept(m)
      BY <1>1, <1>2, SkipLeafRefuses DEF Accept
    <3> QED
      BY <1>2, <3>1 DEF Step, Ask, PassOver, TestUnsplit, TestSplit, QuadPartFails
  <2>2. SkipLeaf'
    BY <1>2, <2>1 DEF Refuse, SkipLeaf, Coded
  <2> QED
    BY <1>2, <2>1, <2>2 DEF Refuse, Marks
<1>3. CASE /\ feature.didHorz => "SPLIT_BT_H" \in todo \cup tested \cup pruned
           /\ feature.didVert => "SPLIT_BT_V" \in todo \cup tested \cup pruned
  <2>1. CASE Refuse(m) /\ m \in Bts /\ SkipLeaf
    <3>1. todo \subseteq Splits
      BY <2>1, SplitsLast DEF Refuse, IInv, Splits
    <3>2. SkipLeaf'
      BY <2>1 DEF Refuse, SkipLeaf, Coded
    <3> QED
      BY <2>1, <3>1, <3>2 DEF Refuse, Marks
  <2>2. CASE Refuse(m) /\ m \in Bts /\ ~SkipLeaf
    <3>1. /\ m = "SPLIT_BT_H" => ~feature'.didHorz
          /\ m = "SPLIT_BT_V" => ~feature'.didVert
      BY <2>2, MarkLost DEF Refuse, IInv
    <3>2. (feature'.didHorz => feature.didHorz) /\ (feature'.didVert => feature.didVert)
      BY <2>2, MarkNotSet DEF Refuse, IInv
    <3> QED
      BY <1>3, <2>2, <3>1, <3>2 DEF Refuse, Marks
  <2>3. CASE Refuse(m) /\ m \notin Bts
    <3>1. (feature'.didHorz => feature.didHorz) /\ (feature'.didVert => feature.didVert)
      BY <2>3, MarkNotSet DEF Refuse, IInv
    <3> QED
      BY <1>3, <2>3, <3>1 DEF Refuse, Marks, Bts
  <2>4. CASE ~Refuse(m)
    <3>1. feature'.didHorz = feature.didHorz /\ feature'.didVert = feature.didVert
      BY <2>4 DEF Step, Accept, Ask, PassOver, TestUnsplit, TestSplit, LearnFromSplit,
                  QuadPartFails, IInv, TypeOK
    <3>2. todo \cup tested \cup pruned \subseteq todo' \cup tested' \cup pruned'
      BY <2>4 DEF Step, Accept, Ask, PassOver, TestUnsplit, TestSplit, QuadPartFails, ToNextMode
    <3> QED
      BY <1>3, <3>1, <3>2 DEF Marks
  <2> QED
    BY <2>1, <2>2, <2>3, <2>4
<1> QED
  BY <1>2, <1>3 DEF IInv, Marks

(* The quad split comes last when it may be given up, so nothing is to come. *)
LEMMA QtGivenUpStep ==
  ASSUME IInv, NEW m \in TestModes, Step(m)
  PROVE  QtGivenUpAfterBinary'
<1>1. tested \cup pruned \subseteq tested' \cup pruned'
  BY DEF Step, Refuse, Accept, Ask, PassOver, TestUnsplit, TestSplit, QuadPartFails
<1>2. CASE noted'.qtGivenUp => noted.qtGivenUp
  BY <1>1, <1>2 DEF IInv, QtGivenUpAfterBinary
<1>3. CASE noted'.qtGivenUp /\ ~noted.qtGivenUp
  <2>1. /\ IsCurrent(m) /\ m = "SPLIT_QT" /\ ~OnlySplits(cu) /\ ~SkipLeaf /\ QtGivenUp
        /\ tested' = tested /\ pruned' = pruned
    BY <1>3 DEF Step, Refuse, Accept, Ask, PassOver, TestUnsplit, TestSplit, QuadPartFails,
                IInv, TypeOK
  <2>2. feature.didHorz /\ feature.didVert /\ ~cu.qtBeforeBt
    BY <2>1 DEF QtGivenUp
  <2>3. Bts \subseteq todo \cup tested \cup pruned
    BY <2>1, <2>2 DEF IInv, Marks, Bts
  <2>4. Rank(m) = 16 /\ Rank("SPLIT_BT_H") = 12 /\ Rank("SPLIT_BT_V") = 13
    BY <2>1, <2>2 DEF Rank
  <2>5. Bts \cap todo = {}
    BY <2>1, <2>4 DEF IsCurrent, Bts
  <2> QED
    BY <2>1, <2>3, <2>5 DEF QtGivenUpAfterBinary
<1> QED
  BY <1>2, <1>3

----------------------------------------------------------------------------
(* The parts together.                                                     *)

LEMMA IInvInit == Init => IInv
<1> SUFFICES ASSUME Init PROVE IInv
  OBVIOUS
<1> USE DEF Init
<1>1. TypeOK
  BY TypeInit
<1>2. Legal(cu)
  BY CusAssumption
<1>3. ~Coded /\ ~fast.chosen /\ tested = {} /\ pruned = {} /\ ~noted.qtGivenUp
  BY DEF Coded
<1>4. Order /\ OnlySplitsLeft /\ BestKind /\ AskedFirst
  BY <1>3 DEF Order, OnlySplitsLeft, BestKind, AskedFirst
<1>5. Delivered
  BY <1>1, SureMode DEF Delivered
<1>6. ForcedListed
  BY <1>2 DEF ForcedListed, OnlySplits, AtBoundary, Legal, Listed, Splits
<1>7. SplitsArePermitted /\ AskedAboutUnsplitCoding /\ NoFault /\ QtGivenUpAfterBinary
  BY <1>3 DEF SplitsArePermitted, AskedAboutUnsplitCoding, NoFault, QtGivenUpAfterBinary
<1>8. Marks
  BY DEF Marks, InitialFeature, Listed, Bts
<1> QED
  BY <1>1, <1>4, <1>5, <1>6, <1>7, <1>8 DEF IInv

LEMMA IInvNext == IInv /\ [Next]_vars => IInv'
<1> SUFFICES ASSUME IInv, [Next]_vars PROVE IInv'
  OBVIOUS
<1>1. ASSUME NEW m \in TestModes, Step(m) PROVE IInv'
  <2>1. TypeOK'
    BY <1>1, TypeStep DEF IInv
  <2> QED
    BY <1>1, <2>1, OrderStep, OnlySplitsLeftStep, DeliveredStep, BestKindStep, AskedFirstStep,
       ForcedListedStep, PermittedStep, AskedStep, MarksStep, QtGivenUpStep DEF IInv
<1>2. CASE Finish \/ UNCHANGED vars
  <2>1. /\ UNCHANGED <<cu, todo, lastTestMode, feature, best, fast, tested, pruned, noted>>
        /\ pc' = pc \/ (pc' = "end" /\ pc = "next" /\ todo = {})
    BY <1>2 DEF Finish, vars
  <2>2. TypeOK'
    BY <2>1 DEF IInv, TypeOK
  <2>3. Order' /\ Delivered' /\ AskedFirst' /\ ForcedListed'
    BY <2>1 DEF IInv, Order, Delivered, Sure, Coded, IsTarget, AskedFirst, ForcedListed
  <2>4. OnlySplitsLeft'
    <3>1. \A n : IsCurrent(n)' <=> IsCurrent(n)
      BY <2>1 DEF IsCurrent, Rank
    <3> QED
      BY <2>1, <3>1 DEF IInv, OnlySplitsLeft
  <2>5. BestKind'
    BY <2>1 DEF IInv, BestKind, Coded
  <2>6. SplitsArePermitted' /\ AskedAboutUnsplitCoding' /\ NoFault' /\ QtGivenUpAfterBinary'
    BY <2>1 DEF IInv, SplitsArePermitted, IsTarget, AskedAboutUnsplitCoding, NoFault,
                QtGivenUpAfterBinary
  <2>7. Marks'
    BY <2>1 DEF IInv, Marks, SkipLeaf, Coded
  <2> QED
    BY <2>2, <2>3, <2>4, <2>5, <2>6, <2>7 DEF IInv
<1> QED
  BY <1>1, <1>2 DEF Next

THEOREM Invariance == Spec => []IInv
  BY IInvInit, IInvNext, PTL DEF Spec

(* What the variables are.                                                 *)
THEOREM TypeCorrect == Spec => []TypeOK
<1>1. IInv => TypeOK
  BY DEF IInv
<1> QED
  BY <1>1, Invariance, PTL

(* Get_Mode never reads the CU of an empty or a split coding, whichever    *)
(* tests deliver nothing and whatever CUs are searched.                    *)
THEOREM AskedUnsplit == Spec => []AskedAboutUnsplitCoding
<1>1. IInv => AskedAboutUnsplitCoding
  BY DEF IInv
<1> QED
  BY <1>1, Invariance, PTL

(* No split of a target CU is tested against the network's word.           *)
THEOREM Obeyed == Spec => []SplitsArePermitted
<1>1. IInv => SplitsArePermitted
  BY DEF IInv
<1> QED
  BY <1>1, Invariance, PTL

(* Splits that are all there is are tested, the network notwithstanding.   *)
THEOREM ForcedKept == Spec => []ForcedSplitsKept
<1>1. IInv => ForcedSplitsKept
  BY DEF IInv, ForcedSplitsKept, ForcedListed, OnlySplitsLeft, BestKind
<1> QED
  BY <1>1, Invariance, PTL

(* The search ends with a coding wherever the CU may stay unsplit.         *)
THEOREM Encoded == Spec => []EndsCoded
<1>1. IInv => EndsCoded
  BY DEF IInv, EndsCoded, Delivered, BestKind, MayStayUnsplit
<1> QED
  BY <1>1, Invariance, PTL

(* While parts are coded, no empty coding is read.                         *)
THEOREM Faultless == Spec => []NoFault
<1>1. IInv => NoFault
  BY DEF IInv
<1> QED
  BY <1>1, Invariance, PTL

(* The quad split is not given up before the binary splits had their turn. *)
THEOREM QtGivenUpLate == Spec => []QtGivenUpAfterBinary
<1>1. IInv => QtGivenUpAfterBinary
  BY DEF IInv
<1> QED
  BY <1>1, Invariance, PTL
=============================================================================
