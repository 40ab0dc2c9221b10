---------------------------- MODULE MCCompressCU ----------------------------
(* CUs for TLC.                                                             *)
EXTENDS CompressCU

\* a 32x32 CU of a B slice inside the picture at which everything is possible
Plain ==
  [slice |-> "B", w |-> 32, h |-> 32, implicit |-> "DONT_SPLIT", can |-> Splits, mode |-> "ALL",
   belowMinDepth |-> FALSE, atMaxDepth |-> FALSE, qtBeforeBt |-> FALSE, reusing |-> FALSE,
   bt |-> 0, deep |-> FALSE, skipAbove |-> 0, related |-> {}, partsFail |-> FALSE]

With(w, h, can, qtFirst) ==
  [Plain EXCEPT !.w = w, !.h = h, !.can = can, !.qtBeforeBt = qtFirst]

\* target CUs: quad-tree nodes, nodes of the multi-type tree, nodes under skip,
\* nodes coded before
TargetCus ==
  {With(32, 32, c, q) : c \in {Splits, Splits \ Tts, Bts, {"SPLIT_QT", "SPLIT_BT_V"}, {}},
                        q \in BOOLEAN}
  \cup {With(128, 128, {"SPLIT_QT"} \cup Bts, q) : q \in BOOLEAN}
  \cup {[With(64, 128, {"SPLIT_BT_H"}, FALSE) EXCEPT !.bt = 1]}
  \cup {[With(s[1], s[2], Bts \cup {t}, FALSE) EXCEPT !.bt = 1, !.deep = d, !.skipAbove = 2] :
           s \in { <<32, 8>>, <<16, 64>> }, t \in Tts, d \in BOOLEAN}
  \cup {[Plain EXCEPT !.reusing = TRUE], [Plain EXCEPT !.atMaxDepth = TRUE]}
  \cup {[Plain EXCEPT !.related = r, !.partsFail = TRUE, !.can = c] :
           r \in {{"isSkip"}, {"isIntra"}}, c \in {{"SPLIT_QT", "SPLIT_BT_H"}, {}}}

\* the picture boundary, the QT depth rule, and parts that are not coded
ForcedCus ==
  {[Plain EXCEPT !.implicit = i, !.can = c \cup {i}, !.partsFail = f, !.qtBeforeBt = f] :
     i \in {"SPLIT_BT_H", "SPLIT_BT_V", "SPLIT_QT"}, c \in {{}, {"SPLIT_QT"}}, f \in BOOLEAN}
  \cup {[Plain EXCEPT !.belowMinDepth = TRUE, !.qtBeforeBt = q, !.can = c] :
     q \in BOOLEAN, c \in {Splits, Bts \cup Tts}}

\* small inter blocks, blocks bound to one prediction mode, and intra slices
OtherCus ==
  {[Plain EXCEPT !.w = 8, !.h = 8, !.can = c, !.mode = m, !.bt = 1, !.qtBeforeBt = FALSE] :
     c \in {{}, Bts}, m \in {"ALL", "INTER", "INTRA"}}
  \cup {[Plain EXCEPT !.w = 4, !.h = 4, !.can = {}, !.bt = 2, !.deep = TRUE]}
  \cup {[Plain EXCEPT !.slice = "I", !.partsFail = f, !.can = c] :
     f \in BOOLEAN, c \in {Splits, {}}}
AllCus == TargetCus \cup ForcedCus \cup OtherCus
=============================================================================
