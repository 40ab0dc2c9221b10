------------------------- MODULE MCUnitPartitioner -------------------------
(* Configurations for TLC.                                                  *)
EXTENDS NetSizes

\* an inter slice of the settings in src/run/*.cfg, with a smaller CTU
Inter(ctu, w, h) ==
  [ctu |-> ctu, picW |-> w, picH |-> h, minQt |-> 8, maxBt |-> ctu, maxTt |-> MinOf(ctu, 64),
   minCb |-> 4, maxBtDepth |-> 2, maxTb |-> 32, cuQpDeltaSubdiv |-> 3, ch |-> "LUMA",
   dualITree |-> FALSE, intra |-> FALSE]

InterConfigs ==
  {[Inter(32, s[1], s[2]) EXCEPT !.minQt = 16, !.maxBtDepth = d]
      : s \in {<<24, 32>>, <<32, 16>>, <<24, 24>>}, d \in {1, 2}}

LargeConfigs ==
  {[Inter(128, s[1], s[2]) EXCEPT !.minQt = 64, !.maxBtDepth = 1, !.maxTb = t]
      : s \in {<<128, 128>>, <<72, 128>>, <<128, 104>>, <<120, 88>>}, t \in {32, 64}}

Intra(ctu, w, h) == [Inter(ctu, w, h) EXCEPT !.intra = TRUE, !.dualITree = TRUE]

IntraConfigs ==
  {[Intra(32, s[1], s[2]) EXCEPT !.ch = c, !.cuQpDeltaSubdiv = 2, !.minQt = 16]
      : s \in {<<32, 32>>, <<16, 24>>, <<24, 24>>}, c \in {"LUMA", "CHROMA"}}
  \cup {[Intra(128, 128, 72) EXCEPT !.minQt = 64, !.maxBt = 64, !.maxBtDepth = 1, !.ch = c]
      : c \in {"LUMA", "CHROMA"}}
  \cup {[Intra(32, 32, 24) EXCEPT !.dualITree = FALSE, !.minQt = 8]}

\* inter slices inside the picture, deep enough to reach every size in the
\* network's table
SizeConfigs ==
  {[Inter(c, c, c) EXCEPT !.minQt = c \div 2, !.maxTb = MinOf(c, 64), !.cuQpDeltaSubdiv = 0]
      : c \in {32, 64}}
  \cup {[Inter(128, 128, 128) EXCEPT !.minQt = 64, !.maxTb = 64, !.cuQpDeltaSubdiv = 0]}

AllConfigs == InterConfigs \cup IntraConfigs \cup LargeConfigs \cup SizeConfigs
=============================================================================
