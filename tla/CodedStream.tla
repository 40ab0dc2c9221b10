---------------------------- MODULE CodedStream ----------------------------
(***************************************************************************)
(* What encoder and decoder share: the configuration and the coded video   *)
(* sequence, one slice NAL unit per picture with its header (one layer, no *)
(* long-term references, every POC within half of the POC cycle).          *)
(***************************************************************************)
EXTENDS GopStructure

VARIABLES
  cfg,     \* [gop, lists, sizes, sameSign, period, refresh, frames, skip, maxTid]
  stream   \* the slices written, [poc, tid, type, refs, active]

IrapTypes == {"IDR_N_LP", "IDR_W_RADL", "CRA"}
IdrTypes == {"IDR_N_LP", "IDR_W_RADL"}
NalTypes == IrapTypes \cup {"RASL", "RADL", "TRAIL"}

\* the POCs in a slice's list x
RefPocs(nal, x) == [j \in DOMAIN nal.refs[x] |-> nal.poc - nal.refs[x][j]]
AllRefs(nal) == Range(RefPocs(nal, 1)) \cup Range(RefPocs(nal, 2))
ActiveRefs(nal, x) ==
  {RefPocs(nal, x)[j] : j \in 1 .. Min({nal.active[x], Len(nal.refs[x])})}

\* What EncApp settles before the first picture and writes to the SPS
WithSps(gop, lists, period, refresh, frames, skip, maxTid) ==
  [gop |-> gop, lists |-> lists, sizes |-> BufferSizes(gop),
   sameSign |-> AllActiveRplEntriesHasSameSign(lists),
   period |-> period, refresh |-> refresh, frames |-> frames,
   skip |-> skip, maxTid |-> maxTid]

Configured(gop, period, refresh, frames, skip, maxTid) ==
  WithSps(gop, SpsLists(gop), period, refresh, frames, skip, maxTid)
=============================================================================
