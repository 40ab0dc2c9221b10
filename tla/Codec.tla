------------------------------- MODULE Codec -------------------------------
(***************************************************************************)
(* EncoderApp writes a stream and DecoderApp decodes it: the reference     *)
(* structure of the encoder against the picture buffer, the conformance    *)
(* checks and the output of the decoder.                                   *)
(***************************************************************************)
EXTENDS EncGop, DecApp

CONSTANT Configurations
ASSUME ConfigurationsAssumption ==
  \A c \in Configurations :
    /\ c.frames \in Nat \ {0} /\ c.period \in Nat \ {0} /\ c.refresh \in {1, 2}
    /\ c.skip \in Nat /\ c.maxTid \in -1 .. MAX_TLAYER - 1

vars == <<cfg, stream, enc, dec>>

Init == cfg \in Configurations /\ EncInit /\ DecInit

Encode == EncNext /\ UNCHANGED dec
Decode == ~PicturesLeft /\ DecNext /\ UNCHANGED enc

\* both programs are through
Terminating == dec.finished /\ UNCHANGED vars

Next == Encode \/ Decode \/ Terminating

Spec == Init /\ [][Next]_vars

-----------------------------------------------------------------------------
(***************************************************************************)
(* Properties                                                              *)
(***************************************************************************)
\* The decoder takes every stream the encoder writes: no check of the decoder
\* throws and no reference is missing from its picture list.  (EncGOP marks and
\* lists references on its own copy of what DecLib keeps.)
AcceptsStream == dec.status = "ok"

\* The picture buffer stays within the size EncAppCfg counts from the GOP for
\* what is referenced and what waits for output together; the branch "There is
\* no room for this picture" extends it by one at most.
BufferBounded == Len(dec.list) <= cfg.sizes.dec[HighestTid] + 1

\* DecApp shows the pictures as PictureOutput promises: bumping by the counts
\* of the SPS never shows a picture before one that is still to be decoded and
\* precedes it.
Output ==
  INSTANCE PictureOutput
    WITH waiting <- {dec.list[i].poc : i \in {j \in DOMAIN dec.list : dec.list[j].needed}},
         shown <- dec.written
ImplementsOutput == Output!Spec

\* When the decoder is through, every picture of the layers it decodes has been
\* shown, from the first random access point that the option -s left.  (That it
\* gets through is the absence of deadlock.)
DecodedLayers == {i \in DOMAIN stream : cfg.maxTid = -1 \/ stream[i].tid <= cfg.maxTid}
RandomAccessPoints ==
  {i \in DecodedLayers : /\ stream[i].type \in IrapTypes
                         /\ Cardinality({j \in DecodedLayers : j < i}) >= cfg.skip}
EverythingShown ==
  dec.finished =>
    Range(dec.written) =
      {stream[i].poc : i \in {j \in DecodedLayers : \E k \in RandomAccessPoints : k <= j}}
=============================================================================
