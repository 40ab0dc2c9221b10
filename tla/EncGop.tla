------------------------------ MODULE EncGop ------------------------------
(***************************************************************************)
(* EncGOP::compressGOP as far as it decides what refers to what: the NAL   *)
(* unit type of every picture, the marking of references around random     *)
(* access points, and the reference picture lists its slice carries.       *)
(*                                                                         *)
(* Not here: fields, composite references, dependent random access points, *)
(* recovery point SEI, several slices (all lists of a picture are equal)   *)
(* and STSA, which is a TRAIL picture to every test modelled.              *)
(***************************************************************************)
EXTENDS CodedStream

VARIABLE enc   \* [next, marked, lastIDR, pocCRA, irapType, refreshPending]

EncInit ==
  /\ stream = <<>>
  /\ enc = [next |-> 0, marked |-> {}, lastIDR |-> 0, pocCRA |-> 0,
            irapType |-> "IDR_N_LP", refreshPending |-> FALSE]

PocCurr == IF enc.next = 0 THEN 0 ELSE PocOf(cfg.gop, enc.next)
GopId == IF enc.next = 0 THEN 1 ELSE ((enc.next - 1) % Len(cfg.gop)) + 1

\* A GOP is coded when its base leaves a picture to code; the last one may be
\* incomplete, but it is walked to its end
PicturesLeft ==
  enc.next = 0 \/ PocOf(cfg.gop, enc.next) - EntryOf(cfg.gop, enc.next).poc < cfg.frames - 1

IsIntraPeriod(poc) == poc % cfg.period = 0

GetNalUnitType(poc, lastIDR) ==
  IF poc = 0 THEN "IDR_N_LP"
  ELSE IF IsIntraPeriod(poc) THEN (IF cfg.refresh = 1 THEN "CRA" ELSE "IDR_W_RADL")
  ELSE IF enc.pocCRA > 0 /\ poc < enc.pocCRA THEN "RASL"
  ELSE IF lastIDR > 0 /\ poc < lastIDR THEN "RADL"
  ELSE "TRAIL"

\* m_associatedIRAPType: of the picture itself or of the last random access point
AssociatedIrap(type) == IF type \in IrapTypes THEN type ELSE enc.irapType

\* Slice::decodingRefreshMarking with EfficientFieldIRAPEnabled, which is on by
\* default and defers a second marking behind an IDR picture, of frames too: the
\* first picture shown after the random access point leaves only that one.
RefreshPoc(type) == IF AssociatedIrap(type) \in IdrTypes THEN enc.lastIDR ELSE enc.pocCRA
RefreshDue(type, poc) == type \notin IdrTypes /\ enc.refreshPending /\ poc > RefreshPoc(type)

\* mutant: no second marking behind an IDR picture
RefreshMarkedOnce(type, poc) ==
  IF type \in IdrTypes THEN {}
  ELSE IF RefreshDue(type, poc) /\ AssociatedIrap(type) = "CRA" THEN enc.marked \cap {enc.pocCRA}
  ELSE enc.marked
\* what stays referenced of what was coded before
RefreshMarked(type, poc) ==
  IF type \in IdrTypes THEN {}
  ELSE IF RefreshDue(type, poc) THEN enc.marked \cap {RefreshPoc(type)}
  ELSE enc.marked

StillPending(type, poc) ==
  type \in IrapTypes \/ (enc.refreshPending /\ ~RefreshDue(type, poc))

\* xCreateExplicitReferencePictureSetFromReference: the references still marked.
\* List 1 is filled from list 0; the loop meant to fill list 0 from list 1 is
\* bounded by the entries of a list 1 that is still empty.
ExplicitLists(rpl, poc, marked) ==
  LET available(x) == SelectSeq(rpl[x].delta, LAMBDA d : poc - d \in marked)
      l0 == available(1)
      active0 == Min({Len(l0), rpl[1].active})
      fill(acc, d) ==
        IF /\ Len(acc) < active0
           /\ ~Contains(acc, d)
           /\ cfg.sameSign /\ acc # <<>> => ((d < 0) <=> (acc[1] < 0))
        THEN Append(acc, d) ELSE acc
      l1 == FoldLeft(fill, available(2), l0)
      active1 == IF cfg.sameSign THEN Len(l1) ELSE Min({Len(l1), rpl[2].active})
  IN <<[delta |-> l0, active |-> active0], [delta |-> l1, active |-> active1]>>

\* The lists of the slice: those of the SPS unless a reference is missing
ChosenLists(type, poc, marked) ==
  LET rpl == SelectedList(cfg.lists, Len(cfg.gop), poc, GopId, cfg.period).rpl
      missing == \E x \in 1 .. 2 : \E d \in Range(rpl[x].delta) : poc - d \notin marked
  IN IF missing /\ type \notin IdrTypes THEN ExplicitLists(rpl, poc, marked) ELSE rpl

\* The header of the slice: an IDR picture carries no lists, an intra slice uses
\* none of the entries of its lists
SliceOf(type, poc, rpl) ==
  [poc |-> poc, tid |-> cfg.gop[GopId].tid, type |-> type,
   refs |-> IF type \in IdrTypes THEN <<(<<>>), (<<>>)>> ELSE <<rpl[1].delta, rpl[2].delta>>,
   active |-> IF IsIntraPeriod(poc) THEN <<0, 0>>
              ELSE IF Len(rpl[1].delta) <= 1 /\ Len(rpl[2].delta) <= 1 THEN <<1, 1>>
              ELSE <<rpl[1].active, rpl[2].active>>]

\* One picture of compressGOP
CompressPicture ==
  /\ PicturesLeft
  /\ PocCurr < cfg.frames
  /\ LET poc     == PocCurr
         lastIDR == IF GetNalUnitType(poc, enc.lastIDR) \in IdrTypes THEN poc ELSE enc.lastIDR
         type    == GetNalUnitType(poc, lastIDR)
         marked  == RefreshMarked(type, poc)
         nal     == SliceOf(type, poc, ChosenLists(type, poc, marked))
     IN /\ stream' = Append(stream, nal)
        /\ enc' = [next |-> enc.next + 1,
                   marked |-> (marked \cap AllRefs(nal)) \cup {poc},
                   lastIDR |-> lastIDR,
                   pocCRA |-> IF type = "CRA" THEN poc ELSE enc.pocCRA,
                   irapType |-> AssociatedIrap(type),
                   refreshPending |-> StillPending(type, poc)]
  /\ UNCHANGED cfg

\* A picture of the last GOP that the video does not have
PassPicture ==
  /\ PicturesLeft
  /\ PocCurr >= cfg.frames
  /\ enc' = [enc EXCEPT !.next = @ + 1]
  /\ UNCHANGED <<cfg, stream>>

EncNext == CompressPicture \/ PassPicture
=============================================================================
