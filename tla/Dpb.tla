-------------------------------- MODULE Dpb --------------------------------
(***************************************************************************)
(* The decoded picture buffer: the operations of DecLib, Slice and DecApp  *)
(* on the list of pictures.  A picture is [poc, tid, type, irap, order,    *)
(* referenced, reconstructed, needed]: irap is the POC of the IRAP picture *)
(* its slice was associated with, order its place in decoding order.       *)
(*                                                                         *)
(* A check that fails throws; what reads past the end of the list, or      *)
(* through a null pointer, is undefined.                                   *)
(***************************************************************************)
EXTENDS CodedStream

LOCAL INSTANCE TLC   \* SortSeq

\* mutant: a picture that is no longer referenced is free
NewPicBufferUnreferenced(list, maxDec) ==
  LET free == {i \in DOMAIN list : ~list[i].referenced}
  IN IF Len(list) < maxDec \/ free = {} THEN Len(list) + 1 ELSE Min(free)

\* xGetNewPicBuffer: the place in the list for the next picture, one past the
\* end for a new buffer
NewPicBuffer(list, maxDec) ==
  LET free == {i \in DOMAIN list : ~list[i].needed /\ (~list[i].reconstructed \/ ~list[i].referenced)}
  IN IF Len(list) < maxDec \/ free = {} THEN Len(list) + 1 ELSE Min(free)

Others(list, at) == {list[i] : i \in DOMAIN list \ {at}}

\* applyReferencePictureListBasedMarking: what is in neither list of the slice
\* is no longer referenced; an IDR picture looks at no list
Marked(pic, nal) ==
  [pic EXCEPT !.referenced =
     @ /\ (pic.poc = nal.poc \/ (nal.type \notin IdrTypes /\ pic.poc \in AllRefs(nal)))]

\* checkLeadingPictureRestrictions, over the other reconstructed pictures.  irap
\* and irapType are the slice's associated IRAP picture, noPrior its
\* NoOutputOfPriorPicsFlag.
LeadingTypes == {"RASL", "RADL"}

LeadingPictureRestrictions(pics, nal, irap, irapType, noPrior) ==
  LET leading == nal.type \in LeadingTypes
      ofCra   == nal.type = "RASL" /\ irapType = "CRA"
  IN /\ nal.type \notin IrapTypes => (leading <=> irap > nal.poc)
     /\ nal.type = "RASL" => irapType \notin IdrTypes
     /\ nal.type = "RADL" => irapType # "IDR_N_LP"
     /\ \A p \in {q \in pics : q.reconstructed /\ q.poc # nal.poc} :
          /\ nal.type \in IrapTypes /\ ~noPrior => p.poc < nal.poc
          /\ nal.type = "RADL" /\ irap > p.irap /\ irap # p.poc => p.poc < nal.poc
          /\ leading /\ p.type \notin LeadingTypes /\ p.irap = irap => p.poc <= irap
          /\ ofCra /\ p.irap = irap /\ p.type = "RADL" => p.poc > nal.poc
          /\ ofCra /\ p.type \in IrapTypes /\ p.poc < irap => nal.poc > p.poc

\* checkThatAllRefPicsAreAvailable: the first active entry that is not there as
\* a reference is reported, unless its POC is not above 0
FirstMissing(list, nal, x) ==
  LET active  == SubSeq(RefPocs(nal, x), 1, Min({nal.active[x], Len(nal.refs[x])}))
      there(p) == \E i \in DOMAIN list : list[i].poc = p /\ list[i].referenced
      missing == SelectSeq(active, LAMBDA p : ~there(p))
  IN IF missing = <<>> THEN 0 ELSE Head(missing)

LostPicture(list, nal) ==
  nal.type \notin IdrTypes /\ \E x \in 1 .. 2 : FirstMissing(list, nal, x) > 0

\* checkCRA: behind an IRAP picture no entry goes back beyond it
PassesCRA(nal, pocCRA) == nal.poc > pocCRA => \A p \in AllRefs(nal) : p >= pocCRA

\* xGetRefPic finds no picture and walks off the list
WalksOffList(list, nal) == \E p \in AllRefs(nal) : \A i \in DOMAIN list : list[i].poc # p

\* checkRPL: irap and irapOrder are the associated IRAP picture
PassesRPL(list, nal, irap, irapOrder) ==
  \A x \in 1 .. 2 : \A j \in DOMAIN nal.refs[x] :
    LET ref    == list[Min({i \in DOMAIN list : list[i].poc = RefPocs(nal, x)[j]})]
        before == ref.poc < irap \/ ref.order < irapOrder
    IN /\ nal.type \in IrapTypes \/ irap < nal.poc => ~before
       /\ ref.poc # nal.poc
       /\ j <= nal.active[x] =>
            /\ nal.type = "RADL" => ref.order >= irapOrder
            /\ ref.tid <= nal.tid

\* Slice::sortPicList
SortedByPoc(list) == SortSeq(list, LAMBDA a, b : a.poc < b.poc)

(***************************************************************************)
(* The application's two ways of writing pictures.  An output is           *)
(* [list, last, written]: last is m_iPOCLastDisplay.                       *)
(***************************************************************************)
Shown(pic) ==
  [pic EXCEPT !.needed = FALSE, !.reconstructed = @ /\ pic.referenced]

\* mutant: pictures leave when as many wait as are allowed to
WriteOutputEarly(out, reorder, maxDec) ==
  LET waiting == SelectSeq(out.list, LAMBDA p : p.needed /\ p.poc > out.last)
      first == Min({i \in DOMAIN out.list : out.list[i] = waiting[1]})
  IN IF Len(waiting) < reorder \/ waiting = <<>> THEN out
     ELSE [list |-> [out.list EXCEPT ![first] = Shown(@)], last |-> waiting[1].poc,
           written |-> Append(out.written, waiting[1].poc)]

\* xWriteOutput: pictures leave in the order of the list while more wait, or
\* fill the buffer, than the highest temporal layer allows
WriteOutput(out, reorder, maxDec) ==
  LET waits(p, last) == p.needed /\ p.poc > last
      waiting == Cardinality({i \in DOMAIN out.list : waits(out.list[i], out.last)})
      full    == waiting + Cardinality({i \in DOMAIN out.list :
                             ~waits(out.list[i], out.last) /\ out.list[i].referenced})
      look(acc, i) ==
        LET p == out.list[i]
        IN IF waits(p, acc.last) /\ (acc.waiting > reorder \/ acc.full > maxDec)
           THEN [acc EXCEPT !.list[i] = Shown(p), !.last = p.poc, !.written = Append(@, p.poc),
                            !.waiting = @ - 1, !.full = IF p.referenced THEN @ ELSE @ - 1]
           ELSE acc
      end == FoldLeft(look, [list |-> out.list, last |-> out.last, written |-> out.written,
                             waiting |-> waiting, full |-> full],
                      [i \in DOMAIN out.list |-> i])
  IN [list |-> end.list, last |-> end.last, written |-> end.written]

\* xFlushOutput: every picture that is needed, whatever was shown before it;
\* the list is emptied
FlushOutput(out, none) ==
  LET needed == SelectSeq(out.list, LAMBDA p : p.needed)
  IN IF out.list = <<>> THEN out
     ELSE [list |-> <<>>, last |-> none,
           written |-> out.written \o [i \in DOMAIN needed |-> needed[i].poc]]
=============================================================================
