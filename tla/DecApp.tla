------------------------------- MODULE DecApp -------------------------------
(***************************************************************************)
(* The decoder: the main loop of DecApp::decode over the slices of the     *)
(* stream, what DecLib::xDecodeSlice does with the header of each, and the *)
(* writing of pictures.                                                    *)
(*                                                                         *)
(* isNewPicture looks ahead: between two slices the loop runs once without *)
(* reading (NewPicture) and the picture is finished; the last picture is   *)
(* finished in the round that reads it.  Not here: several layers, end of  *)
(* sequence units, fields, gradual refresh, and the samples.               *)
(***************************************************************************)
EXTENDS Dpb

VARIABLE dec

MaxInt == 2147483647

DecInit ==
  dec = [pos |-> 0, status |-> "ok", finished |-> FALSE,
         skip |-> cfg.skip, pocRandomAccess |-> MaxInt, picSkipped |-> FALSE,
         started |-> FALSE, firstSlice |-> TRUE, listKnown |-> FALSE, newClvs |-> FALSE,
         noPrior |-> MaxInt, lastNoOutput |-> FALSE,
         pocCRA |-> MaxInt, irapType |-> "INVALID", irapOrder |-> 0,
         order |-> 0, cur |-> 0, output |-> TRUE,
         list |-> <<>>, last |-> -MaxInt, written |-> <<>>]

\* the layer m_iMaxTemporalLayer selects; -1 selects all
HighestTid ==
  IF cfg.maxTid = -1 \/ cfg.maxTid >= MaxTempLayer(cfg.gop) THEN MaxTempLayer(cfg.gop) - 1
  ELSE cfg.maxTid

WithOutput(d, out) == [d EXCEPT !.list = out.list, !.last = out.last, !.written = out.written]
OutputOf(d) == [list |-> d.list, last |-> d.last, written |-> d.written]

\* xWriteOutput and xFlushOutput, once pcListPic is set
Write(d) ==
  IF ~d.listKnown THEN d
  ELSE WithOutput(d, WriteOutput(OutputOf(d), cfg.sizes.reorder[HighestTid],
                                 cfg.sizes.dec[HighestTid]))
Flush(d) ==
  IF ~d.listKnown THEN d ELSE WithOutput(d, FlushOutput(OutputOf(d), -MaxInt))

\* finishPicture and updateAssociatedIRAP.  The picture's header is reset: a
\* picture finished again counts as one for output.
Finish(d) ==
  LET i   == CHOOSE j \in DOMAIN d.list : d.list[j].order = d.cur
      pic == d.list[i]
      shows == d.output /\ ~(d.newClvs /\ pic.type = "RASL")
      done == [pic EXCEPT !.needed = shows, !.reconstructed = TRUE]
      list == [j \in DOMAIN d.list |-> IF j = i THEN done ELSE d.list[j]]
      e    == [d EXCEPT !.list = SortedByPoc(list), !.output = TRUE,
                        !.firstSlice = TRUE, !.listKnown = TRUE]
  IN IF pic.type \in IrapTypes
     THEN [e EXCEPT !.pocCRA = pic.poc, !.irapType = pic.type, !.irapOrder = pic.order]
     ELSE e

(***************************************************************************)
(* xDecodeSlice, in its order                                              *)
(***************************************************************************)
\* checkNoOutputPriorPics for an earlier IRAP picture, then this picture's own
\* flags
HeaderFlags(d, nal) ==
  LET recovery == ~d.started \/ nal.type \in IdrTypes
      lastNoOutput == IF nal.type = "CRA" THEN recovery ELSE d.lastNoOutput
  IN [d EXCEPT
        !.list = IF d.noPrior = MaxInt THEN @
                 ELSE [i \in DOMAIN @ |-> [@[i] EXCEPT !.needed = @ /\ d.list[i].poc = d.noPrior]],
        !.noPrior = IF nal.type \in IrapTypes /\ d.started /\ recovery THEN nal.poc ELSE MaxInt,
        !.lastNoOutput = lastNoOutput,
        !.output = ~(nal.type = "RASL" /\ lastNoOutput)]

\* isRandomAccessSkipPicture: its answer, and what it leaves behind
SkipsPicture(d, nal) ==
  \/ d.skip > 0
  \/ /\ nal.type \notin IdrTypes
     /\ IF d.pocRandomAccess = MaxInt THEN nal.type # "CRA"
        ELSE nal.poc < d.pocRandomAccess /\ nal.type = "RASL"

RandomAccess(d, nal) ==
  IF d.skip > 0 THEN [d EXCEPT !.skip = @ - 1]
  ELSE [d EXCEPT !.pocRandomAccess =
          IF nal.type \in IdrTypes THEN -MaxInt
          ELSE IF @ = MaxInt /\ nal.type = "CRA" THEN nal.poc ELSE @]

\* The picture takes its buffer before the marking that might free one
DecodePicture(d, nal) ==
  LET at   == NewPicBuffer(d.list, cfg.sizes.dec[nal.tid])
      prior == Others(d.list, at)
      pic  == [poc |-> nal.poc, tid |-> nal.tid, type |-> nal.type, irap |-> d.pocCRA,
               order |-> d.order, referenced |-> TRUE, reconstructed |-> FALSE, needed |-> FALSE]
      list == [i \in 1 .. Max({at, Len(d.list)}) |->
                 IF i = at THEN pic ELSE Marked(d.list[i], nal)]
      noPrior == d.noPrior # MaxInt
  IN [d EXCEPT
        !.list = list, !.cur = d.order, !.order = @ + 1,
        !.started = TRUE, !.firstSlice = FALSE,
        !.status =
          IF LostPicture(d.list, nal) THEN "undefined"
          ELSE IF \/ ~LeadingPictureRestrictions(prior, nal, d.pocCRA, d.irapType, noPrior)
                  \/ ~PassesCRA(nal, d.pocCRA) THEN "threw"
          ELSE IF WalksOffList(list, nal) THEN "undefined"
          ELSE IF ~PassesRPL(list, nal, d.pocCRA, d.irapOrder) THEN "threw"
          ELSE "ok"]

DecodeSlice(d, nal) ==
  LET e == HeaderFlags(d, nal)
      f == RandomAccess(e, nal)
  IN IF SkipsPicture(e, nal) THEN f ELSE DecodePicture(f, nal)

(***************************************************************************)
(* The main loop                                                           *)
(***************************************************************************)
AtEnd(d) == d.pos = Len(stream)

\* a round without reading: the next unit begins a new picture
NewPicture ==
  /\ dec.status = "ok" /\ ~dec.firstSlice /\ ~AtEnd(dec)
  /\ dec' = Write(IF dec.started /\ ~dec.picSkipped THEN Finish(dec) ELSE dec)
  /\ UNCHANGED <<cfg, stream>>

\* The flush an IDR picture begins with; layers above the highest are dropped;
\* a failed step ends the program.
ReadNal ==
  /\ dec.status = "ok" /\ dec.firstSlice /\ ~AtEnd(dec)
  /\ LET nal == stream[dec.pos + 1]
         d0  == [dec EXCEPT !.pos = @ + 1]
         d1  == CASE nal.type \in IdrTypes -> Flush([d0 EXCEPT !.newClvs = TRUE])
                  [] nal.type = "CRA" -> [d0 EXCEPT !.newClvs = FALSE]
                  [] OTHER -> d0
         d2  == IF cfg.maxTid = -1 \/ nal.tid <= cfg.maxTid
                THEN DecodeSlice([d1 EXCEPT !.picSkipped = FALSE], nal)
                ELSE [d1 EXCEPT !.picSkipped = TRUE]
         d3  == IF AtEnd(d2) /\ d2.started /\ ~d2.picSkipped THEN Finish(d2) ELSE d2
     IN dec' = IF d2.status = "ok" THEN Write(d3) ELSE d2
  /\ UNCHANGED <<cfg, stream>>

\* behind the loop
FinalFlush ==
  /\ dec.status = "ok" /\ AtEnd(dec) /\ ~dec.finished
  /\ dec' = [Flush(dec) EXCEPT !.finished = TRUE]
  /\ UNCHANGED <<cfg, stream>>

DecNext == NewPicture \/ ReadNal \/ FinalFlush
=============================================================================
