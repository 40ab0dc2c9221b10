---------------------------- MODULE SliceCoding ----------------------------
(***************************************************************************)
(* The CTU loops of a picture's slices: compressSlice chooses, encodeSlice *)
(* writes, decompressSlice reads.  The two coders never exchange the       *)
(* places where a substream ends, where contexts start again or are taken  *)
(* from the row above, or the QP a difference refers to: each works them   *)
(* out by itself, by tests of its own.                                     *)
(*                                                                         *)
(* A context state is the sequence of the CTUs it has learnt from since    *)
(* initCtxModels.  A substream is a sequence of symbols: a CTU with the    *)
(* contexts and the QP difference it was coded with, or the bit that ends  *)
(* it; sizes count symbols.  A CTU is one coding unit and one quantization *)
(* group, its slices share a QP.  Slices are taken one at a time: no stage *)
(* reads what another stage leaves for another slice.                      *)
(***************************************************************************)
EXTENDS Integers, SliceMap

CONSTANTS
  Pictures,      \* [grid, slices, wpp, entryPoints, qps]: a PPS, two flags of its
                 \* SPS, and the QPs the encoder may choose for a CTU
  SliceQp,
  QpBdOffset

MAX_QP == 63
ASSUME PicturesAssumption ==
  \A p \in Pictures : /\ IsGrid(p.grid) /\ CheckSliceMap(p.grid, p.slices)
                      /\ p.slices # << >> /\ p.slices \in Seq(Range(p.slices))
                      /\ \A i \in DOMAIN p.slices : IsSlice(p.grid, p.slices[i])
                      /\ p.wpp \in BOOLEAN /\ p.entryPoints \in BOOLEAN
ASSUME QPAssumption == /\ QpBdOffset \in Nat
                       /\ SliceQp \in -QpBdOffset .. MAX_QP
                       /\ \A p \in Pictures : p.qps \subseteq -QpBdOffset .. MAX_QP

VARIABLES
  pic,
  sliceIdx, ctuIdx,   \* the slice, and the index in it of the CTU, taken next
  phase,     \* "compress", "encode", "decode"; "done" after the last slice
  prevQP,    \* of compressSlice
  cus,       \* the encoder's coding units, by CTU address
  enc, dec,  \* encodeSlice and decompressSlice
  decQp      \* the QPs the decoder arrived at, by CTU address

vars == <<pic, sliceIdx, ctuIdx, phase, prevQP, cus, enc, dec, decQp>>

grid == pic.grid
Slice == pic.slices[sliceIdx]
Addr == Slice[ctuIdx + 1]
LastCtu == ctuIdx = Len(Slice) - 1

StartsTile(a) == IsTileColBd(grid, a) /\ IsTileRowBd(grid, a)
StartsRow(a) == ~StartsTile(a) /\ IsTileColBd(grid, a) /\ pic.wpp

\* getCURestricted of the CTU above, isSameSliceAndTile
AboveAvailable(a) ==
  /\ Y(grid, a) > 0 /\ a - grid.width \in ToSet(Slice)
  /\ TileOf(grid, a - grid.width) = TileOf(grid, a)

\* predictQP at the start of a CTU
PredictQPOnlyPrev(qps, a, prev) == prev
PredictQP(qps, a, prev) ==
  IF IsTileColBd(grid, a) /\ AboveAvailable(a) THEN qps[a - grid.width] ELSE prev

QpAt(a, prev) == IF StartsTile(a) \/ StartsRow(a) THEN SliceQp ELSE prev

\* cu_qp_delta, written and read: the difference wraps around the QP range
QpRange == MAX_QP + 1 + QpBdOffset
HalfRange == (MAX_QP + 1) \div 2 + QpBdOffset \div 2
WrittenDQp(qp, pred) == ((qp - pred + MAX_QP + 1 + QpBdOffset + HalfRange) % QpRange) - HalfRange
ReadQp(pred, dqp) == ((pred + dqp + MAX_QP + 1 + 2 * QpBdOffset) % QpRange) - QpBdOffset
-----------------------------------------------------------------------------
\* What both arithmetic coders have: contexts, those kept for the row below and
\* whether the coder is fresh, in use, or ended.
InitCtxModels(c) == [c EXCEPT !.ctx = << >>, !.coder = "fresh", !.fault = @ \/ c.coder = "used"]

\* the contexts a CTU starts with
SetUp(c, a) ==
  LET restarted == IF ctuIdx # 0 THEN InitCtxModels(c) ELSE c
  IN IF StartsTile(a) THEN restarted
     ELSE IF StartsRow(a) /\ AboveAvailable(a) THEN [restarted EXCEPT !.ctx = c.sync]
     ELSE IF StartsRow(a) THEN restarted ELSE c

\* after the CTU: the contexts have learnt, and are kept at the start of a row
Learnt(c, a) ==
  LET ctx == Append(c.ctx, a)
  IN [c EXCEPT !.ctx = ctx, !.coder = "used", !.fault = @ \/ c.coder = "ended",
               !.sync = IF IsTileColBd(grid, a) /\ pic.wpp THEN ctx ELSE @]
Ended(c) == [c EXCEPT !.coder = "ended"]

\* setNumEntryPoints
NumEntryPoints(s) ==
  Cardinality({i \in 2 .. Len(s) :
    /\ pic.entryPoints
    /\ \/ TileOf(grid, s[i]) # TileOf(grid, s[i - 1])
       \/ pic.wpp /\ Y(grid, s[i]) # Y(grid, s[i - 1])})

\* compressGOP: the substreams it allocates for every slice
NumSubstreamsOfTiles ==
  LET n == Cardinality(grid.rows) * Cardinality(grid.cols) IN Max({n, Len(pic.slices)})
NumSubstreams ==
  LET rows == IF pic.wpp THEN grid.height ELSE Cardinality(grid.rows)
  IN Max({rows * Cardinality(grid.cols), Len(pic.slices)})
-----------------------------------------------------------------------------
EncIdle == [ctx |-> << >>, coder |-> "fresh", sync |-> << >>, fault |-> FALSE,
            streams |-> << << >> >>, sizes |-> << >>, prevQP |-> SliceQp]
DecIdle == [ctx |-> << >>, coder |-> "fresh", sync |-> << >>, fault |-> FALSE,
            streams |-> << << >> >>, sub |-> 1, prevQP |-> SliceQp]

Init ==
  /\ pic \in Pictures /\ sliceIdx = 1 /\ ctuIdx = 0 /\ phase = "compress"
  /\ prevQP = SliceQp
  /\ cus = [a \in 0 .. grid.width * grid.height - 1 |-> [qp |-> SliceQp, residual |-> FALSE]]
  /\ enc = EncIdle /\ dec = DecIdle
  /\ decQp = [a \in DOMAIN cus |-> SliceQp]

\* the next CTU, or the next stage of the slice
Advance(stage) ==
  /\ ctuIdx' = IF LastCtu THEN 0 ELSE ctuIdx + 1
  /\ phase' = IF LastCtu THEN stage ELSE phase

\* compressSlice: with a residual any QP, without one the predicted QP
CompressCtu ==
  /\ phase = "compress"
  /\ LET a    == Addr
         prev == QpAt(a, IF ctuIdx = 0 THEN SliceQp ELSE prevQP)
         pred == PredictQP([b \in DOMAIN cus |-> cus[b].qp], a, prev)
         chosen == {[qp |-> qp, residual |-> TRUE] : qp \in pic.qps}
                     \cup {[qp |-> pred, residual |-> FALSE]}
     IN \E cu \in chosen : cus' = [cus EXCEPT ![a] = cu] /\ prevQP' = cu.qp
  /\ Advance("encode")
  /\ UNCHANGED <<pic, sliceIdx, enc, dec, decQp>>

Symbol(c, a, dqp) == [end |-> FALSE, addr |-> a, ctx |-> c.ctx, dqp |-> dqp]
EndSymbol == [end |-> TRUE, addr |-> 0, ctx |-> << >>, dqp |-> << >>]

\* encodeSlice: the substream ends with the slice, before another tile and,
\* with WPP, before a CTU in the first column of a tile
EndsSubstream ==
  \/ LastCtu
  \/ TileOf(grid, Slice[ctuIdx + 2]) # TileOf(grid, Addr)
  \/ pic.wpp /\ IsTileColBd(grid, Slice[ctuIdx + 2])

\* m_prevQP is set once, before the loop
EncStart == [EncIdle EXCEPT !.sync = enc.sync, !.fault = enc.fault]

EncodeCtu ==
  /\ phase = "encode"
  /\ LET a    == Addr
         cu   == cus[a]
         c    == SetUp(IF ctuIdx = 0 THEN EncStart ELSE enc, a)
         pred == PredictQP([b \in DOMAIN cus |-> cus[b].qp], a, c.prevQP)
         dqp  == IF cu.residual THEN <<WrittenDQp(cu.qp, pred)>> ELSE << >>
         sub  == Len(c.streams)
         coded == [Learnt(c, a) EXCEPT !.streams[sub] = Append(@, Symbol(c, a, dqp)),
                                       !.prevQP = IF cu.residual THEN cu.qp ELSE pred]
         ended == [Ended(coded) EXCEPT !.streams[sub] = Append(@, EndSymbol)]
     IN enc' = IF ~EndsSubstream THEN coded
               ELSE IF LastCtu THEN ended
               ELSE [ended EXCEPT !.streams = Append(@, << >>),
                                  !.sizes = IF pic.entryPoints THEN Append(@, Len(ended.streams[sub])) ELSE @]
  /\ Advance("decode")
  /\ UNCHANGED <<pic, sliceIdx, prevQP, cus, dec, decQp>>

\* the slice header and the substreams behind it: as many sizes as
\* setNumEntryPoints says cut the slice data, and the rest is the last substream
Extracted ==
  LET data == FlattenSeq(enc.streams)
      n    == NumEntryPoints(Slice)
      from[k \in 1 .. n + 1] == IF k = 1 THEN 1 ELSE from[k - 1] + enc.sizes[k - 1]
  IN IF n # Len(enc.sizes) THEN << >>
     ELSE [k \in 1 .. n + 1 |-> SubSeq(data, from[k], IF k > n THEN Len(data) ELSE from[k + 1] - 1)]

DecStart == [DecIdle EXCEPT !.sync = dec.sync, !.fault = dec.fault \/ Extracted = << >>,
                            !.streams = IF Extracted = << >> THEN @ ELSE Extracted]

\* decompressSlice: where a terminating bit must follow
ExpectsEndEveryRow ==
  LastCtu \/ X(grid, Addr) + 1 = TileColEnd(grid, X(grid, Addr))
ExpectsEnd ==
  \/ LastCtu
  \/ /\ X(grid, Addr) + 1 = TileColEnd(grid, X(grid, Addr))
     /\ Y(grid, Addr) + 1 = TileRowEnd(grid, Y(grid, Addr)) \/ pic.wpp

\* A symbol that is not the one expected, contexts other than the encoder's, or
\* a CHECK that fails, is a fault: what the decoder does afterwards is not the
\* model's business.
Fails(d) == [d EXCEPT !.fault = TRUE]
DecodeCtu ==
  /\ phase = "decode"
  /\ LET a    == Addr
         c    == SetUp(IF ctuIdx = 0 THEN DecStart ELSE dec, a)
         prev == QpAt(a, c.prevQP)
         pred == PredictQP(decQp, a, prev)
         read == c.streams[c.sub]
         readable == read # << >> /\ ~Head(read).end /\ Head(read).addr = a /\ Head(read).ctx = c.ctx
         dqp  == Head(read).dqp
         qp   == IF dqp = << >> THEN pred ELSE ReadQp(pred, dqp[1])
         decoded == [Learnt(c, a) EXCEPT !.streams[c.sub] = Tail(@), !.prevQP = qp]
         rest == Tail(read)
         moved == [Ended(decoded) EXCEPT !.streams[c.sub] = Tail(@),
                                         !.sub = IF pic.entryPoints /\ ~LastCtu THEN @ + 1 ELSE @]
         \* remaining_bytes, for which a substream that goes on fails
         finished == pic.entryPoints \/ LastCtu => Len(rest) = 1
     IN IF c.fault \/ ~readable THEN dec' = Fails(c) /\ UNCHANGED decQp
        ELSE /\ decQp' = [decQp EXCEPT ![a] = qp]
             /\ dec' = IF ~ExpectsEnd THEN decoded
                       ELSE IF rest = << >> THEN Fails(decoded)
                       ELSE IF ~Head(rest).end \/ ~finished THEN Fails(decoded)
                       ELSE moved
  /\ Advance(IF sliceIdx = Len(pic.slices) THEN "done" ELSE "compress")
  /\ sliceIdx' = IF LastCtu /\ sliceIdx < Len(pic.slices) THEN sliceIdx + 1 ELSE sliceIdx
  /\ UNCHANGED <<pic, prevQP, cus, enc>>

Next == CompressCtu \/ EncodeCtu \/ DecodeCtu
Spec == Init /\ [][Next]_vars
-----------------------------------------------------------------------------
\* The decoder reads every CTU of every slice with the contexts it was written
\* with, finds each substream's end where its own test expects it and nothing
\* after it, and neither coder starts again with bits unfinished or goes on
\* after its end: the tests of encodeSlice (on the next CTU), of decompressSlice
\* (on the position in the tile), of the context set-up and of setNumEntryPoints
\* cut the slice in the same places.
SubstreamsAgree == ~enc.fault /\ ~dec.fault

\* encodeSlice never uses a substream compressGOP has not allocated, whatever
\* slices and tiles a picture has.
SubstreamsFit == Len(enc.streams) <= NumSubstreams

\* Every CTU decoded has the QP the encoder quantized it with.
QpArrives ==
  LET decoded == (UNION {ToSet(pic.slices[i]) : i \in 1 .. sliceIdx - 1})
                   \cup (IF phase = "decode" THEN ToSet(SubSeq(Slice, 1, ctuIdx)) ELSE {})
                   \cup (IF phase = "done" THEN ToSet(Slice) ELSE {})
  IN \A a \in decoded : decQp[a] = cus[a].qp
=============================================================================
