----------------------------- MODULE ByteStream -----------------------------
(* The byte stream between encoder and decoder: how NAL units are written to *)
(* a file (EncGOP, NALwrite, AnnexBwrite) and how the decoder's main loop    *)
(* takes them out again (DecApp, DecLib::isNewPicture, AnnexBread, NALread). *)
(*                                                                           *)
(* Nothing in the file says how long a unit is or where a picture ends.  A   *)
(* unit ends before the next start code, so its own bytes must not look like *)
(* one and are escaped; sizes inside a slice count the escaped bytes, while  *)
(* the decoder cuts the unescaped ones.  A picture ends before a unit that    *)
(* begins another, so the main loop reads ahead and puts the file back.       *)
(*                                                                           *)
(* The file is written first and read afterwards.  A byte stands for the     *)
(* bytes the code does not tell apart: those above 3 differ only in their    *)
(* top bit, which in the first byte of a slice is                            *)
(* picture_header_in_slice_header_flag.  One layer, no end-of-sequence unit: *)
(* the encoder writes none.                                                   *)
EXTENDS Integers, Sequences, FiniteSets, SequencesExt

CONSTANTS Payloads,    \* what units other than slices hold
          Heads,       \* what a slice header holds, aligned to a byte
          Substreams,  \* what a substream of slice data holds
          Types,       \* the types of unit that occur
          MaxUnits,    \* bound on the units of a file
          MaxRich      \* bound on the slices of a file that are not plain

Byte == 0 .. 255
EndsNonZero(s) == s # <<>> /\ Last(s) # 0

\* rbsp_trailing_bits, byte_alignment and the alignment of each substream all
\* write a one, so that nothing the encoder puts together ends in a zero byte.
ASSUME ContentAssumption ==
  \A s \in Payloads \cup Heads \cup Substreams : s \in Seq(Byte) /\ EndsNonZero(s)
ASSUME BoundAssumption == MaxUnits \in Nat /\ MaxRich \in Nat

SliceTypes     == (0 .. 3) \cup (7 .. 10)
ParameterSets  == 13 .. 16             \* DCI, VPS, SPS, PPS
APS            == 17                   \* PREFIX_APS
PH             == 19
AUD            == 20
PrefixSEI      == 23
SuffixSEI      == 24
LongCodeTypes  == ParameterSets \cup {APS, 18}
PictureStarts  == ParameterSets \cup {PH, AUD}
FollowsWithoutSEI == {18, 21, 22, 25}
PictureFollows == {18, 21, 22, SuffixSEI, 25}   \* SUFFIX_APS, EOS, EOB, FD

\* Whatever compressGOP writes: it has no suffix APS and ends no sequence.
WrittenTypes == SliceTypes \cup ParameterSets \cup {APS, PH, AUD, PrefixSEI, SuffixSEI}
ASSUME TypesAssumption == Types \subseteq WrittenTypes

-----------------------------------------------------------------------------
(* A unit as the encoder has it: first of its access unit or not; tid the     *)
(* layer of that; head the slice header or, in other units, everything; subs  *)
(* the substreams; zeroWords the cabac_zero_words behind them.               *)
IsSlice(u) == u.type \in SliceTypes
WithPictureHeader(u) == IsSlice(u) /\ u.head[1] >= 128
TemporalId(u) == IF u.type \in ParameterSets THEN 0 ELSE u.tid
NalHeader(u) == <<0, 8 * u.type + TemporalId(u) + 1>>
Rbsp(u) == u.head \o FlattenSeq(u.subs)

\* writeNaluContent: an escape in front of a byte that would complete a start
\* code, or be taken for an escape, behind two zeros; one more behind a last
\* zero.  zeros is zeroCount after a byte: an escape starts it afresh.
Escaped(rbsp) ==
  LET zeros[i \in 0 .. Len(rbsp)] ==
        IF i = 0 \/ rbsp[i] # 0 THEN 0 ELSE IF zeros[i - 1] = 1 THEN 2 ELSE 1
      put(i) == IF zeros[i - 1] = 2 /\ rbsp[i] <= 3 THEN <<3, rbsp[i]>> ELSE <<rbsp[i]>>
  IN  FlattenSeq([i \in DOMAIN rbsp |-> put(i)])
        \o (IF zeros[Len(rbsp)] > 0 THEN <<3>> ELSE <<>>)

\* The padding is appended to the unit that is already escaped.
NalData(u) ==
  NalHeader(u) \o Escaped(Rbsp(u)) \o FlattenSeq([k \in 1 .. u.zeroWords |-> <<0, 0, 3>>])

\* countStartCodeEmulations of one substream, which is not yet behind the
\* slice header nor the substream before it.
CountEmulations(s) ==
  LET from[i \in 1 .. Len(s)] ==
        IF i + 2 > Len(s) THEN 0
        ELSE IF s[i] # 0 \/ s[i + 1] # 0 THEN from[i + 1]
        ELSE from[i + 2] + (IF s[i + 2] <= 3 THEN 1 ELSE 0)
  IN  from[1]

\* The sizes written in the slice header: of all substreams but the last.
EntryPoints(u) ==
  [k \in 1 .. Len(u.subs) - 1 |-> Len(u.subs[k]) + CountEmulations(u.subs[k])]

\* writeAnnexBAccessUnit
StartCode(u) ==
  IF u.first \/ u.type \in LongCodeTypes THEN <<0, 0, 0, 1>> ELSE <<0, 0, 1>>

-----------------------------------------------------------------------------
VARIABLES written,    \* the units of the file
          file,       \* its bytes
          phase,      \* "write", "read", "done"; "failed": a CHECK threw
          target,     \* m_iMaxTemporalLayer, -1 for all
          reader,     \* what the file and the InputByteStream are at
          firstSlice, \* m_bFirstSliceInPicture
          firstInSeq, \* m_bFirstSliceInSequence
          skipped,    \* bPicSkipped
          count,      \* the units the main loop has taken
          taken,      \* the last of them
          picture,    \* the units decoded since the first slice of the picture
          finished    \* those of the pictures finished

writer  == <<written, file>>
decoder == <<firstSlice, firstInSeq, skipped, picture, finished>>
vars == <<written, file, phase, target, reader, decoder, count, taken>>

Init ==
  /\ written = <<>> /\ file = <<>> /\ phase = "write"
  /\ target = -1
  /\ reader = [at |-> 0, held |-> 0, eof |-> FALSE]
  /\ firstSlice = TRUE /\ firstInSeq = TRUE /\ skipped = FALSE
  /\ count = 0 /\ taken = [nal |-> <<>>, subs |-> <<>>]
  /\ picture = {} /\ finished = <<>>

-----------------------------------------------------------------------------
(* Writing.  An access unit is a delimiter, parameter sets, prefix SEI,      *)
(* prefix APS, then a picture header and slices or one slice that holds its  *)
(* picture header, and suffix SEI.                                           *)
Rank(t) == CASE t = AUD -> 1 [] t \in ParameterSets -> 2 [] t = PrefixSEI -> 3
             [] t = APS -> 4 [] t = PH -> 5 [] t \in SliceTypes -> 6 [] OTHER -> 7

Begins(u) == u.type # SuffixSEI /\ (IsSlice(u) => WithPictureHeader(u))

Follows(prev, u) ==
  /\ u.tid = prev.tid
  /\ \/ Rank(prev.type) < Rank(u.type)
     \/ prev.type = u.type /\ u.type \notin {AUD, PH}
  /\ IsSlice(u) => (WithPictureHeader(u) <=> prev.type # PH /\ ~IsSlice(prev))
  /\ IsSlice(u) /\ IsSlice(prev) => ~WithPictureHeader(prev)
  /\ u.type = SuffixSEI => Rank(prev.type) >= 6

Complete == written # <<>> /\ Rank(Last(written).type) >= 6

\* A plain slice has one byte of header and one of data.
Plain(u) == Len(Rbsp(u)) = 2 /\ u.zeroWords = 0
RichSlices == Cardinality({i \in DOMAIN written : IsSlice(written[i]) /\ ~Plain(written[i])})

Unit(t, f, d, h, ss, z) == [type |-> t, first |-> f, tid |-> d, head |-> h,
                            subs |-> ss, zeroWords |-> z]

Placed(u) ==
  IF u.first THEN Begins(u) /\ (Complete \/ (written = <<>> /\ u.tid = 0))
             ELSE written # <<>> /\ Follows(Last(written), u)

Write(u) ==
  /\ written' = Append(written, u)
  /\ file' = file \o StartCode(u) \o NalData(u)
  /\ UNCHANGED <<phase, target, reader, decoder, count, taken>>

WriteSlice ==
  /\ phase = "write" /\ Len(written) < MaxUnits
  /\ \E t \in Types \cap SliceTypes, f \in BOOLEAN, d \in {0, 1}, h \in Heads :
       /\ Placed(Unit(t, f, d, h, <<>>, 0))
       /\ \E ss \in SeqOf(Substreams, 2) \ {<<>>}, z \in {0, 1} :
            LET u == Unit(t, f, d, h, ss, z) IN
            (Plain(u) \/ RichSlices < MaxRich) /\ Write(u)

\* All but the suffix SEI need a slice after them, for which there is room.
WriteOther ==
  /\ phase = "write"
  /\ \E t \in Types \ SliceTypes, f \in BOOLEAN, d \in {0, 1}, p \in Payloads :
       /\ Len(written) + (IF t = SuffixSEI THEN 0 ELSE 1) < MaxUnits
       /\ Placed(Unit(t, f, d, p, <<>>, 0))
       /\ Write(Unit(t, f, d, p, <<>>, 0))

CloseFile ==
  /\ phase = "write" /\ Complete
  /\ phase' = "read"
  /\ target' \in {-1, 0}
  /\ UNCHANGED <<writer, reader, decoder, count, taken>>

-----------------------------------------------------------------------------
(* Reading.  A position is the number of bytes before it.  The stream takes   *)
(* bytes from the file before it hands them out: at counts those taken, held  *)
(* those of them not yet handed out.                                          *)
CodeAt(p, code) ==
  p + Len(code) <= Len(file) /\ \A i \in DOMAIN code : file[p + i] = code[i]
AtStartCode(p)  == CodeAt(p, <<0, 0, 1>>) \/ CodeAt(p, <<0, 0, 0, 1>>)

First(p, Stop(_)) == CHOOSE q \in p .. Len(file) :
                       /\ q = Len(file) \/ Stop(q)
                       /\ \A r \in p .. q - 1 : ~Stop(r)

SkipZeros(p) == First(p, LAMBDA q : AtStartCode(q) \/ file[q + 1] # 0)
UnitEnd(p)   == First(p, LAMBDA q : \E b \in 0 .. 2 : CodeAt(q, <<0, 0, b>>))

Ended(u) == [unit |-> u, at |-> Len(file), held |-> 0, eof |-> TRUE]

\* A byte that is not zero is not skipped but throws, which ends the call only.
Threw(u, p) ==
  LET at == IF p + 4 <= Len(file) THEN p + 4 ELSE Len(file) IN
  [unit |-> u, at |-> at, held |-> at - p - 1, eof |-> p + 4 > Len(file)]

\* Before a start code three bytes are held when it is short and four when it
\* is long.
Stopped(u, p) ==
  LET held == IF CodeAt(p, <<0, 0, 1>>) THEN 3 ELSE 4 IN
  [unit |-> u, at |-> p + held, held |-> held, eof |-> FALSE]

StoppedAt(u, p) == IF p = Len(file) THEN Ended(u)
                   ELSE IF AtStartCode(p) THEN Stopped(u, p) ELSE Threw(u, p)

\* byteStreamNALUnit
NextUnit(p) ==
  LET code  == SkipZeros(p)
      begin == code + (IF CodeAt(code, <<0, 0, 1>>) THEN 3 ELSE 4)
      end   == UnitEnd(begin)
  IN  IF code = Len(file) \/ ~AtStartCode(code) THEN StoppedAt(<<>>, code)
      ELSE StoppedAt(SubSeq(file, begin + 1, end), SkipZeros(end))

Handed(r) == r.at - r.held

\* convertPayloadToRBSP: the escapes of a unit, by place, and what its CHECKs
\* ask: no start code inside, and a byte that needs it behind each escape.
AfterTwoZeros(u, i) == i > 2 /\ u[i - 1] = 0 /\ u[i - 2] = 0
Escapes(u) == {i \in DOMAIN u : AfterTwoZeros(u, i) /\ u[i] = 3}
Convertible(u) ==
  /\ \A i \in DOMAIN u : AfterTwoZeros(u, i) => u[i] > 2
  /\ \A i \in Escapes(u) : i < Len(u) => u[i + 1] <= 3
  /\ Last(u) # 0

Converted(u) ==
  LET kept == FlattenSeq([i \in DOMAIN u |-> IF i \in Escapes(u) THEN <<>> ELSE <<u[i]>>])
      size == CHOOSE n \in 0 .. Len(kept) :
                (n > 0 => kept[n] # 0) /\ \A i \in n + 1 .. Len(kept) : kept[i] = 0
  IN  SubSeq(kept, 1, size)

TypeOf(nal) == nal[2] \div 8
TidOf(nal)  == (nal[2] % 8) - 1

-----------------------------------------------------------------------------
(* Entry points (parseSliceHeader, DecSlice): the header ends after n bytes    *)
(* of the unit as converted, and the offsets it carries count the bytes of    *)
(* the unit as it was, u.                                                     *)
EndOfHeaderAsConverted(u, n) == n

EndOfHeader(u, n) ==
  n + Cardinality({i \in Escapes(u) : i - 1 < n + Cardinality(Escapes(u) \cap 1 .. i - 1)})

EscapesWithin(u, from, to) ==
  Cardinality({i \in Escapes(u) : from <= i - 1 /\ i - 1 < to})

SubstreamSizes(u, n, offsets) ==
  LET border[k \in 0 .. Len(offsets)] ==
        IF k = 0 THEN EndOfHeader(u, n) ELSE border[k - 1] + offsets[k]
  IN  [k \in DOMAIN offsets |-> offsets[k] - EscapesWithin(u, border[k - 1], border[k])]

\* extractSubstream: zeros where the unit has no more; the last takes the rest.
Extracted(nal, n, sizes) ==
  LET begin[k \in 1 .. Len(sizes) + 1] ==
        IF k = 1 THEN n ELSE begin[k - 1] + sizes[k - 1]
      byte(i) == IF i <= Len(nal) THEN nal[i] ELSE 0
  IN  [k \in 1 .. Len(sizes) + 1 |->
         IF k > Len(sizes) THEN SubSeq(nal, begin[k] + 1, Len(nal))
         ELSE [j \in 1 .. sizes[k] |-> byte(begin[k] + j)]]

\* The slice header says itself where it ends and holds the offsets: the model
\* takes both from the header that was written.
Substreamed(raw, u) ==
  LET n == 2 + Len(u.head) IN
  Extracted(Converted(raw), n, SubstreamSizes(raw, n, EntryPoints(u)))

-----------------------------------------------------------------------------
(* The main loop.  Looking ahead stops at the first unit that tells whether   *)
(* another picture begins, or with the file; "fault": a CHECK threw.           *)
NewPictureAt(from) ==
  LET look[p \in 0 .. Len(file)] ==
        LET r == NextUnit(p)
            nal == Converted(r.unit)
            t == TypeOf(nal)
            on == IF r.eof THEN "no" ELSE look[Handed(r)]
        IN  IF r.unit = <<>> THEN on
            ELSE IF ~Convertible(r.unit) THEN "fault"
            ELSE IF t \in PictureStarts THEN "yes"
            ELSE IF t \in SliceTypes THEN (IF nal[3] >= 128 THEN "yes" ELSE "no")
            ELSE IF t \in PictureFollows THEN "no"
            ELSE on
  IN  look[from]

IsNewPicture == IF firstSlice THEN "no" ELSE NewPictureAt(Handed(reader))

\* Afterwards the file is put back three bytes before where it was and the
\* bytes held are dropped.
PutBackWhereRead == IF firstSlice THEN Handed(reader) ELSE reader.at

PutBack == IF firstSlice THEN Handed(reader) ELSE reader.at - 3

\* finishPicture, for the picture that is then in hand, with the units decoded
\* since its first slice
Finish(units) ==
  /\ finished' = Append(finished, units)
  /\ picture' = {}
  /\ firstSlice' = TRUE

\* isNewPicture says yes: no unit is taken in this round of the loop.
NewPicture ==
  /\ reader' = [at |-> PutBack, held |-> 0, eof |-> FALSE]
  /\ IF ~firstInSeq /\ ~skipped
     THEN Finish(picture)
     ELSE firstSlice' = (firstSlice \/ firstInSeq) /\ UNCHANGED <<picture, finished>>
  /\ UNCHANGED <<writer, phase, target, firstInSeq, skipped, count, taken>>

InTarget(tid) == target < 0 \/ tid <= target

SkippedForGood(slice, left) == left \/ skipped

SkippedAfter(slice, left) == left \/ (skipped /\ ~slice)

\* What one round of the loop does to the decoder: a unit it decodes, perhaps a
\* slice, or leaves out, and the picture finished if the file ended.
Round(slice, left, eof) ==
  LET decoded == slice /\ ~left
      units   == IF decoded \/ (~left /\ ~firstSlice) THEN picture \cup {count'} ELSE picture
  IN
  /\ firstInSeq' = (firstInSeq /\ ~decoded)
  /\ skipped' = SkippedAfter(slice, left)
  /\ IF eof /\ ~firstInSeq' /\ ~skipped'
     THEN Finish(units)
     ELSE /\ picture' = units
          /\ firstSlice' = ((firstSlice /\ ~decoded) \/ (eof /\ firstInSeq'))
          /\ UNCHANGED finished

Take(u, nal) ==
  /\ count' = count + 1
  /\ taken' = [nal  |-> nal,
               subs |-> IF TypeOf(nal) \in SliceTypes /\ count' <= Len(written)
                        THEN Substreamed(u, written[count']) ELSE <<>>]

TakeUnit(fault) ==
  /\ \E r \in {NextUnit(PutBack)} : \E nal \in {Converted(r.unit)} :
     /\ reader' = [at |-> r.at, held |-> r.held, eof |-> r.eof]
     /\ phase' = IF fault \/ (r.unit # <<>> /\ ~Convertible(r.unit)) THEN "failed"
                 ELSE IF r.eof THEN "done" ELSE "read"
     /\ IF phase' = "failed" THEN UNCHANGED <<decoder, count, taken>>
        ELSE IF r.unit = <<>>
        THEN UNCHANGED <<count, taken>> /\ Round(FALSE, FALSE, r.eof)
        ELSE Take(r.unit, nal) /\ Round(TypeOf(nal) \in SliceTypes, ~InTarget(TidOf(nal)), r.eof)
  /\ UNCHANGED <<writer, target>>

Read ==
  /\ phase = "read" /\ ~reader.eof
  /\ \E new \in {IsNewPicture} :
     \/ new = "yes" /\ NewPicture
     \/ new # "yes" /\ TakeUnit(new = "fault")

Done == phase = "done" /\ UNCHANGED vars

Next == WriteSlice \/ WriteOther \/ CloseFile \/ Read \/ Done

Spec == Init /\ [][Next]_vars

-----------------------------------------------------------------------------
(* Every unit reaches the decoder once, in its order and as it was before it  *)
(* was escaped and padded, wherever the look-ahead went; no CHECK fires.      *)
UnitsArrive ==
  /\ phase # "failed"
  /\ count > 0 => /\ count <= Len(written)
                  /\ taken.nal = NalHeader(written[count]) \o Rbsp(written[count])
  /\ phase = "done" => count = Len(written)

(* A slice is cut into the substreams it was put together from, although the  *)
(* sizes it carries count escapes that are gone when it is cut.              *)
SubstreamsArrive ==
  count > 0 /\ IsSlice(written[count]) => taken.subs = written[count].subs

(* The decoder finishes a picture after the last of its slices and the SEI    *)
(* behind them, before anything of the next picture, each picture it decodes  *)
(* once and none it leaves out, down to the last one, which nothing follows.  *)
UnitsOfPicture(a) ==
  {i \in DOMAIN written : /\ Rank(written[i].type) >= 6 /\ InTarget(written[i].tid)
                          /\ Cardinality({j \in 1 .. i : written[j].first}) = a}
\* those of all access units, in order
Pictures ==
  LET upTo[a \in 0 .. Len(written)] ==
        IF a = 0 THEN <<>>
        ELSE IF UnitsOfPicture(a) = {} THEN upTo[a - 1]
        ELSE Append(upTo[a - 1], UnitsOfPicture(a))
  IN  upTo[Len(written)]

PicturesDelimited ==
  /\ IsPrefix(finished, Pictures)
  /\ picture # {} => IsPrefix(Append(finished, picture),
                              [k \in DOMAIN Pictures |-> Pictures[k] \cap 1 .. count])
  /\ phase = "done" => finished = Pictures

(* Every round of the main loop takes a unit or finishes a picture: looking   *)
(* ahead and putting the file back never has it go round without progress.   *)
LoopAdvances ==
  [][phase = "read" => count' > count \/ Len(finished') > Len(finished)]_vars
=============================================================================
