------------------------------- MODULE Cabac -------------------------------
(***************************************************************************)
(* One substream of slice data: the encoder codes bins and values with any *)
(* sequence of the calls of its interface, ends the substream, and the     *)
(* decoder reads it back with the same sequence of calls.  The syntax      *)
(* decides which call comes next on both sides, so a symbol is a call, of  *)
(* which the decoder knows the kind and the arguments, and its value.      *)
(*                                                                         *)
(* kind    arg                       value                                 *)
(* "ctx"   <<ctxId>>                 encodeBin: 0 or 1                     *)
(* "ep"    << >>                     encodeBinEP: 0 or 1                   *)
(* "eps"   <<numBins>>               encodeBinsEP: the bins as a number    *)
(* "rem"   <<rice, cutoff, maxLog2>> encodeRemAbsEP: the value             *)
(* "trm"   << >>                     encodeBinTrm: 0                       *)
(*                                                                         *)
(* encodeBinTrm(1) ends the substream.  align(), restart() and resetBits() *)
(* are not called on the encoder that writes slice data.                   *)
(***************************************************************************)
EXTENDS BinEncoder

Dec == INSTANCE BinDecoder

CONSTANTS
  Alphabets,     \* sets of calls with their values: a substream keeps to one
  Inistate,      \* a context's initial state, 1 .. 127, by ctxId
  WindowSize,    \* and log2WindowSize, by ctxId
  MaxSymbols     \* bound: symbols in a substream, by alphabet

\* "rem" has the cutoff of levels, which have 15 bits or, with extended
\* precision, the bit depth and 6, or the cutoff of vector differences
IsSymbol(s) ==
  \/ s.kind = "ctx" /\ s.arg[1] \in DOMAIN Inistate /\ s.val \in Bit
  \/ s.kind = "ep"  /\ s.val \in Bit
  \/ s.kind = "eps" /\ s.arg[1] \in 1 .. 30 /\ s.val \in 0 .. 2^s.arg[1] - 1
  \/ s.kind = "rem" /\ s.arg[1] \in 0 .. 3 /\ s.val \in 0 .. 2^s.arg[3]
                    /\ <<s.arg[2], s.arg[3]>> \in {<<5, m>> : m \in 15 .. 22} \cup {<<0, 17>>}
  \/ s.kind = "trm" /\ s.val = 0

ASSUME SymbolsAssumption == \A a \in Alphabets : \A s \in a : IsSymbol(s)
\* setLog2WindowSize rejects a second rate above 9
ASSUME ModelsAssumption ==
  /\ Inistate \in Seq(1 .. 127) /\ WindowSize \in Seq({w \in 0 .. 15 : InitModel(1, w).rate1 <= 9})
  /\ DOMAIN WindowSize = DOMAIN Inistate
ASSUME MaxSymbolsAssumption == MaxSymbols \in [Alphabets -> Nat]

VARIABLES
  symbols,   \* the alphabet of this substream
  phase,     \* "encode", then "decode", then "done"
  enc, encModels,   \* the encoder's registers and contexts
  coded,     \* the symbols coded
  dec, decModels,   \* the decoder's
  got        \* the values decoded

vars == <<symbols, phase, enc, encModels, coded, dec, decModels, got>>

\* Ctx::init
InitModels == [c \in DOMAIN Inistate |-> InitModel(Inistate[c], WindowSize[c])]

Init ==
  /\ symbols \in Alphabets /\ phase = "encode"
  /\ enc = EncoderStart /\ encModels = InitModels /\ coded = << >>
  /\ dec = << >> /\ decModels = InitModels /\ got = << >>

Encoded(s) ==
  CASE s.kind = "ctx" -> EncodeBin(enc, encModels[s.arg[1]], s.val)
    [] s.kind = "ep"  -> EncodeBinEP(enc, s.val)
    [] s.kind = "eps" -> EncodeBinsEP(enc, s.val, s.arg[1])
    [] s.kind = "rem" -> EncodeRemAbsEP(enc, s.val, s.arg[1], s.arg[2], s.arg[3])
    [] s.kind = "trm" -> EncodeBinTrm(enc, 0)

\* rcProbModel.update( bin )
Learn(models, kind, arg, bin) ==
  IF kind = "ctx" THEN [models EXCEPT ![arg[1]] = Update(@, bin)] ELSE models

Encode ==
  /\ phase = "encode" /\ Len(coded) < MaxSymbols[symbols]
  /\ \E s \in symbols :
       /\ enc' = Encoded(s)
       /\ encModels' = Learn(encModels, s.kind, s.arg, s.val)
       /\ coded' = Append(coded, s)
  /\ UNCHANGED <<symbols, phase, dec, decModels, got>>

\* end_of_slice and writeByteAlignment; the decoder starts on the bytes
Close ==
  /\ phase = "encode" /\ phase' = "decode"
  /\ enc' = EndOfSlice(enc)
  /\ dec' = Dec!DecoderStart(enc'.bytes)
  /\ UNCHANGED <<symbols, encModels, coded, decModels, got>>

Decoded(kind, arg) ==
  CASE kind = "ctx" -> Dec!DecodeBin(dec, decModels[arg[1]])
    [] kind = "ep"  -> Dec!DecodeBinEP(dec)
    [] kind = "eps" -> Dec!DecodeBinsEP(dec, arg[1])
    [] kind = "rem" -> Dec!DecodeRemAbsEP(dec, arg[1], arg[2], arg[3])
    [] kind = "trm" -> Dec!DecodeBinTrm(dec)

Decode ==
  /\ phase = "decode" /\ Len(got) < Len(coded)
  /\ LET s == coded[Len(got) + 1]
     IN /\ dec' = Decoded(s.kind, s.arg)
        /\ decModels' = Learn(decModels, s.kind, s.arg, dec'.result)
        /\ got' = Append(got, dec'.result)
  /\ UNCHANGED <<symbols, phase, enc, encModels, coded>>

\* terminating_bit()
Terminate ==
  /\ phase = "decode" /\ Len(got) = Len(coded)
  /\ phase' = "done" /\ dec' = Dec!DecodeBinTrm(dec)
  /\ UNCHANGED <<symbols, enc, encModels, coded, decModels, got>>

Next == Encode \/ Close \/ Decode \/ Terminate
Spec == Init /\ [][Next]_vars
-----------------------------------------------------------------------------
\* The registers stay where the arithmetic of BinEncoder.cpp and
\* BinDecoder.cpp needs them: a range of nine bits between calls, room for the
\* next eight bits in m_Low, m_Value inside the range. The estimates of every
\* context, which update() moves without clipping, stay within 15 bits on both
\* sides: state() is their sum without its low bits and must have eight.
EstimatesFit(models) ==
  \A c \in DOMAIN Inistate : \A x \in {models[c].s0, models[c].s1} : x \in Nat /\ x <= 32767

TypeOK ==
  /\ phase \in {"encode", "decode", "done"}
  /\ enc.range \in 256 .. 510 /\ enc.bitsLeft \in 12 .. 23
  /\ enc.low \in Nat /\ enc.bufferedByte \in 0 .. 255 /\ enc.numBufferedBytes \in Nat
  /\ Len(got) <= Len(coded) /\ coded \in Seq(symbols)
  /\ phase = "decode" => /\ dec.range \in 256 .. 510 /\ dec.bitsNeeded \in -8 .. -1
                         /\ dec.value \in 0 .. dec.range * 128 - 1
  /\ EstimatesFit(encModels) /\ EstimatesFit(decModels)

\* A carry out of m_Low always finds a held byte below 0xff to go into, whatever
\* run of 0xff follows that byte, and the output stream accepts every write:
\* writeOut() and finish() rely on it without a check of their own.
CarryHasAByte ==
  /\ phase = "encode" /\ enc.low >= 2^(32 - enc.bitsLeft) =>
       enc.numBufferedBytes > 0 /\ enc.bufferedByte < 255
  /\ enc.fits

\* The decoder gets back, call by call, the values that were coded: the
\* contexts, the equiprobable and the escape codes of both sides agree.
DecodedAsCoded == \A i \in DOMAIN got : got[i] = coded[i].val

\* The terminating bin ends the substream and nothing else does: the decoder
\* reads it as set, finds the stop bit where finish() checks for it, has used
\* every byte (remaining_bytes) and has the encoder's contexts. On the way
\* readByte() never meets the end of the bytes.
EndsExactly ==
  /\ phase # "encode" => ~dec.exceeded
  /\ phase = "done" => /\ dec.result = 1 /\ Dec!StopPattern(dec)
                       /\ dec.pos = Len(dec.data) /\ decModels = encModels
=============================================================================
