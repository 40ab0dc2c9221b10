---------------------------- MODULE BinDecoder ----------------------------
(***************************************************************************)
(* The registers of the arithmetic decoder (BinDecoderBase) over the bytes *)
(* of one substream.  m_Value is compared with the range scaled by 2^7;    *)
(* m_bitsNeeded counts up to 0, where the next byte is read.  Each call    *)
(* returns the registers with the decoded value in "result".               *)
(*                                                                         *)
(* InputBitstream::readByte throws at the end of the bytes: "exceeded".    *)
(* The byte read there is 0 in the model.                                  *)
(***************************************************************************)
EXTENDS BinProb, Sequences

\* value + readByte() << shift
ReadByte(d, shift) ==
  IF d.pos < Len(d.data)
  THEN [d EXCEPT !.value = @ + d.data[d.pos + 1] * 2^shift, !.pos = @ + 1]
  ELSE [d EXCEPT !.exceeded = TRUE]

\* start()
DecoderStart(data) ==
  ReadByte(ReadByte([value |-> 0, range |-> 510, bitsNeeded |-> -8, pos |-> 0,
                     data |-> data, exceeded |-> FALSE, result |-> 0], 8), 0)

\* the value is shifted by n bits: refill when none of the last byte is left
Shift(d, shifted, n) ==
  LET s == [d EXCEPT !.value = shifted, !.bitsNeeded = @ + n]
  IN IF s.bitsNeeded >= 0 THEN [ReadByte(s, s.bitsNeeded) EXCEPT !.bitsNeeded = @ - 8] ELSE s

\* the bins found by n comparisons with unit * 2^(n-1), ..., unit
Compared(value, unit, n) ==
  IF value \div unit < 2^n THEN value \div unit ELSE 2^n - 1
TakeBins(d, n) ==
  LET bins == Compared(d.value, d.range * 128, n)
  IN [d EXCEPT !.value = @ - bins * d.range * 128, !.result = @ * 2^n + bins]

DecodeBin(d, m) ==
  LET lps == GetLPS(m, d.range)
      mps == d.range - lps
  IN IF d.value < mps * 128
     THEN LET r == [d EXCEPT !.range = mps, !.result = Mps(m)]
          IN IF mps >= 256 THEN r
             ELSE [Shift(r, d.value * 2^RenormBitsRange(mps), RenormBitsRange(mps))
                     EXCEPT !.range = mps * 2^RenormBitsRange(mps)]
     ELSE LET n == RenormBitsLPS(lps)
          IN [Shift([d EXCEPT !.result = 1 - Mps(m)], (d.value - mps * 128) * 2^n, n)
                EXCEPT !.range = lps * 2^n]

DecodeBinEP(d) == TakeBins([Shift(d, d.value * 2, 1) EXCEPT !.result = 0], 1)

\* eight bins: the byte read lands where m_bitsNeeded says, and it stays
WholeByte(d) == TakeBins(ReadByte([d EXCEPT !.value = @ * 256], 8 + d.bitsNeeded), 8)

\* with a range of 256 the bins are the bits of m_Value themselves
TakeAligned(d, n) ==
  LET bins == (d.value \div 2^(15 - n)) % 2^n
  IN Shift([d EXCEPT !.result = @ * 2^n + bins], (d.value * 2^n) % 2^15, n)

\* decodeBinsEP: whole bytes while more than eight remain, then the rest
DecodeBinsEP(d, n) ==
  LET k       == IF n = 0 THEN 0 ELSE (n - 1) \div 8
      Eight(s) == IF d.range = 256 THEN TakeAligned(s, 8) ELSE WholeByte(s)
      d0 == [d EXCEPT !.result = 0]
      d1 == IF k >= 1 THEN Eight(d0) ELSE d0
      d2 == IF k >= 2 THEN Eight(d1) ELSE d1
      d3 == IF k >= 3 THEN Eight(d2) ELSE d2
      rest == n - 8 * k
  IN IF rest = 0 THEN d3
     ELSE IF d.range = 256 THEN TakeAligned(d3, rest)
     ELSE TakeBins(Shift(d3, d3.value * 2^rest, rest), rest)

\* the prefix is read bin by bin, up to a zero or to its greatest length
AfterPrefix(d, maxPrefix) ==
  LET after[n \in 0 .. maxPrefix] ==
        IF n = 0 THEN [d EXCEPT !.result = 1] ELSE DecodeBinEP(after[n - 1])
      n == CHOOSE i \in 1 .. maxPrefix :
             /\ i = maxPrefix \/ after[i].result = 0
             /\ \A j \in 1 .. i - 1 : after[j].result = 1
  IN [regs |-> after[n], prefix |-> n - (1 - after[n].result)]

DecodeRemAbsEP(d, rice, cutoff, maxLog2) ==
  LET read   == AfterPrefix(d, 32 - maxLog2)
      prefix == read.prefix
      offset == IF prefix < cutoff THEN prefix * 2^rice
                ELSE (2^(prefix - cutoff) + cutoff - 1) * 2^rice
      length == IF prefix < cutoff THEN rice
                ELSE IF prefix = 32 - maxLog2 THEN maxLog2 ELSE rice + prefix - cutoff
      rest   == DecodeBinsEP(read.regs, length)
  IN [rest EXCEPT !.result = @ + offset]

DecodeBinTrm(d) ==
  LET rest == d.range - 2
      r    == [d EXCEPT !.range = rest]
  IN IF d.value >= rest * 128 THEN [r EXCEPT !.result = 1]
     ELSE IF rest >= 256 THEN [r EXCEPT !.result = 0]
     ELSE [Shift(r, d.value * 2, 1) EXCEPT !.range = rest * 2, !.result = 0]

\* finish(): the stop bit follows the bits used of the last byte read
StopPattern(d) == (d.data[d.pos] * 2^(8 + d.bitsNeeded)) % 256 = 128
=============================================================================
