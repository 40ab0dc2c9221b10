---------------------------- MODULE BinEncoder ----------------------------
(***************************************************************************)
(* The registers of the arithmetic encoder (BinEncoderBase) and what each  *)
(* of its calls does to them.  m_Low is a window of the interval's lower   *)
(* end: the 23 - m_bitsLeft bits that have left the 9 bits of the range    *)
(* wait in it.  Its lead byte is not written at once, because a later      *)
(* addition can still carry into it: one byte is held, and the 0xff bytes  *)
(* that followed it are only counted.                                      *)
(*                                                                         *)
(* OutputBitstream::write rejects a value wider than its number of bits:   *)
(* "fits" turns false where it would.  The counters of coded bins, kept    *)
(* for statistics, and the estimator are left out.                         *)
(***************************************************************************)
EXTENDS BinProb, Sequences

\* start()
EncoderStart ==
  [low |-> 0, range |-> 510, bitsLeft |-> 23, bufferedByte |-> 255,
   numBufferedBytes |-> 0, bytes |-> << >>, fits |-> TRUE]

Write(e, bs) ==
  [e EXCEPT !.bytes = @ \o bs, !.fits = @ /\ \A i \in DOMAIN bs : bs[i] \in 0 .. 255]
Times(b, n) == [i \in 1 .. n |-> b]

\* mutant: a lead byte of 0xff is held like any other
WriteOutNoRun(e) ==
  LET lead == e.low \div 2^(24 - e.bitsLeft)
      kept == [e EXCEPT !.low = @ % 2^(24 - e.bitsLeft), !.bitsLeft = @ + 8]
  IN Write([kept EXCEPT !.bufferedByte = lead % 256, !.numBufferedBytes = 1],
           IF e.numBufferedBytes = 0 THEN << >> ELSE <<e.bufferedByte + lead \div 256>>)
\* writeOut(): eight bits leave the window; a run of 0xff is only counted, and
\* the next other byte settles what the held byte and the run become
WriteOut(e) ==
  LET lead  == e.low \div 2^(24 - e.bitsLeft)
      carry == lead \div 256
      kept  == [e EXCEPT !.low = @ % 2^(24 - e.bitsLeft), !.bitsLeft = @ + 8]
  IN IF lead = 255 THEN [kept EXCEPT !.numBufferedBytes = @ + 1]
     ELSE IF e.numBufferedBytes > 0
     THEN Write([kept EXCEPT !.bufferedByte = lead % 256, !.numBufferedBytes = 1],
                <<e.bufferedByte + carry>> \o Times((255 + carry) % 256, e.numBufferedBytes - 1))
     ELSE [kept EXCEPT !.bufferedByte = lead, !.numBufferedBytes = 1]

\* every call ends with: if( m_bitsLeft < 12 ) writeOut()
WriteOutIfDue(e) == IF e.bitsLeft < 12 THEN WriteOut(e) ELSE e

\* the interval becomes what a renormalisation of n bits makes of it
Renorm(e, low, range, n) ==
  WriteOutIfDue([e EXCEPT !.low = low * 2^n, !.range = range * 2^n, !.bitsLeft = @ - n])

\* mutant: the interval of the less probable symbol starts at the old end
EncodeBinLow(e, m, bin) ==
  LET lps == GetLPS(m, e.range)
      mps == e.range - lps
  IN IF bin # Mps(m) THEN Renorm(e, e.low, lps, RenormBitsLPS(lps))
     ELSE IF mps < 256 THEN Renorm(e, e.low, mps, RenormBitsRange(mps))
     ELSE [e EXCEPT !.range = mps]
EncodeBin(e, m, bin) ==
  LET lps == GetLPS(m, e.range)
      mps == e.range - lps
  IN IF bin # Mps(m) THEN Renorm(e, e.low + mps, lps, RenormBitsLPS(lps))
     ELSE IF mps < 256 THEN Renorm(e, e.low, mps, RenormBitsRange(mps))
     ELSE [e EXCEPT !.range = mps]

\* n equiprobable bins, the first the most significant: the range stays
PutEP(e, bins, n) ==
  WriteOutIfDue([e EXCEPT !.low = @ * 2^n + e.range * bins, !.bitsLeft = @ - n])

EncodeBinEP(e, bin) == PutEP(e, bin, 1)

\* the first 8 * k of n bins are whole bytes; 1 to 8 bins remain
WholeBytes(n) == IF n = 0 THEN 0 ELSE (n - 1) \div 8
Byte(bins, n, k) == (bins \div 2^(n - 8 * k)) % 256

\* while( numBins > 8 ), at most three times for the bins of an unsigned; with
\* a range of 256, encodeAlignedBinsEP adds newBins << 8, which is the same
EncodeBinsEP(e, bins, n) ==
  LET k  == WholeBytes(n)
      e1 == IF k >= 1 THEN PutEP(e,  Byte(bins, n, 1), 8) ELSE e
      e2 == IF k >= 2 THEN PutEP(e1, Byte(bins, n, 2), 8) ELSE e1
      e3 == IF k >= 3 THEN PutEP(e2, Byte(bins, n, 3), 8) ELSE e2
  IN PutEP(e3, bins % 2^(n - 8 * k), n - 8 * k)

\* the prefix of a value above the threshold: while( codeValue > ( 2 << prefixLength ) - 2 )
PrefixLength(codeValue, maxPrefixLength) ==
  CHOOSE p \in 0 .. maxPrefixLength :
    /\ p = maxPrefixLength \/ codeValue <= 2^(p + 1) - 2
    /\ \A q \in 0 .. p - 1 : codeValue > 2^(q + 1) - 2

\* mutant: the separator bit of the suffix is forgotten
EncodeRemAbsEPShort(e, v, rice, cutoff, maxLog2) ==
  IF v < cutoff * 2^rice
  THEN EncodeBinsEP(EncodeBinsEP(e, 2^((v \div 2^rice) + 1) - 2, (v \div 2^rice) + 1),
                    v % 2^rice, rice)
  ELSE LET code == v \div 2^rice - cutoff
           p    == PrefixLength(code, 32 - cutoff - maxLog2)
       IN EncodeBinsEP(EncodeBinsEP(e, 2^(p + cutoff) - 1, p + cutoff),
                       (code - (2^p - 1)) * 2^rice + (v % 2^rice), p + rice)
EncodeRemAbsEP(e, v, rice, cutoff, maxLog2) ==
  IF v < cutoff * 2^rice
  THEN EncodeBinsEP(EncodeBinsEP(e, 2^((v \div 2^rice) + 1) - 2, (v \div 2^rice) + 1),
                    v % 2^rice, rice)
  ELSE LET code  == v \div 2^rice - cutoff
           maxP  == 32 - cutoff - maxLog2
           p     == PrefixLength(code, maxP)
           width == IF p = maxP THEN maxLog2 ELSE p + rice + 1
       IN EncodeBinsEP(EncodeBinsEP(e, 2^(p + cutoff) - 1, p + cutoff),
                       (code - (2^p - 1)) * 2^rice + (v % 2^rice), width)

EncodeBinTrm(e, bin) ==
  LET rest == e.range - 2
  IN IF bin = 1 THEN Renorm(e, e.low + rest, 2, 7)
     ELSE IF rest >= 256 THEN [e EXCEPT !.range = rest]
     ELSE Renorm(e, e.low, rest, 1)

\* n bits of value v, the stop bit and zeros up to the next byte boundary
Aligned(v, n) ==
  IF n < 8 THEN << (2 * v + 1) * 2^(7 - n) >>
  ELSE LET w == (2 * v + 1) * 2^(15 - n) IN << w \div 256, w % 256 >>

\* mutant: a carry in the last bits is lost
FinishNoCarry(e) ==
  LET n    == 24 - e.bitsLeft
      low  == e.low % 2^(n + 8)
      held == IF e.numBufferedBytes = 0 THEN << >>
              ELSE <<e.bufferedByte>> \o Times(255, e.numBufferedBytes - 1)
  IN Write(e, held \o Aligned(low \div 256, n))
\* end_of_slice() and writeByteAlignment(): the terminating bin, finish(), the
\* stop bit.  A carry out of m_Low goes into the held byte, unheld or not
Finish(e) ==
  LET n     == 24 - e.bitsLeft
      carry == e.low >= 2^(n + 8)
      low   == IF carry THEN e.low - 2^(n + 8) ELSE e.low
      held  == IF carry THEN <<e.bufferedByte + 1>> \o Times(0, e.numBufferedBytes - 1)
               ELSE IF e.numBufferedBytes = 0 THEN << >>
               ELSE <<e.bufferedByte>> \o Times(255, e.numBufferedBytes - 1)
      out   == Write(e, held \o Aligned(low \div 256, n))
  IN [out EXCEPT !.fits = @ /\ low \div 256 < 2^n]
EndOfSlice(e) == Finish(EncodeBinTrm(e, 1))
=============================================================================
