------------------------------ MODULE BinProb ------------------------------
(***************************************************************************)
(* The probability model of a context (BinProbModel_Std): two estimates of *)
(* 15 bits, of which 10 and 14 are kept, moving at two rates.  Encoder and *)
(* decoder each hold one model per context and update it with every bin.   *)
(***************************************************************************)
EXTENDS Integers

Bit == {0, 1}

\* & MASK_0, & MASK_1: the low bits of the estimates are not kept
Kept0(x) == (x \div 32) * 32
Kept1(x) == (x \div 2) * 2

\* init() after the clipping of inistate, and setLog2WindowSize()
InitModel(inistate, log2WindowSize) ==
  LET rate0 == 2 + (log2WindowSize \div 4)
  IN [s0 |-> Kept0(inistate * 256), s1 |-> Kept1(inistate * 256),
      rate0 |-> rate0, rate1 |-> 3 + rate0 + (log2WindowSize % 4)]

\* every bin moves both estimates towards it
Update(m, bin) ==
  [m EXCEPT !.s0 = @ - Kept0(@ \div 2^m.rate0) + bin * Kept0(32767 \div 2^m.rate0),
            !.s1 = @ - Kept1(@ \div 2^m.rate1) + bin * Kept1(32767 \div 2^m.rate1)]

State(m) == (m.s0 + m.s1) \div 256
Mps(m) == State(m) \div 128

\* mutant: the least part of 4 is not added
LpsOfNoFloor(q, range) == ((q \div 4) * (range \div 32)) \div 2
\* the less probable symbol's part of the range, from the five upper bits of
\* its probability and the four upper bits of the range
LpsOf(q, range) == (((q \div 4) * (range \div 32)) \div 2) + 4
GetLPS(m, range) ==
  LpsOf(IF State(m) >= 128 THEN 255 - State(m) ELSE State(m), range)

\* m_RenormTable_32 at LPS >> 3: the shift that brings lps to 256 .. 510
RenormBitsLPS(lps) ==
  CASE lps < 8 -> 6
    [] lps \in 8 .. 15 -> 5
    [] lps \in 16 .. 31 -> 4
    [] lps \in 32 .. 63 -> 3
    [] lps \in 64 .. 127 -> 2
    [] OTHER -> 1

\* the more probable symbol never leaves less than 128
RenormBitsRange(range) == 1
=============================================================================
