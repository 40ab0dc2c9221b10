----------------------------- MODULE CabacProofs -----------------------------
(***************************************************************************)
(* One substream, whatever is coded.                                       *)
(*                                                                         *)
(* The encoder: a carry finds a byte to go into, and no byte that is       *)
(* written is wider than eight bits.                                       *)
(*                                                                         *)
(* The decoder reads what was coded.  Neither side's registers say what    *)
(* the other's must be: what they share is the interval of numbers that    *)
(* the symbols so far leave.  The bytes the encoder has given and its      *)
(* window are the lower end of the interval (Represents); m_Value is what  *)
(* the decoder's bytes are above it (At).  Each symbol makes the interval  *)
(* a part of itself (After), so that the number which the substream is,    *)
(* being in the last interval, is in all of them.                          *)
(***************************************************************************)
EXTENDS Cabac, SequenceTheorems, WellFoundedInduction, TLAPS

\* the estimates of a context, and bytes
Estimates == {x \in Nat : x <= 32767}
Bytes == {x \in Nat : x <= 255}

Models == [s0 : Estimates, s1 : Estimates, rate0 : 2 .. 5, rate1 : 5 .. 9]

\* the registers, before writeOut too
Ranges == {r \in Nat : 256 <= r /\ r <= 510}
Encoders == [low : Nat, range : Ranges, bitsLeft : 4 .. 23, bufferedByte : Bytes,
             numBufferedBytes : Nat, bytes : Seq(Bytes), fits : BOOLEAN]

\* powers of two
Pow(n) == 2^n

\* what a carry out of m_Low is worth
CarryOut(e) == Pow(32 - e.bitsLeft)

\* Before a byte is held the interval ends at 510 / 512 of the window. Later it
\* can reach beyond the window, by what a range is in the smallest window that
\* writeOut leaves; the held byte is then never 255.
InWindow(e) ==
  /\ e.numBufferedBytes = 0 => 512 * (e.low + e.range) <= 510 * CarryOut(e)
  /\ e.numBufferedBytes > 0 => /\ e.bitsLeft <= 19 /\ e.bufferedByte < 255
                               /\ 8192 * (e.low + e.range) <= 8702 * CarryOut(e)

Sound(e) == e \in Encoders /\ InWindow(e) /\ e.fits
EncoderOk(e) == Sound(e) /\ e.bitsLeft >= 12

----------------------------------------------------------------------------
(* Powers of two.                                                          *)

(* The powers that fit in 32 bits, and the next.                           *)
LEMMA PowerTable ==
  /\ Pow(0) = 1 /\ Pow(1) = 2 /\ Pow(2) = 4 /\ Pow(3) = 8 /\ Pow(4) = 16
      /\ Pow(5) = 32 /\ Pow(6) = 64 /\ Pow(7) = 128 /\ Pow(8) = 256 /\ Pow(9) = 512
      /\ Pow(10) = 1024 /\ Pow(11) = 2048 /\ Pow(12) = 4096 /\ Pow(13) = 8192 /\ Pow(14) = 16384
      /\ Pow(15) = 32768 /\ Pow(16) = 65536 /\ Pow(17) = 131072 /\ Pow(18) = 262144 /\ Pow(19) = 524288
      /\ Pow(20) = 1048576 /\ Pow(21) = 2097152 /\ Pow(22) = 4194304 /\ Pow(23) = 8388608 /\ Pow(24) = 16777216
      /\ Pow(25) = 33554432 /\ Pow(26) = 67108864 /\ Pow(27) = 134217728 /\ Pow(28) = 268435456 /\ Pow(29) = 536870912
      /\ Pow(30) = 1073741824 /\ Pow(31) = 2147483648 /\ Pow(32) = 4294967296
  BY DEF Pow

(* Each is twice the one before.                                           *)
LEMMA PowerNext ==
  ASSUME NEW n \in 0 .. 31
  PROVE  Pow(n) \in Nat /\ Pow(n) >= 1 /\ Pow(n + 1) = 2 * Pow(n) /\ Pow(n + 1) \in Nat
  BY PowerTable

(* Powers of up to eight factors.                                          *)
LEMMA PowerSum ==
  ASSUME NEW n \in 0 .. 32, NEW k \in 0 .. 8, n + k <= 32
  PROVE  /\ Pow(n) \in Nat /\ Pow(n) >= 1 /\ Pow(k) \in Nat /\ Pow(k) >= 1 /\ Pow(k) <= 256
         /\ Pow(n + k) = Pow(n) * Pow(k)
<1>1. \A i \in 0 .. 31 : Pow(i) \in Nat /\ Pow(i) >= 1 /\ Pow(i + 1) \in Nat /\ Pow(i + 1) = 2 * Pow(i)
  BY PowerNext
<1>2. Pow(n) \in Nat /\ Pow(n) >= 1
  BY <1>1, PowerTable
<1>3. ASSUME NEW i \in 0 .. 7, i + 1 <= k
      PROVE  Pow(n + i) \in Nat /\ Pow(n + (i + 1)) = 2 * Pow(n + i)
  <2>1. n + i \in 0 .. 31 /\ n + (i + 1) = (n + i) + 1
    BY <1>3
  <2> QED
    BY <2>1, <1>1
<1>4. /\ 1 <= k => Pow(n + 1) = 2 * Pow(n + 0) /\ Pow(n + 0) \in Nat
      /\ 2 <= k => Pow(n + 2) = 2 * Pow(n + 1) /\ Pow(n + 1) \in Nat
      /\ 3 <= k => Pow(n + 3) = 2 * Pow(n + 2) /\ Pow(n + 2) \in Nat
      /\ 4 <= k => Pow(n + 4) = 2 * Pow(n + 3) /\ Pow(n + 3) \in Nat
      /\ 5 <= k => Pow(n + 5) = 2 * Pow(n + 4) /\ Pow(n + 4) \in Nat
      /\ 6 <= k => Pow(n + 6) = 2 * Pow(n + 5) /\ Pow(n + 5) \in Nat
      /\ 7 <= k => Pow(n + 7) = 2 * Pow(n + 6) /\ Pow(n + 6) \in Nat
      /\ 8 <= k => Pow(n + 8) = 2 * Pow(n + 7) /\ Pow(n + 7) \in Nat
  BY <1>3
<1>5. Pow(n + 0) = Pow(n)
  OBVIOUS
<1> QED
  BY <1>2, <1>4, <1>5, PowerTable

----------------------------------------------------------------------------
(* The contexts and the less probable part of the range.                   *)

(* A step towards a bin keeps the first estimate in 15 bits,               *)
LEMMA Estimate0 ==
  ASSUME NEW x \in Estimates, NEW p \in {4, 8, 16, 32}, NEW bin \in Bit
  PROVE  x - Kept0(x \div p) + bin * Kept0(32767 \div p) \in Estimates
<1> DEFINE q == x \div p
           j == q \div 32
<1> x \in Nat /\ x <= 32767
  BY DEF Estimates
<1>0. (bin = 0 \/ bin = 1) /\ Kept0(x \div p) = 32 * j
  BY DEF Bit, Kept0
<1>1. q \in Nat /\ j \in Nat /\ 32 * j <= q /\ q < 32 * (j + 1)
  <2>1. q \in Nat
    OBVIOUS
  <2> HIDE DEF q
  <2> QED
    BY <2>1
<1> HIDE DEF j
<1> SUFFICES /\ x - 32 * j + bin * Kept0(32767 \div p) \in Nat
             /\ x - 32 * j + bin * Kept0(32767 \div p) <= 32767
  BY <1>0 DEF Estimates
<1>2. CASE p = 4
  <2>1. Kept0(32767 \div p) = 8160
    BY <1>2 DEF Kept0
  <2>2. 4 * q <= x /\ x < 4 * (q + 1)
    BY <1>2
  <2> HIDE DEF q
  <2>3. x - 32 * j + 8160 <= 32767 /\ x - 32 * j >= 0
    BY <1>1, <2>2
  <2> QED
    BY <2>1, <2>3, <1>0, <1>1
<1>3. CASE p = 8
  <2>1. Kept0(32767 \div p) = 4064
    BY <1>3 DEF Kept0
  <2>2. 8 * q <= x /\ x < 8 * (q + 1)
    BY <1>3
  <2> HIDE DEF q
  <2>3. x - 32 * j + 4064 <= 32767 /\ x - 32 * j >= 0
    BY <1>1, <2>2
  <2> QED
    BY <2>1, <2>3, <1>0, <1>1
<1>4. CASE p = 16
  <2>1. Kept0(32767 \div p) = 2016
    BY <1>4 DEF Kept0
  <2>2. 16 * q <= x /\ x < 16 * (q + 1)
    BY <1>4
  <2> HIDE DEF q
  <2>3. x - 32 * j + 2016 <= 32767 /\ x - 32 * j >= 0
    BY <1>1, <2>2
  <2> QED
    BY <2>1, <2>3, <1>0, <1>1
<1>5. CASE p = 32
  <2>1. Kept0(32767 \div p) = 992
    BY <1>5 DEF Kept0
  <2>2. 32 * q <= x /\ x < 32 * (q + 1)
    BY <1>5
  <2> HIDE DEF q
  <2>3. x - 32 * j + 992 <= 32767 /\ x - 32 * j >= 0
    BY <1>1, <2>2
  <2> QED
    BY <2>1, <2>3, <1>0, <1>1
<1> QED
  BY <1>2, <1>3, <1>4, <1>5

(* and the second.                                                         *)
LEMMA Estimate1 ==
  ASSUME NEW x \in Estimates, NEW p \in {32, 64, 128, 256, 512}, NEW bin \in Bit
  PROVE  x - Kept1(x \div p) + bin * Kept1(32767 \div p) \in Estimates
<1> DEFINE q == x \div p
           j == q \div 2
<1> x \in Nat /\ x <= 32767
  BY DEF Estimates
<1>0. (bin = 0 \/ bin = 1) /\ Kept1(x \div p) = 2 * j
  BY DEF Bit, Kept1
<1>1. q \in Nat /\ j \in Nat /\ 2 * j <= q /\ q < 2 * (j + 1)
  <2>1. q \in Nat
    OBVIOUS
  <2> HIDE DEF q
  <2> QED
    BY <2>1
<1> HIDE DEF j
<1> SUFFICES /\ x - 2 * j + bin * Kept1(32767 \div p) \in Nat
             /\ x - 2 * j + bin * Kept1(32767 \div p) <= 32767
  BY <1>0 DEF Estimates
<1>2. CASE p = 32
  <2>1. Kept1(32767 \div p) = 1022
    BY <1>2 DEF Kept1
  <2>2. 32 * q <= x /\ x < 32 * (q + 1)
    BY <1>2
  <2> HIDE DEF q
  <2>3. x - 2 * j + 1022 <= 32767 /\ x - 2 * j >= 0
    BY <1>1, <2>2
  <2> QED
    BY <2>1, <2>3, <1>0, <1>1
<1>3. CASE p = 64
  <2>1. Kept1(32767 \div p) = 510
    BY <1>3 DEF Kept1
  <2>2. 64 * q <= x /\ x < 64 * (q + 1)
    BY <1>3
  <2> HIDE DEF q
  <2>3. x - 2 * j + 510 <= 32767 /\ x - 2 * j >= 0
    BY <1>1, <2>2
  <2> QED
    BY <2>1, <2>3, <1>0, <1>1
<1>4. CASE p = 128
  <2>1. Kept1(32767 \div p) = 254
    BY <1>4 DEF Kept1
  <2>2. 128 * q <= x /\ x < 128 * (q + 1)
    BY <1>4
  <2> HIDE DEF q
  <2>3. x - 2 * j + 254 <= 32767 /\ x - 2 * j >= 0
    BY <1>1, <2>2
  <2> QED
    BY <2>1, <2>3, <1>0, <1>1
<1>5. CASE p = 256
  <2>1. Kept1(32767 \div p) = 126
    BY <1>5 DEF Kept1
  <2>2. 256 * q <= x /\ x < 256 * (q + 1)
    BY <1>5
  <2> HIDE DEF q
  <2>3. x - 2 * j + 126 <= 32767 /\ x - 2 * j >= 0
    BY <1>1, <2>2
  <2> QED
    BY <2>1, <2>3, <1>0, <1>1
<1>6. CASE p = 512
  <2>1. Kept1(32767 \div p) = 62
    BY <1>6 DEF Kept1
  <2>2. 512 * q <= x /\ x < 512 * (q + 1)
    BY <1>6
  <2> HIDE DEF q
  <2>3. x - 2 * j + 62 <= 32767 /\ x - 2 * j >= 0
    BY <1>1, <2>2
  <2> QED
    BY <2>1, <2>3, <1>0, <1>1
<1> QED
  BY <1>2, <1>3, <1>4, <1>5, <1>6

(* Both estimates of a model stay in 15 bits.                              *)
LEMMA UpdateOk ==
  ASSUME NEW m \in Models, NEW bin \in Bit
  PROVE  Update(m, bin) \in Models
<1> DEFINE u0 == m.s0 - Kept0(m.s0 \div Pow(m.rate0)) + bin * Kept0(32767 \div Pow(m.rate0))
           u1 == m.s1 - Kept1(m.s1 \div Pow(m.rate1)) + bin * Kept1(32767 \div Pow(m.rate1))
<1>2. Update(m, bin) = [m EXCEPT !.s0 = u0, !.s1 = u1]
  BY DEF Update, Pow
<1>3. Pow(m.rate0) \in {4, 8, 16, 32} /\ Pow(m.rate1) \in {32, 64, 128, 256, 512}
  BY PowerTable DEF Models
<1>4. m.s0 \in Estimates /\ m.s1 \in Estimates
  BY DEF Models
<1> DEFINE a0 == m.s0
           a1 == m.s1
           p0 == Pow(m.rate0)
           p1 == Pow(m.rate1)
<1> HIDE DEF a0, a1, p0, p1
<1>5. a0 - Kept0(a0 \div p0) + bin * Kept0(32767 \div p0) \in Estimates
  <2>1. a0 \in Estimates /\ p0 \in {4, 8, 16, 32}
    BY <1>3, <1>4 DEF a0, p0
  <2> QED
    BY <2>1, Estimate0
<1>6. a1 - Kept1(a1 \div p1) + bin * Kept1(32767 \div p1) \in Estimates
  <2>1. a1 \in Estimates /\ p1 \in {32, 64, 128, 256, 512}
    BY <1>3, <1>4 DEF a1, p1
  <2> QED
    BY <2>1, Estimate1, SMTT(30)
<1>7. u0 \in Estimates /\ u1 \in Estimates
  BY <1>5, <1>6 DEF u0, u1, a0, a1, p0, p1
<1> HIDE DEF u0, u1
<1>8. [m EXCEPT !.s0 = u0, !.s1 = u1] \in Models
  BY <1>7 DEF Models
<1> QED
  BY <1>2, <1>8, Zenon

(* The less probable symbol gets 4 to 236 of the range, and leaves at      *)
(* least 128 of it.                                                        *)
LEMMA LpsOk ==
  ASSUME NEW m \in Models, NEW range \in Ranges
  PROVE  GetLPS(m, range) \in 4 .. 236 /\ range - GetLPS(m, range) \in 128 .. 506
<1> DEFINE q == IF State(m) >= 128 THEN 255 - State(m) ELSE State(m)
           a == q \div 4
           r == range \div 32
<1>1. State(m) \in 0 .. 255
  <2> DEFINE x == m.s0
             y == m.s1
  <2>1. x \in Nat /\ x <= 32767 /\ y \in Nat /\ y <= 32767
    BY DEF Models, Estimates
  <2>2. State(m) = (x + y) \div 256
    BY DEF State
  <2> HIDE DEF x, y
  <2> QED
    BY <2>1, <2>2
<1>2. q \in 0 .. 127
  BY <1>1
<1> HIDE DEF q
<1>3. a \in 0 .. 31
  BY <1>2
<1> HIDE DEF a
<1>4. r \in 8 .. 15 /\ 32 * r <= range
  BY DEF Ranges
<1> HIDE DEF r
<1>5. GetLPS(m, range) = ((a * r) \div 2) + 4
  BY DEF GetLPS, LpsOf, q, a, r
<1>6. r = 8 \/ r = 9 \/ r = 10 \/ r = 11 \/ r = 12 \/ r = 13 \/ r = 14 \/ r = 15
  BY <1>4
<1>7. ((a * r) \div 2) + 4 \in 4 .. 236 /\ range - (((a * r) \div 2) + 4) \in 128 .. 506
  BY <1>3, <1>4, <1>6 DEF Ranges
<1> QED
  BY <1>5, <1>7

(* Renormalisation brings it back to nine bits.                            *)
LEMMA RenormOk ==
  ASSUME NEW lps \in 4 .. 236
  PROVE  /\ RenormBitsLPS(lps) \in 1 .. 6
         /\ lps * Pow(RenormBitsLPS(lps)) \in Ranges
<1>1. \/ lps \in 4 .. 7 /\ RenormBitsLPS(lps) = 6
      \/ lps \in 8 .. 15 /\ RenormBitsLPS(lps) = 5
      \/ lps \in 16 .. 31 /\ RenormBitsLPS(lps) = 4
      \/ lps \in 32 .. 63 /\ RenormBitsLPS(lps) = 3
      \/ lps \in 64 .. 127 /\ RenormBitsLPS(lps) = 2
      \/ lps \in 128 .. 236 /\ RenormBitsLPS(lps) = 1
  BY DEF RenormBitsLPS
<1>2. lps * Pow(RenormBitsLPS(lps)) \in Ranges
  BY <1>1, PowerTable DEF Ranges
<1> QED
  BY <1>1, <1>2

----------------------------------------------------------------------------
(* writeOut: a byte leaves the window.                                     *)

(* The lead byte and the rest of the window.                               *)
LEMMA LeadAndRest ==
  ASSUME NEW low \in Nat, NEW d \in Nat, d >= 1, NEW q, NEW r, q = low \div d, r = low % d
  PROVE  /\ q \in Nat /\ r \in Nat /\ r < d /\ low = d * q + r
         /\ \A k \in Nat : low < k * d => q < k
<1>1. q \in Int /\ r \in Int /\ 0 <= r /\ r < d /\ low = d * q + r
  OBVIOUS
<1>2. q \in Nat
  <2>1. CASE q <= -1
    <3>1. d * q <= d * (-1)
      BY <1>1, <2>1
    <3> QED
      BY <3>1, <1>1
  <2> QED
    BY <2>1, <1>1
<1>3. ASSUME NEW k \in Nat, low < k * d
      PROVE  q < k
  <2>1. CASE q >= k
    <3>1. d * q >= d * k
      BY <2>1, <1>2
    <3> QED
      BY <3>1, <1>1, <1>3
  <2> QED
    BY <2>1, <1>2
<1> QED
  BY <1>1, <1>2, <1>3

(* The window that is left is at least 13 bits wide, and the carry is its  *)
(* bit beyond.                                                             *)
LEMMA WindowLeft ==
  ASSUME NEW b \in 4 .. 11
  PROVE  /\ Pow(24 - b) \in Nat /\ Pow(24 - b) >= 8192
         /\ Pow(32 - b) = 256 * Pow(24 - b)
         /\ Pow(32 - (b + 8)) = Pow(24 - b)
<1>1. /\ (24 - b) + 8 = 32 - b /\ 13 + (11 - b) = 24 - b /\ 32 - (b + 8) = 24 - b
      /\ 8 \in 0 .. 8 /\ 13 \in 0 .. 32 /\ 24 - b \in 0 .. 32 /\ (24 - b) + 8 <= 32 /\ 11 - b \in 0 .. 8 /\ 13 + (11 - b) <= 32
  OBVIOUS
<1>2. Pow(24 - b) \in Nat /\ Pow((24 - b) + 8) = Pow(24 - b) * Pow(8)
  BY <1>1, PowerSum, Zenon
<1>3. Pow(13 + (11 - b)) = Pow(13) * Pow(11 - b) /\ Pow(11 - b) \in Nat /\ Pow(11 - b) >= 1
  BY <1>1, PowerSum, ZenonT(40)
<1> QED
  BY <1>1, <1>2, <1>3, PowerTable

(* Bytes that are written are eight bits wide.                             *)
LEMMA WriteOk ==
  ASSUME NEW e \in Encoders, e.fits, NEW bs \in Seq(Bytes)
  PROVE  /\ Write(e, bs) = [e EXCEPT !.bytes = e.bytes \o bs]
         /\ Write(e, bs) \in Encoders /\ Write(e, bs).fits
<1>1. e.bytes \in Seq(Bytes) /\ e.bytes \o bs \in Seq(Bytes)
  BY DEF Encoders
<1>2. \A i \in DOMAIN bs : bs[i] \in Bytes
  OBVIOUS
<1>3. \A i \in DOMAIN bs : bs[i] \in 0 .. 255
  <2>1. \A x \in Bytes : x \in 0 .. 255
    BY DEF Bytes
  <2> QED
    BY <1>2, <2>1, Zenon
<1>4. Write(e, bs) = [e EXCEPT !.bytes = e.bytes \o bs, !.fits = TRUE]
  BY <1>3 DEF Write
<1>5. [e EXCEPT !.bytes = e.bytes \o bs, !.fits = TRUE] = [e EXCEPT !.bytes = e.bytes \o bs]
  BY DEF Encoders
<1>6. [e EXCEPT !.bytes = e.bytes \o bs, !.fits = TRUE] \in Encoders
  BY <1>1 DEF Encoders
<1> QED
  BY <1>4, <1>5, <1>6 DEF Encoders

(* So are the held byte and the run behind it.                             *)
LEMMA HeldOk ==
  ASSUME NEW b \in Bytes, NEW c \in Bytes, NEW n \in Nat
  PROVE  <<b>> \o Times(c, n) \in Seq(Bytes)
<1>1. Times(c, n) \in Seq(Bytes)
  BY DEF Times
<1> QED
  BY <1>1

(* A byte is held, and the run behind it counted.                          *)
LEMMA HoldOk ==
  ASSUME NEW e \in Encoders, NEW n \in Nat
  PROVE  /\ [e EXCEPT !.numBufferedBytes = n] \in Encoders
         /\ \A b \in Bytes : [e EXCEPT !.bufferedByte = b, !.numBufferedBytes = n] \in Encoders
  BY DEF Encoders

(* writeOut keeps the registers sound and makes room for eight bits.       *)
LEMMA WriteOutOk ==
  ASSUME NEW e, Sound(e), e.bitsLeft < 12
  PROVE  EncoderOk(WriteOut(e))
<1> DEFINE d    == Pow(24 - e.bitsLeft)
           lead == e.low \div d
           rest == e.low % d
           kept == [e EXCEPT !.low = rest, !.bitsLeft = e.bitsLeft + 8]
<1>1. /\ e \in Encoders /\ e.fits /\ InWindow(e)
      /\ e.low \in Nat /\ e.range \in Nat /\ 256 <= e.range /\ e.range <= 510
      /\ e.bitsLeft \in 4 .. 11 /\ e.bufferedByte \in Bytes /\ e.numBufferedBytes \in Nat
  BY SMTT(30) DEF Sound, Encoders, Ranges
<1>2. d \in Nat /\ d >= 8192 /\ CarryOut(e) = 256 * d /\ Pow(32 - (e.bitsLeft + 8)) = d
  BY <1>1, WindowLeft DEF CarryOut
<1>3. /\ e.numBufferedBytes = 0 => 512 * (e.low + e.range) <= 510 * (256 * d)
      /\ e.numBufferedBytes > 0 => /\ e.bufferedByte < 255
                                   /\ 8192 * (e.low + e.range) <= 8702 * (256 * d)
  BY <1>1, <1>2 DEF InWindow
<1> HIDE DEF d
<1>3a. lead = e.low \div d /\ rest = e.low % d
  OBVIOUS
<1> HIDE DEF lead, rest
<1>4. /\ lead \in Nat /\ rest \in Nat /\ rest < d
      /\ e.low < 255 * d => lead < 255
      /\ e.low < 272 * d => lead < 272
  <2> DEFINE low == e.low
  <2>1. d \in Nat /\ d >= 1 /\ low \in Nat /\ lead = low \div d /\ rest = low % d
    BY <1>1, <1>2, <1>3a
  <2> HIDE DEF low
  <2>2. /\ lead \in Nat /\ rest \in Nat /\ rest < d
        /\ \A k \in Nat : low < k * d => lead < k
    BY ONLY <2>1, LeadAndRest, Zenon
  <2> QED
    BY <2>2 DEF low
<1>5. /\ e.numBufferedBytes = 0 => lead < 255
      /\ lead < 272
      /\ 8192 * (rest + e.range) <= 8702 * d
  BY <1>1, <1>2, <1>3, <1>4
<1>6. /\ kept \in Encoders /\ kept.fits /\ kept.low = rest /\ kept.range = e.range
      /\ kept.bitsLeft = e.bitsLeft + 8 /\ kept.bufferedByte = e.bufferedByte
  <2>1. e.bitsLeft + 8 \in 4 .. 23
    BY <1>1
  <2> QED
    BY <1>1, <1>4, <2>1 DEF Encoders
<1> HIDE DEF kept
<1>7. ASSUME NEW f \in Encoders, f.fits, f.low = rest, f.range = e.range, f.bitsLeft = e.bitsLeft + 8,
             f.numBufferedBytes > 0, f.bufferedByte < 255
      PROVE  EncoderOk(f)
  <2>1. CarryOut(f) = d
    BY <1>2, <1>7 DEF CarryOut
  <2>2. InWindow(f)
    BY <2>1, <1>1, <1>2, <1>4, <1>5, <1>7 DEF InWindow
  <2> QED
    BY <2>2, <1>1, <1>7 DEF EncoderOk, Sound
<1>8. CASE lead = 255
  <2>1. WriteOut(e) = [kept EXCEPT !.numBufferedBytes = e.numBufferedBytes + 1]
    BY <1>8 DEF WriteOut, kept, lead, rest, d, Pow
  <2> DEFINE f == [kept EXCEPT !.numBufferedBytes = e.numBufferedBytes + 1]
  <2>2. f \in Encoders
    <3>1. e.numBufferedBytes + 1 \in Nat
      BY <1>1
    <3> QED
      BY <3>1, <1>6, HoldOk
  <2>3. /\ f.fits /\ f.low = rest /\ f.range = e.range
        /\ f.bitsLeft = e.bitsLeft + 8 /\ f.numBufferedBytes > 0 /\ f.bufferedByte < 255
    BY <1>1, <1>3, <1>5, <1>6, <1>8, SMTT(30) DEF Encoders
  <2> HIDE DEF f
  <2> QED
    BY <2>1, <2>2, <2>3, <1>7 DEF f
<1>9. CASE lead # 255 /\ e.numBufferedBytes > 0
  <2> DEFINE g  == [kept EXCEPT !.bufferedByte = lead % 256, !.numBufferedBytes = 1]
             bs == <<e.bufferedByte + (lead \div 256)>>
                     \o Times((255 + (lead \div 256)) % 256, e.numBufferedBytes - 1)
  <2>1. WriteOut(e) = Write(g, bs)
    BY <1>9 DEF WriteOut, kept, lead, rest, d, Pow
  <2>2. lead % 256 \in Nat /\ lead % 256 < 255
    BY <1>4, <1>5, <1>9
  <2>3. bs \in Seq(Bytes)
    <3> DEFINE carry == lead \div 256
    <3>1. carry = 0 \/ carry = 1
      BY <1>4, <1>5
    <3> HIDE DEF carry
    <3>2. e.bufferedByte + carry \in Bytes /\ (255 + carry) % 256 \in Bytes /\ e.numBufferedBytes - 1 \in Nat
      BY <3>1, <1>1, <1>3, <1>9 DEF Bytes
    <3> QED
      BY <3>2, HeldOk, ZenonT(60) DEF carry
  <2>4. /\ g \in Encoders /\ g.fits /\ g.low = rest /\ g.range = e.range
        /\ g.bitsLeft = e.bitsLeft + 8 /\ g.numBufferedBytes > 0 /\ g.bufferedByte < 255
    <3>1. lead % 256 \in Bytes
      BY <2>2 DEF Bytes
    <3>2. g \in Encoders
      BY <3>1, <1>6, HoldOk, ZenonT(40)
    <3> QED
      BY <3>2, <1>6, <2>2 DEF Encoders
  <2> HIDE DEF g, bs
  <2> DEFINE f == Write(g, bs)
  <2>5. f = [g EXCEPT !.bytes = g.bytes \o bs] /\ f \in Encoders /\ f.fits
    BY <2>3, <2>4, WriteOk
  <2> HIDE DEF f
  <2>6. /\ f.low = rest /\ f.range = e.range /\ f.bitsLeft = e.bitsLeft + 8
        /\ f.numBufferedBytes > 0 /\ f.bufferedByte < 255
    BY <2>4, <2>5 DEF Encoders
  <2> QED
    BY <2>1, <2>5, <2>6, <1>7 DEF f
<1>10. CASE lead # 255 /\ e.numBufferedBytes = 0
  <2> DEFINE f == [kept EXCEPT !.bufferedByte = lead, !.numBufferedBytes = 1]
  <2>1. WriteOut(e) = f
    BY <1>10 DEF WriteOut, kept, lead, rest, d, Pow
  <2>2. /\ f \in Encoders /\ f.fits /\ f.low = rest /\ f.range = e.range
        /\ f.bitsLeft = e.bitsLeft + 8 /\ f.numBufferedBytes > 0 /\ f.bufferedByte < 255
    <3>1. lead \in Bytes /\ lead < 255
      BY <1>4, <1>5, <1>10 DEF Bytes
    <3>2. f \in Encoders
      BY <3>1, <1>6, HoldOk
    <3> QED
      BY <3>1, <3>2, <1>6 DEF Encoders
  <2> HIDE DEF f
  <2> QED
    BY <2>1, <2>2, <1>7
<1> QED
  BY <1>1, <1>8, <1>9, <1>10

----------------------------------------------------------------------------
(* The calls.                                                              *)

(* The interval shrinks to a part of it, seen n bits finer.                *)
LEMMA ShiftSound ==
  ASSUME NEW e, EncoderOk(e), NEW n \in 0 .. 8, NEW low \in Nat, NEW range \in Ranges,
         low + range <= Pow(n) * (e.low + e.range)
  PROVE  LET f == [e EXCEPT !.low = low, !.range = range, !.bitsLeft = e.bitsLeft - n]
         IN Sound(f) /\ f.bitsLeft \in 4 .. 23
<1> DEFINE f == [e EXCEPT !.low = low, !.range = range, !.bitsLeft = e.bitsLeft - n]
           p == Pow(n)
           c == CarryOut(e)
           s == e.low + e.range
<1>1. /\ e \in Encoders /\ e.fits /\ InWindow(e) /\ e.bitsLeft \in 12 .. 23
      /\ e.low \in Nat /\ e.range \in Nat /\ e.bufferedByte \in Nat /\ e.numBufferedBytes \in Nat
  <2>1. /\ e \in Encoders /\ e.fits /\ InWindow(e) /\ e.bitsLeft \in 4 .. 23 /\ e.bitsLeft >= 12
        /\ e.low \in Nat /\ e.range \in Ranges /\ e.bufferedByte \in Bytes /\ e.numBufferedBytes \in Nat
    BY DEF EncoderOk, Sound, Encoders
  <2>2. e.bitsLeft \in 12 .. 23
    BY <2>1
  <2> QED
    BY <2>1, <2>2 DEF Ranges, Bytes
<1>2. /\ f \in Encoders /\ f.fits /\ f.low = low /\ f.range = range /\ f.bitsLeft = e.bitsLeft - n
      /\ f.bufferedByte = e.bufferedByte /\ f.numBufferedBytes = e.numBufferedBytes
  <2>1. e.bitsLeft - n \in 4 .. 23
    BY <1>1
  <2> QED
    BY <2>1, <1>1 DEF Encoders
<1>3. CarryOut(f) = c * p /\ c \in Nat /\ p \in Nat
  <2>1. /\ 32 - e.bitsLeft \in 0 .. 32 /\ (32 - e.bitsLeft) + n <= 32
        /\ 32 - (e.bitsLeft - n) = (32 - e.bitsLeft) + n
    BY <1>1
  <2>2. /\ Pow(32 - e.bitsLeft) \in Nat /\ p \in Nat
        /\ Pow((32 - e.bitsLeft) + n) = Pow(32 - e.bitsLeft) * p
    BY <2>1, PowerSum, ZenonT(30)
  <2>3. CarryOut(f) = Pow((32 - e.bitsLeft) + n)
    BY <2>1, <1>2 DEF CarryOut
  <2> QED
    BY <2>2, <2>3 DEF CarryOut
<1> HIDE DEF p
<1>4. /\ e.numBufferedBytes = 0 => 512 * s <= 510 * c
      /\ e.numBufferedBytes > 0 => e.bitsLeft <= 19 /\ e.bufferedByte < 255 /\ 8192 * s <= 8702 * c
  BY <1>1 DEF InWindow
<1>5. s \in Nat /\ low + range \in Nat /\ low + range <= p * s
  BY <1>1 DEF Ranges, p
<1> HIDE DEF c, s
<1>6. ASSUME NEW a \in Nat, NEW b \in Nat, a * s <= b * c
      PROVE  a * (low + range) <= b * (c * p)
  <2>1. p * (a * s) <= p * (b * c)
    BY <1>3, <1>5, <1>6
  <2>2. a * (low + range) <= a * (p * s)
    BY <1>3, <1>5
  <2> QED
    BY <2>1, <2>2, <1>3, <1>5
<1>7. /\ f.numBufferedBytes = 0 => 512 * (low + range) <= 510 * (c * p)
      /\ f.numBufferedBytes > 0 => f.bitsLeft <= 19 /\ f.bufferedByte < 255
                                   /\ 8192 * (low + range) <= 8702 * (c * p)
  <2>1. f.bitsLeft <= e.bitsLeft
    BY <1>1, <1>2
  <2> HIDE DEF f
  <2>2. f.numBufferedBytes = 0 => 512 * (low + range) <= 510 * (c * p)
    BY <1>2, <1>4, <1>6
  <2>3. f.numBufferedBytes > 0 => 8192 * (low + range) <= 8702 * (c * p)
    BY <1>2, <1>4, <1>6
  <2> QED
    BY <2>1, <2>2, <2>3, <1>1, <1>2, <1>4
<1> HIDE DEF f
<1>8. Sound(f) /\ f.bitsLeft \in 4 .. 23
  BY <1>2, <1>3, <1>7 DEF Sound, InWindow, Encoders
<1> QED
  BY <1>8 DEF f

(* A byte may have to leave the window.                                    *)
LEMMA ShiftOk ==
  ASSUME NEW e, EncoderOk(e), NEW n \in 0 .. 8, NEW low \in Nat, NEW range \in Ranges,
         low + range <= Pow(n) * (e.low + e.range)
  PROVE  EncoderOk(WriteOutIfDue([e EXCEPT !.low = low, !.range = range, !.bitsLeft = e.bitsLeft - n]))
<1> DEFINE f == [e EXCEPT !.low = low, !.range = range, !.bitsLeft = e.bitsLeft - n]
<1>1. Sound(f) /\ f.bitsLeft \in 4 .. 23
  BY ShiftSound
<1> HIDE DEF f
<1>2. CASE f.bitsLeft < 12
  BY <1>1, <1>2, WriteOutOk DEF WriteOutIfDue, f
<1>3. CASE f.bitsLeft >= 12
  BY <1>1, <1>3 DEF WriteOutIfDue, EncoderOk, f
<1> QED
  BY <1>1, <1>2, <1>3

(* Without a shift it only shrinks.                                        *)
LEMMA ShrinkOk ==
  ASSUME NEW e, EncoderOk(e), NEW range \in Ranges, range <= e.range
  PROVE  EncoderOk([e EXCEPT !.range = range])
<1> DEFINE f == [e EXCEPT !.range = range]
<1>1. /\ e \in Encoders /\ e.fits /\ InWindow(e) /\ e.bitsLeft >= 12
      /\ e.low \in Nat /\ e.range \in Nat /\ e.numBufferedBytes \in Nat /\ range \in Nat
  BY DEF EncoderOk, Sound, Encoders, Ranges
<1>2. /\ f \in Encoders /\ f.fits /\ f.low = e.low /\ f.range = range /\ f.bitsLeft = e.bitsLeft
      /\ f.bufferedByte = e.bufferedByte /\ f.numBufferedBytes = e.numBufferedBytes
  BY <1>1 DEF Encoders
<1> HIDE DEF f
<1>3. CarryOut(f) = CarryOut(e) /\ CarryOut(e) \in Nat
  <2>1. e.bitsLeft \in 4 .. 23
    BY <1>1 DEF Encoders
  <2>2. 32 - e.bitsLeft \in 0 .. 31
    BY <2>1
  <2> QED
    BY <2>2, <1>2, PowerNext DEF CarryOut
<1>4. InWindow(f)
  BY <1>1, <1>2, <1>3 DEF InWindow
<1> QED
  BY <1>1, <1>2, <1>4 DEF EncoderOk, Sound, f

(* An equiprobable bin, or several, take their part of the interval.       *)
LEMMA PutEPOk ==
  ASSUME NEW e, EncoderOk(e), NEW n \in 0 .. 8, NEW bins \in Nat, bins < Pow(n)
  PROVE  EncoderOk(PutEP(e, bins, n))
<1> DEFINE p   == Pow(n)
           low == e.low * p + e.range * bins
<1>1. e \in Encoders /\ e.low \in Nat /\ e.range \in Ranges /\ e.range \in Nat
  BY DEF EncoderOk, Sound, Encoders, Ranges
<1>2. p \in Nat
  BY PowerNext
<1>3. low \in Nat /\ low + e.range <= p * (e.low + e.range)
  <2>1. bins + 1 <= p /\ bins \in Nat
    BY <1>2
  <2> HIDE DEF p
  <2>2. e.range * (bins + 1) <= e.range * p
    BY <1>1, <1>2, <2>1
  <2>3. e.range * (bins + 1) = e.range * bins + e.range /\ p * (e.low + e.range) = e.low * p + e.range * p
    BY <1>1, <1>2, <2>1
  <2> QED
    BY <1>1, <1>2, <2>1, <2>2, <2>3
<1>4. PutEP(e, bins, n)
        = WriteOutIfDue([e EXCEPT !.low = low, !.range = e.range, !.bitsLeft = e.bitsLeft - n])
  <2>1. [e EXCEPT !.low = low, !.range = e.range, !.bitsLeft = e.bitsLeft - n]
          = [e EXCEPT !.low = low, !.bitsLeft = e.bitsLeft - n]
    BY <1>1 DEF Encoders
  <2> QED
    BY <2>1, Zenon DEF PutEP, Pow
<1> HIDE DEF low
<1> QED
  BY <1>1, <1>3, <1>4, ShiftOk, ZenonT(30)

(* A part of the interval is renormalised to nine bits.                    *)
LEMMA RenormalisedOk ==
  ASSUME NEW e, EncoderOk(e), NEW low \in Nat, NEW range \in Nat, NEW n \in 0 .. 8,
         low + range <= e.low + e.range, range * Pow(n) \in Ranges
  PROVE  EncoderOk(Renorm(e, low, range, n))
<1> DEFINE p == Pow(n)
           l == low * p
           r == range * p
<1>1. e.low \in Nat /\ e.range \in Nat
  BY DEF EncoderOk, Sound, Encoders, Ranges
<1>2. p \in Nat
  BY PowerNext
<1>3. l \in Nat /\ r \in Ranges /\ l + r <= p * (e.low + e.range)
  <2>1. range * p \in Ranges
    OBVIOUS
  <2> HIDE DEF p
  <2>2. p * (low + range) <= p * (e.low + e.range)
    BY <1>1, <1>2
  <2>3. p * (low + range) = low * p + range * p
    BY <1>2
  <2> QED
    BY <1>1, <1>2, <2>1, <2>2, <2>3
<1>4. Renorm(e, low, range, n) = WriteOutIfDue([e EXCEPT !.low = l, !.range = r, !.bitsLeft = e.bitsLeft - n])
  BY Zenon DEF Renorm, Pow
<1> HIDE DEF l, r
<1> QED
  BY <1>3, <1>4, ShiftOk, ZenonT(30)

(* encodeBin.                                                              *)
LEMMA EncodeBinOk ==
  ASSUME NEW e, EncoderOk(e), NEW m \in Models, NEW bin
  PROVE  EncoderOk(EncodeBin(e, m, bin))
<1> DEFINE lps == GetLPS(m, e.range)
           mps == e.range - lps
<1>1. e.low \in Nat /\ e.range \in Ranges
  BY DEF EncoderOk, Sound, Encoders
<1>2. lps \in 4 .. 236 /\ mps \in 128 .. 506 /\ e.range \in Nat /\ lps + mps = e.range
  <2>1. lps \in 4 .. 236 /\ mps \in 128 .. 506
    BY <1>1, LpsOk
  <2> HIDE DEF lps
  <2> QED
    BY <2>1, <1>1 DEF Ranges
<1>3. EncodeBin(e, m, bin)
        = IF bin # Mps(m) THEN Renorm(e, e.low + mps, lps, RenormBitsLPS(lps))
          ELSE IF mps < 256 THEN Renorm(e, e.low, mps, 1)
          ELSE [e EXCEPT !.range = mps]
  BY Zenon DEF EncodeBin, RenormBitsRange
<1> HIDE DEF lps, mps
<1>4. EncoderOk(Renorm(e, e.low + mps, lps, RenormBitsLPS(lps)))
  <2> DEFINE n == RenormBitsLPS(lps)
  <2>1. n \in 1 .. 6 /\ lps * Pow(n) \in Ranges
    BY <1>2, RenormOk
  <2>2. n \in 0 .. 8 /\ e.low + mps \in Nat /\ lps \in Nat /\ (e.low + mps) + lps <= e.low + e.range
    BY <1>1, <1>2, <2>1
  <2> HIDE DEF n
  <2>3. EncoderOk(Renorm(e, e.low + mps, lps, n))
    BY <2>1, <2>2, RenormalisedOk
  <2> QED
    BY <2>3 DEF n
<1>5. ASSUME mps < 256
      PROVE  EncoderOk(Renorm(e, e.low, mps, 1))
  <2>1. mps * Pow(1) \in Ranges
    BY <1>2, <1>5, PowerTable DEF Ranges
  <2>2. mps \in Nat /\ e.low + mps <= e.low + e.range /\ 1 \in 0 .. 8
    BY <1>1, <1>2
  <2> QED
    BY <1>1, <2>1, <2>2, RenormalisedOk
<1>6. ASSUME ~(mps < 256)
      PROVE  EncoderOk([e EXCEPT !.range = mps])
  <2>1. mps \in Ranges /\ mps <= e.range
    BY <1>2, <1>6 DEF Ranges
  <2> QED
    BY <2>1, ShrinkOk
<1> QED
  BY <1>3, <1>4, <1>5, <1>6, Zenon

(* encodeBinTrm.                                                           *)
LEMMA EncodeBinTrmOk ==
  ASSUME NEW e, EncoderOk(e), NEW bin \in Bit
  PROVE  EncoderOk(EncodeBinTrm(e, bin))
<1> DEFINE rest == e.range - 2
<1>1. e.low \in Nat /\ e.range \in Nat /\ 256 <= e.range /\ e.range <= 510
  BY DEF EncoderOk, Sound, Encoders, Ranges
<1>2. rest \in Nat /\ rest >= 254 /\ rest <= 508 /\ rest + 2 = e.range
  BY <1>1
<1>3. EncodeBinTrm(e, bin) = IF bin = 1 THEN Renorm(e, e.low + rest, 2, 7)
                             ELSE IF rest >= 256 THEN [e EXCEPT !.range = rest]
                             ELSE Renorm(e, e.low, rest, 1)
  BY Zenon DEF EncodeBinTrm
<1> HIDE DEF rest
<1>4. EncoderOk(Renorm(e, e.low + rest, 2, 7))
  <2>1. e.low + rest \in Nat /\ (e.low + rest) + 2 <= e.low + e.range /\ 7 \in 0 .. 8 /\ 2 \in Nat
    BY <1>1, <1>2
  <2>2. 2 * Pow(7) \in Ranges
    BY PowerTable DEF Ranges
  <2> QED
    BY <2>1, <2>2, RenormalisedOk
<1>5. ASSUME rest >= 256
      PROVE  EncoderOk([e EXCEPT !.range = rest])
  <2>1. rest \in Ranges /\ rest <= e.range
    BY <1>1, <1>2, <1>5 DEF Ranges
  <2> QED
    BY <2>1, ShrinkOk
<1>6. ASSUME ~(rest >= 256)
      PROVE  EncoderOk(Renorm(e, e.low, rest, 1))
  <2>1. rest * Pow(1) \in Ranges
    BY <1>2, <1>6, PowerTable DEF Ranges
  <2>2. e.low + rest <= e.low + e.range /\ 1 \in 0 .. 8
    BY <1>1, <1>2
  <2> QED
    BY <1>1, <1>2, <2>1, <2>2, RenormalisedOk
<1> QED
  BY <1>3, <1>4, <1>5, <1>6, Zenon

----------------------------------------------------------------------------
(* Several equiprobable bins, and escape codes.                            *)

(* A byte of the bins.                                                     *)
LEMMA ByteOk ==
  ASSUME NEW bins \in Int, NEW n \in 0 .. 31, NEW k \in 0 .. 3, 8 * k <= n
  PROVE  Byte(bins, n, k) \in Nat /\ Byte(bins, n, k) < Pow(8)
<1> DEFINE p == Pow(n - 8 * k)
           x == bins \div p
<1>1. n - 8 * k \in 0 .. 31
  OBVIOUS
<1>2. p \in Nat /\ p >= 1
  BY <1>1, PowerNext
<1>3. Byte(bins, n, k) = x % 256
  BY Zenon DEF Byte, Pow
<1> HIDE DEF p
<1>4. x \in Int
  BY <1>2
<1> HIDE DEF x
<1> QED
  BY <1>3, <1>4, PowerTable

(* encodeBinsEP: it takes the low bits of what it is given.                *)
LEMMA EncodeBinsEPOk ==
  ASSUME NEW e, EncoderOk(e), NEW bins \in Int, NEW n \in 0 .. 31
  PROVE  EncoderOk(EncodeBinsEP(e, bins, n))
<1> DEFINE k  == WholeBytes(n)
           e1 == IF k >= 1 THEN PutEP(e,  Byte(bins, n, 1), 8) ELSE e
           e2 == IF k >= 2 THEN PutEP(e1, Byte(bins, n, 2), 8) ELSE e1
           e3 == IF k >= 3 THEN PutEP(e2, Byte(bins, n, 3), 8) ELSE e2
           u  == n - 8 * k
           r  == bins % Pow(u)
<1>1. k \in 0 .. 3 /\ 8 * k <= n /\ u \in 0 .. 8
  BY DEF WholeBytes
<1>2. EncodeBinsEP(e, bins, n) = PutEP(e3, r, u)
  BY Zenon DEF EncodeBinsEP, Pow
<1> HIDE DEF k
<1>3. ASSUME NEW f, EncoderOk(f), NEW i \in 1 .. 3, k >= i
      PROVE  EncoderOk(PutEP(f, Byte(bins, n, i), 8))
  <2>1. i \in 0 .. 3 /\ 8 * i <= n /\ 8 \in 0 .. 8
    BY <1>1, <1>3
  <2>2. Byte(bins, n, i) \in Nat /\ Byte(bins, n, i) < Pow(8)
    BY <2>1, ByteOk
  <2> QED
    BY <2>1, <2>2, <1>3, PutEPOk
<1>4. EncoderOk(e1)
  BY <1>3
<1> HIDE DEF e1
<1>5. EncoderOk(e2)
  BY <1>1, <1>3, <1>4
<1> HIDE DEF e2
<1>6. EncoderOk(e3)
  BY <1>1, <1>3, <1>5
<1> HIDE DEF e3
<1>7. r \in Nat /\ r < Pow(u)
  <2>1. Pow(u) \in Nat /\ Pow(u) >= 1
    BY <1>1, PowerNext
  <2> QED
    BY <2>1
<1> HIDE DEF r, u
<1> QED
  BY <1>1, <1>2, <1>6, <1>7, PutEPOk

(* The prefix of an escape code is the first that is long enough, or the   *)
(* longest.                                                                *)
LEMMA PrefixLengthOk ==
  ASSUME NEW code \in Int, NEW maxP \in 5 .. 15
  PROVE  LET p == PrefixLength(code, maxP)
         IN /\ p \in 0 .. maxP
            /\ p = maxP \/ code <= Pow(p + 1) - 2
            /\ \A q \in 0 .. p - 1 : code > Pow(q + 1) - 2
<1> DEFINE Ends(p) == p = maxP \/ code <= Pow(p + 1) - 2
           lengths == {p \in 0 .. maxP : Ends(p)}
           below   == OpToRel(<, Nat)
<1>1. \E p \in lengths : \A q \in lengths : ~(<<q, p>> \in below)
  <2>1. lengths \subseteq Nat /\ maxP \in lengths
    OBVIOUS
  <2> HIDE DEF lengths, below
  <2>2. IsWellFoundedOn(below, Nat)
    BY NatLessThanWellFounded DEF below
  <2>3. lengths # {}
    BY <2>1
  <2> QED
    BY <2>1, <2>2, <2>3, WFMin, Zenon
<1>2. \A q, p \in Nat : q < p => <<q, p>> \in below
  BY DEF OpToRel
<1> HIDE DEF below
<1>3. PICK p \in lengths : \A q \in lengths : ~(<<q, p>> \in below)
  BY <1>1
<1>4. p \in 0 .. maxP /\ Ends(p) /\ \A q \in 0 .. p - 1 : ~Ends(q)
  <2>1. p \in 0 .. maxP /\ Ends(p)
    BY <1>3
  <2>2. ASSUME NEW q \in 0 .. p - 1, Ends(q)
        PROVE  FALSE
    <3>1. q \in 0 .. maxP /\ q \in Nat /\ p \in Nat /\ q < p
      BY <2>1
    <3>2. q \in lengths
      BY <2>2, <3>1
    <3> QED
      BY <3>1, <3>2, <1>2, <1>3
  <2> QED
    BY <2>1, <2>2
<1> DEFINE Fits(l) == /\ l = maxP \/ code <= Pow(l + 1) - 2
                      /\ \A q \in 0 .. l - 1 : code > Pow(q + 1) - 2
<1>5. Fits(p)
  <2>1. ASSUME NEW q \in 0 .. p - 1
        PROVE  code > Pow(q + 1) - 2
    <3>1. q \in 0 .. 31
      BY <1>4
    <3>2. Pow(q + 1) - 2 \in Int
      BY <3>1, PowerNext
    <3> QED
      BY <3>2, <2>1, <1>4
  <2> QED
    BY <2>1, <1>4
<1>6. PrefixLength(code, maxP) = CHOOSE l \in 0 .. maxP : Fits(l)
  BY Zenon DEF PrefixLength, Pow
<1>7. PrefixLength(code, maxP) \in 0 .. maxP /\ Fits(PrefixLength(code, maxP))
  <2> HIDE DEF Fits
  <2> QED
    BY <1>4, <1>5, <1>6, Zenon
<1> QED
  BY <1>7

(* encodeRemAbsEP.                                                         *)
LEMMA EncodeRemAbsEPOk ==
  ASSUME NEW e, EncoderOk(e), NEW v \in Nat, NEW rice \in 0 .. 3, NEW cutoff \in {0, 5},
         NEW maxLog2 \in 15 .. 22, cutoff = 0 => maxLog2 = 17
  PROVE  EncoderOk(EncodeRemAbsEP(e, v, rice, cutoff, maxLog2))
<1> DEFINE p0    == Pow(rice)
           q     == v \div p0
           r     == v % p0
           code  == q - cutoff
           maxP  == 32 - cutoff - maxLog2
           p     == PrefixLength(code, maxP)
           width == IF p = maxP THEN maxLog2 ELSE p + rice + 1
           short == EncodeBinsEP(e, Pow(q + 1) - 2, q + 1)
           long  == EncodeBinsEP(e, Pow(p + cutoff) - 1, p + cutoff)
           tail  == (code - (Pow(p) - 1)) * p0 + r
<1>1. EncodeRemAbsEP(e, v, rice, cutoff, maxLog2)
        = IF v < cutoff * p0 THEN EncodeBinsEP(short, r, rice) ELSE EncodeBinsEP(long, tail, width)
  BY Zenon DEF EncodeRemAbsEP, Pow
<1>2. p0 \in {1, 2, 4, 8}
  BY PowerTable
<1>3. q \in Nat /\ r \in Nat /\ (v < cutoff * p0 => q < 5)
  <2>1. v = p0 * q + r /\ q \in Nat /\ r \in Nat
    BY <1>2
  <2> HIDE DEF p0, q, r
  <2> QED
    BY <1>2, <2>1
<1>4. maxP \in 5 .. 15 /\ maxP + cutoff <= 17
  <2>1. cutoff = 0 \/ cutoff = 5
    OBVIOUS
  <2> QED
    BY <2>1
<1>5. p \in 0 .. maxP
  <2>1. code \in Int
    BY <1>3
  <2> HIDE DEF code, maxP
  <2> QED
    BY <2>1, <1>4, PrefixLengthOk
<1> HIDE DEF p0, q, r, p
<1>6. CASE v < cutoff * p0
  <2>1. q + 1 \in 0 .. 31 /\ rice \in 0 .. 31 /\ Pow(q + 1) - 2 \in Int /\ r \in Int
    <3>1. q + 1 \in 0 .. 31
      BY <1>3, <1>6
    <3> QED
      BY <3>1, <1>3, PowerNext
  <2> DEFINE x == Pow(q + 1) - 2
             n == q + 1
  <2> HIDE DEF x, n
  <2>2. EncoderOk(EncodeBinsEP(e, x, n))
    BY <2>1, EncodeBinsEPOk DEF x, n
  <2>3. EncoderOk(short)
    BY <2>2 DEF x, n
  <2> HIDE DEF short
  <2> QED
    BY <2>1, <2>3, <1>1, <1>6, EncodeBinsEPOk
<1>7. CASE ~(v < cutoff * p0)
  <2>1. p + cutoff \in 0 .. 31 /\ p \in 0 .. 31 /\ width \in 0 .. 31
    BY <1>4, <1>5
  <2>2. Pow(p + cutoff) - 1 \in Int /\ Pow(p) \in Int
    BY <2>1, PowerNext
  <2>3. tail \in Int
    BY <1>2, <1>3, <2>2
  <2> DEFINE x == Pow(p + cutoff) - 1
             n == p + cutoff
  <2> HIDE DEF x, n
  <2>4. EncoderOk(EncodeBinsEP(e, x, n))
    BY <2>1, <2>2, EncodeBinsEPOk DEF x, n
  <2>5. EncoderOk(long)
    BY <2>4 DEF x, n
  <2> HIDE DEF long, tail, width
  <2> QED
    BY <2>1, <2>3, <2>5, <1>1, <1>7, EncodeBinsEPOk
<1> QED
  BY <1>6, <1>7

----------------------------------------------------------------------------
(* The end of a substream.                                                 *)

(* The last bits, the stop bit and zeros are one byte or two.              *)
LEMMA AlignedOk ==
  ASSUME NEW n \in 1 .. 12, NEW v \in Nat, v < Pow(n)
  PROVE  Aligned(v, n) \in Seq(Bytes)
<1> DEFINE p == Pow(n)
<1>1. CASE n < 8
  <2> DEFINE r == Pow(7 - n)
             b == (2 * v + 1) * r
  <2>1. n \in 0 .. 32 /\ 7 - n \in 0 .. 8 /\ n + (7 - n) = 7 /\ n + (7 - n) <= 32
    BY <1>1
  <2>2. p \in Nat /\ r \in Nat /\ r >= 1 /\ p * r = 128
    <3>1. p \in Nat /\ r \in Nat /\ r >= 1 /\ p * r = Pow(n + (7 - n))
      BY <2>1, PowerSum, ZenonT(30)
    <3> HIDE DEF p, r
    <3> QED
      BY <2>1, <3>1, PowerTable
  <2>3. Aligned(v, n) = <<b>>
    BY <1>1, Zenon DEF Aligned, Pow
  <2>4. v + 1 <= p
    BY <2>2
  <2> HIDE DEF p, r
  <2>5. (v + 1) * r <= p * r
    BY <2>2, <2>4
  <2>6. (2 * v + 1) * r = 2 * ((v + 1) * r) - r
    BY <2>2
  <2>7. b \in Bytes
    BY <2>2, <2>5, <2>6 DEF Bytes
  <2> HIDE DEF b
  <2> QED
    BY <2>3, <2>7
<1>2. CASE n >= 8
  <2> DEFINE r == Pow(15 - n)
             w == (2 * v + 1) * r
  <2>1. n \in 0 .. 32 /\ 15 - n \in 0 .. 8 /\ n + (15 - n) = 15 /\ n + (15 - n) <= 32
    BY <1>2
  <2>2. p \in Nat /\ r \in Nat /\ r >= 1 /\ p * r = 32768
    <3>1. p \in Nat /\ r \in Nat /\ r >= 1 /\ p * r = Pow(n + (15 - n))
      BY <2>1, PowerSum, ZenonT(30)
    <3> HIDE DEF p, r
    <3> QED
      BY <2>1, <3>1, PowerTable
  <2>3. Aligned(v, n) = <<w \div 256, w % 256>>
    BY <1>2 DEF Aligned, Pow
  <2>4. v + 1 <= p
    BY <2>2
  <2> HIDE DEF p, r
  <2>5. (v + 1) * r <= p * r
    BY <2>2, <2>4
  <2>6. (2 * v + 1) * r = 2 * ((v + 1) * r) - r
    BY <2>2
  <2>7. w \in Nat /\ w < 65536
    BY <2>2, <2>5, <2>6
  <2> HIDE DEF w
  <2>8. w \div 256 \in Bytes /\ w % 256 \in Bytes
    BY <2>7 DEF Bytes
  <2> QED
    BY <2>3, <2>8
<1> QED
  BY <1>1, <1>2

\* what finish() makes of a carry, the held byte and the run behind it
Carries(e) == e.low >= CarryOut(e)
Window(e) == IF Carries(e) THEN e.low - CarryOut(e) ELSE e.low
Settled(e) ==
  IF Carries(e) THEN <<e.bufferedByte + 1>> \o Times(0, e.numBufferedBytes - 1)
  ELSE IF e.numBufferedBytes = 0 THEN << >>
  ELSE <<e.bufferedByte>> \o Times(255, e.numBufferedBytes - 1)

(* The carry finds its byte, and leaves a window of that many bits.        *)
LEMMA SettledOk ==
  ASSUME NEW e, EncoderOk(e)
  PROVE  /\ 24 - e.bitsLeft \in 1 .. 12 /\ Pow(24 - e.bitsLeft) \in Nat
         /\ CarryOut(e) = 256 * Pow(24 - e.bitsLeft)
         /\ Carries(e) => e.numBufferedBytes > 0 /\ e.bufferedByte < 255
         /\ Window(e) \in Nat /\ Window(e) < CarryOut(e)
         /\ Settled(e) \in Seq(Bytes)
<1> DEFINE n == 24 - e.bitsLeft
           c == CarryOut(e)
           p == Pow(n)
<1>1. /\ e \in Encoders /\ InWindow(e) /\ e.bitsLeft \in 12 .. 23
      /\ e.low \in Nat /\ e.range \in Nat /\ 256 <= e.range
      /\ e.bufferedByte \in Nat /\ e.bufferedByte <= 255 /\ e.numBufferedBytes \in Nat
  <2>1. /\ e \in Encoders /\ InWindow(e) /\ e.bitsLeft \in 4 .. 23 /\ e.bitsLeft >= 12
        /\ e.low \in Nat /\ e.range \in Ranges /\ e.bufferedByte \in Bytes /\ e.numBufferedBytes \in Nat
    BY DEF EncoderOk, Sound, Encoders
  <2>2. e.bitsLeft \in 12 .. 23
    BY <2>1
  <2> QED
    BY <2>1, <2>2 DEF Ranges, Bytes
<1>2. n \in 1 .. 12 /\ n + 8 = 32 - e.bitsLeft
  BY <1>1
<1>3. p \in Nat /\ p >= 1 /\ c = 256 * p
  <2>1. n \in 0 .. 32 /\ 8 \in 0 .. 8 /\ n + 8 <= 32
    BY <1>2
  <2>2. p \in Nat /\ p >= 1 /\ Pow(n + 8) = p * Pow(8)
    BY <2>1, PowerSum, ZenonT(30)
  <2>3. c = Pow(n + 8)
    BY <1>2, Zenon DEF CarryOut
  <2> HIDE DEF p, c
  <2> QED
    BY <2>2, <2>3, PowerTable
<1>4. /\ e.numBufferedBytes = 0 => 512 * (e.low + e.range) <= 510 * c
      /\ e.numBufferedBytes > 0 => e.bufferedByte < 255 /\ 8192 * (e.low + e.range) <= 8702 * c
  BY <1>1 DEF InWindow
<1>5. /\ Carries(e) <=> e.low >= c
      /\ Window(e) = IF Carries(e) THEN e.low - c ELSE e.low
  BY DEF Carries, Window
<1> HIDE DEF n, p, c
<1>6. /\ Carries(e) => e.numBufferedBytes > 0 /\ e.bufferedByte < 255
      /\ Window(e) \in Nat /\ Window(e) < c
  BY <1>1, <1>3, <1>4, <1>5
<1>7. Settled(e) \in Seq(Bytes)
  <2>1. 0 \in Bytes /\ 255 \in Bytes /\ e.bufferedByte \in Bytes
    BY <1>1 DEF Bytes
  <2>2. CASE Carries(e)
    <3>1. e.bufferedByte + 1 \in Bytes /\ e.numBufferedBytes - 1 \in Nat
      BY <2>2, <1>1, <1>6 DEF Bytes
    <3>2. <<e.bufferedByte + 1>> \o Times(0, e.numBufferedBytes - 1) \in Seq(Bytes)
      BY <3>1, <2>1, HeldOk
    <3> QED
      BY <3>2, <2>2 DEF Settled
  <2>3. CASE ~Carries(e) /\ e.numBufferedBytes # 0
    <3>1. e.numBufferedBytes - 1 \in Nat
      BY <2>3, <1>1
    <3>2. <<e.bufferedByte>> \o Times(255, e.numBufferedBytes - 1) \in Seq(Bytes)
      BY <3>1, <2>1, HeldOk, ZenonT(40)
    <3> QED
      BY <3>2, <2>3 DEF Settled
  <2>4. CASE ~Carries(e) /\ e.numBufferedBytes = 0
    BY <2>4 DEF Settled
  <2> QED
    BY <2>2, <2>3, <2>4
<1> QED
  BY <1>2, <1>3, <1>6, <1>7 DEF n, p, c

(* finish() writes bytes, with the carry in the held one.                  *)
LEMMA FinishOk ==
  ASSUME NEW e, EncoderOk(e)
  PROVE  /\ Aligned(Window(e) \div 256, 24 - e.bitsLeft) \in Seq(Bytes)
         /\ Window(e) \div 256 \in Nat /\ Window(e) \div 256 < Pow(24 - e.bitsLeft)
         /\ Finish(e) \in Encoders /\ Finish(e).fits
         /\ Finish(e).low = e.low /\ Finish(e).bitsLeft = e.bitsLeft
         /\ Finish(e).bytes = e.bytes \o (Settled(e) \o Aligned(Window(e) \div 256, 24 - e.bitsLeft))
<1> DEFINE n   == 24 - e.bitsLeft
           p   == Pow(n)
           u   == Window(e) \div 256
           bs  == Settled(e) \o Aligned(u, n)
           out == Write(e, bs)
<1>1. e \in Encoders /\ e.fits
  BY DEF EncoderOk, Sound
<1>2. /\ n \in 1 .. 12 /\ n + 8 = 32 - e.bitsLeft /\ p \in Nat /\ CarryOut(e) = 256 * p
      /\ Window(e) \in Nat /\ Window(e) < CarryOut(e) /\ Settled(e) \in Seq(Bytes)
  <2>1. n \in 1 .. 12 /\ p \in Nat /\ CarryOut(e) = 256 * p
    BY SettledOk
  <2>2. n + 8 = 32 - e.bitsLeft
    BY <1>1, SMTT(60) DEF Encoders
  <2> QED
    BY <2>1, <2>2, SettledOk
<1>3. Finish(e) = [out EXCEPT !.fits = out.fits /\ u < p]
  <2> DEFINE c     == Pow(n + 8)
             carry == e.low >= c
             low   == IF carry THEN e.low - c ELSE e.low
             held  == IF carry THEN <<e.bufferedByte + 1>> \o Times(0, e.numBufferedBytes - 1)
                      ELSE IF e.numBufferedBytes = 0 THEN << >>
                      ELSE <<e.bufferedByte>> \o Times(255, e.numBufferedBytes - 1)
             last  == Write(e, held \o Aligned(low \div 256, n))
  <2>1. Finish(e) = [last EXCEPT !.fits = last.fits /\ low \div 256 < p]
    BY DEF Finish, Pow
  <2>2. CarryOut(e) = c
    BY <1>2, Zenon DEF CarryOut
  <2>3. Window(e) = low /\ Settled(e) = held
    BY <2>2, Zenon DEF Window, Settled, Carries
  <2> HIDE DEF low, held
  <2>4. last = out
    BY <2>3
  <2> HIDE DEF last, out
  <2> QED
    BY <2>1, <2>3, <2>4
<1> HIDE DEF n, p
<1>4. u \in Nat /\ u < p
  <2> DEFINE w == Window(e)
  <2>1. w \in Nat /\ w < 256 * p /\ u = w \div 256
    BY <1>2
  <2> HIDE DEF w, u
  <2> QED
    BY <1>2, <2>1
<1> HIDE DEF u
<1>5. Aligned(u, n) \in Seq(Bytes)
  BY <1>2, <1>4, AlignedOk DEF p
<1>6. bs \in Seq(Bytes)
  BY <1>2, <1>5
<1> HIDE DEF bs
<1>7. out = [e EXCEPT !.bytes = e.bytes \o bs] /\ out \in Encoders /\ out.fits
  BY <1>1, <1>6, WriteOk
<1>8. out.low = e.low /\ out.bitsLeft = e.bitsLeft /\ out.bytes = e.bytes \o bs
  <2> HIDE DEF out
  <2> QED
    BY <1>1, <1>7 DEF Encoders
<1> HIDE DEF out
<1>9. Finish(e) = out
  BY <1>3, <1>4, <1>7 DEF Encoders
<1> QED
  BY <1>4, <1>5, <1>7, <1>8, <1>9, ZenonT(40) DEF n, p, u, bs

(* end_of_slice().                                                         *)
LEMMA EndOfSliceOk ==
  ASSUME NEW e, EncoderOk(e)
  PROVE  EndOfSlice(e).fits
<1>1. EncoderOk(EncodeBinTrm(e, 1))
  BY EncodeBinTrmOk DEF Bit
<1> QED
  BY <1>1, FinishOk DEF EndOfSlice

----------------------------------------------------------------------------
(* The encoder of a substream.                                             *)

EncoderInv ==
  /\ symbols \in Alphabets
  /\ encModels \in [DOMAIN Inistate -> Models]
  /\ phase = "encode" => EncoderOk(enc)
  /\ enc.fits

(* Contexts start sound.                                                   *)
LEMMA InitModelsOk == InitModels \in [DOMAIN Inistate -> Models]
<1>1. ASSUME NEW c \in DOMAIN Inistate
      PROVE  InitModel(Inistate[c], WindowSize[c]) \in Models
  <2> DEFINE i == Inistate[c]
             w == WindowSize[c]
  <2>1. i \in 1 .. 127 /\ w \in 0 .. 15 /\ InitModel(1, w).rate1 <= 9
    BY ModelsAssumption
  <2> HIDE DEF i, w
  <2>2. 2 + (w \div 4) \in 2 .. 5 /\ 3 + (2 + (w \div 4)) + (w % 4) \in 5 .. 9
    BY <2>1 DEF InitModel
  <2>3. Kept0(i * 256) \in Estimates /\ Kept1(i * 256) \in Estimates
    BY <2>1 DEF Kept0, Kept1, Estimates
  <2>4. InitModel(i, w) \in Models
    BY <2>2, <2>3 DEF InitModel, Models
  <2> QED
    BY <2>4 DEF i, w
<1> QED
  BY <1>1 DEF InitModels

(* A substream starts with them.                                          *)
LEMMA InitOk == Init => EncoderInv
<1> SUFFICES ASSUME Init PROVE EncoderInv
  OBVIOUS
<1>1. EncoderStart \in Encoders /\ EncoderStart.bitsLeft = 23 /\ EncoderStart.low = 0
      /\ EncoderStart.range = 510 /\ EncoderStart.numBufferedBytes = 0 /\ EncoderStart.fits
  BY DEF EncoderStart, Encoders, Ranges, Bytes
<1>2. CarryOut(EncoderStart) = 512
  BY <1>1, PowerTable DEF CarryOut
<1>3. EncoderOk(EncoderStart)
  BY <1>1, <1>2 DEF EncoderOk, Sound, InWindow
<1> QED
  BY <1>1, <1>3, InitModelsOk DEF Init, EncoderInv

(* A call of the interface keeps the registers sound, and the contexts.    *)
LEMMA EncodeOk ==
  ASSUME EncoderInv, Encode
  PROVE  EncoderInv'
<1>1. PICK s \in symbols : /\ enc' = Encoded(s)
                           /\ encModels' = Learn(encModels, s.kind, s.arg, s.val)
  BY DEF Encode
<1>2. phase = "encode" /\ EncoderOk(enc) /\ symbols \in Alphabets /\ UNCHANGED <<symbols, phase>>
  BY DEF Encode, EncoderInv
<1>3. IsSymbol(s)
  BY <1>1, <1>2, SymbolsAssumption
<1>4. CASE s.kind = "ctx" /\ s.arg[1] \in DOMAIN Inistate /\ s.val \in Bit
  <2> DEFINE c == s.arg[1]
  <2>1. encModels[c] \in Models
    BY <1>4 DEF EncoderInv
  <2>2. Encoded(s) = EncodeBin(enc, encModels[c], s.val)
    BY <1>4 DEF Encoded
  <2>3. EncoderOk(enc')
    BY <1>1, <1>2, <2>1, <2>2, EncodeBinOk
  <2>4. Update(encModels[c], s.val) \in Models
    BY <1>4, <2>1, UpdateOk
  <2>5. encModels' = [encModels EXCEPT ![c] = Update(encModels[c], s.val)]
    BY <1>1, <1>4 DEF Learn
  <2>6. encModels' \in [DOMAIN Inistate -> Models]
    BY <2>4, <2>5 DEF EncoderInv
  <2> QED
    BY <1>2, <2>3, <2>6 DEF EncoderInv, EncoderOk, Sound
<1>5. ASSUME s.kind # "ctx", EncoderOk(enc')
      PROVE  EncoderInv'
  <2>1. encModels' = encModels
    BY <1>1, <1>5 DEF Learn
  <2> QED
    BY <1>2, <1>5, <2>1 DEF EncoderInv, EncoderOk, Sound
<1>6. CASE s.kind = "ep" /\ s.val \in Bit
  <2>1. Encoded(s) = PutEP(enc, s.val, 1)
    BY <1>6 DEF Encoded, EncodeBinEP
  <2>2. s.val \in Nat /\ s.val < Pow(1) /\ 1 \in 0 .. 8
    BY <1>6, PowerTable DEF Bit
  <2>3. EncoderOk(enc')
    BY <1>1, <1>2, <2>1, <2>2, PutEPOk
  <2> QED
    BY <1>5, <1>6, <2>3
<1>7. CASE s.kind = "eps" /\ s.arg[1] \in 1 .. 30 /\ s.val \in 0 .. 2^s.arg[1] - 1
  <2> DEFINE n == s.arg[1]
  <2>1. Encoded(s) = EncodeBinsEP(enc, s.val, n)
    BY <1>7 DEF Encoded
  <2>2. s.val \in Int /\ n \in 0 .. 31
    <3>1. s.val \in 0 .. Pow(n) - 1 /\ n \in 0 .. 31
      BY <1>7 DEF Pow
    <3> QED
      BY <3>1, PowerNext
  <2>3. EncoderOk(enc')
    BY <1>1, <1>2, <2>1, <2>2, EncodeBinsEPOk
  <2> QED
    BY <1>5, <1>7, <2>3
<1>8. CASE /\ s.kind = "rem" /\ s.arg[1] \in 0 .. 3 /\ s.val \in 0 .. 2^s.arg[3]
           /\ <<s.arg[2], s.arg[3]>> \in {<<5, m>> : m \in 15 .. 22} \cup {<<0, 17>>}
  <2> DEFINE cutoff == s.arg[2]
             max    == s.arg[3]
  <2>1. Encoded(s) = EncodeRemAbsEP(enc, s.val, s.arg[1], cutoff, max)
    BY <1>8 DEF Encoded
  <2>2. cutoff \in {0, 5} /\ max \in 15 .. 22 /\ (cutoff = 0 => max = 17)
    BY <1>8
  <2>3. s.val \in Nat
    <3>1. s.val \in 0 .. Pow(max) /\ max \in 0 .. 31
      BY <1>8, <2>2 DEF Pow
    <3> QED
      BY <3>1, PowerNext
  <2>4. EncoderOk(enc')
    BY <1>1, <1>2, <1>8, <2>1, <2>2, <2>3, EncodeRemAbsEPOk
  <2> QED
    BY <1>5, <1>8, <2>4
<1>9. CASE s.kind = "trm" /\ s.val = 0
  <2>1. Encoded(s) = EncodeBinTrm(enc, 0)
    BY <1>9 DEF Encoded
  <2>2. EncoderOk(enc')
    BY <1>1, <1>2, <2>1, EncodeBinTrmOk DEF Bit
  <2> QED
    BY <1>5, <1>9, <2>2
<1> QED
  BY <1>3, <1>4, <1>6, <1>7, <1>8, <1>9 DEF IsSymbol

(* Every step keeps them.                                                  *)
LEMMA EncoderInvStep ==
  ASSUME EncoderInv, [Next]_vars
  PROVE  EncoderInv'
<1>1. CASE Encode
  BY <1>1, EncodeOk
<1>2. CASE Close
  <2>1. EncoderOk(enc) /\ enc' = EndOfSlice(enc) /\ phase' = "decode" /\ UNCHANGED <<symbols, encModels>>
    BY <1>2 DEF Close, EncoderInv
  <2> QED
    BY <2>1, EndOfSliceOk DEF EncoderInv
<1>3. CASE Decode
  BY <1>3 DEF Decode, EncoderInv
<1>4. CASE Terminate
  BY <1>4 DEF Terminate, EncoderInv
<1>5. CASE UNCHANGED vars
  BY <1>5 DEF vars, EncoderInv
<1> QED
  BY <1>1, <1>2, <1>3, <1>4, <1>5 DEF Next

(* A carry is below twice the window, and beyond it only once a byte is    *)
(* held.                                                                   *)
LEMMA CarryHasAByteOk == EncoderInv => CarryHasAByte
<1> SUFFICES ASSUME EncoderInv PROVE CarryHasAByte
  OBVIOUS
<1>1. ASSUME phase = "encode", enc.low >= Pow(32 - enc.bitsLeft)
      PROVE  enc.numBufferedBytes > 0 /\ enc.bufferedByte < 255
  <2>1. /\ InWindow(enc) /\ enc.bitsLeft \in 4 .. 23 /\ enc.low \in Nat
        /\ enc.range \in Ranges /\ enc.numBufferedBytes \in Nat
    BY <1>1 DEF EncoderInv, EncoderOk, Sound, Encoders
  <2>2. CarryOut(enc) \in Nat
    <3>1. 32 - enc.bitsLeft \in 0 .. 31
      BY <2>1
    <3> QED
      BY <3>1, PowerNext DEF CarryOut
  <2>3. CASE enc.numBufferedBytes = 0
    BY <1>1, <2>1, <2>2, <2>3 DEF InWindow, CarryOut, Ranges
  <2> QED
    BY <2>1, <2>3 DEF InWindow
<1> QED
  BY <1>1 DEF CarryHasAByte, EncoderInv, Pow

(* A carry out of the encoder's window always finds a held byte that is    *)
(* not 0xff, and no value is written that is wider than its bits, at the   *)
(* end of the substream as well: for any contexts, any calls and any       *)
(* values.                                                                 *)
THEOREM CarryHasAByteAlways == Spec => []CarryHasAByte
<1>1. Spec => []EncoderInv
  BY InitOk, EncoderInvStep, PTL DEF Spec
<1> QED
  BY <1>1, CarryHasAByteOk, PTL

----------------------------------------------------------------------------
(* What is coded as an interval of numbers, whatever their size.           *)

\* An interval holds the numbers that a coded substream can begin with, of the
\* given number of bits.
Spans == [low : Nat, range : Nat, bits : Nat]
Whole == [low |-> 0, range |-> 510, bits |-> 9]

\* a part of it, n bits finer
Part(iv, n, offset, range) ==
  [low |-> iv.low * Pow(n) + offset, range |-> range, bits |-> iv.bits + n]

\* the bytes that hold so many bits, and the bits of the last that go beyond
BytesFor(bits) == (bits + 7) \div 8
Ahead(bits) == 8 * BytesFor(bits) - bits

\* the number that the first k bytes are
Numbers(v, data) ==
  /\ v \in [0 .. Len(data) -> Nat] /\ v[0] = 0
  /\ \A k \in 0 .. Len(data) - 1 : v[k + 1] = 256 * v[k] + data[k + 1]

\* the bytes begin with a number in the interval
Starts(v, size, iv) ==
  LET k == BytesFor(iv.bits)
      p == Pow(Ahead(iv.bits))
  IN k <= size /\ iv.low * p <= v[k] /\ v[k] < (iv.low + iv.range) * p

(* At most eight bits take at most one byte more.                          *)
LEMMA BytesNext ==
  ASSUME NEW bits \in Nat, NEW n \in 0 .. 8
  PROVE  /\ BytesFor(bits) \in Nat /\ Ahead(bits) \in 0 .. 7 /\ 8 * BytesFor(bits) = bits + Ahead(bits)
         /\ n <= Ahead(bits) => /\ BytesFor(bits + n) = BytesFor(bits)
                                /\ Ahead(bits + n) = Ahead(bits) - n
         /\ n > Ahead(bits) => /\ BytesFor(bits + n) = BytesFor(bits) + 1
                               /\ Ahead(bits + n) = Ahead(bits) + 8 - n
  BY DEF BytesFor, Ahead

(* What holds a part of an interval holds the interval.                    *)
LEMMA WholeStarts ==
  ASSUME NEW iv \in Spans, NEW data \in Seq(Bytes), NEW v, Numbers(v, data),
         NEW n \in 0 .. 8, NEW offset \in Nat, NEW range \in Nat, offset + range <= iv.range * Pow(n),
         Starts(v, Len(data), Part(iv, n, offset, range))
  PROVE  Starts(v, Len(data), iv)
<1> DEFINE b  == iv.bits
           k  == BytesFor(b)
           a  == Ahead(b)
           k2 == BytesFor(b + n)
           a2 == Ahead(b + n)
           lo == iv.low
           hi == iv.low + iv.range
           lo2 == lo * Pow(n) + offset
           hi2 == lo2 + range
<1>1. /\ b \in Nat /\ lo \in Nat /\ hi \in Nat /\ iv.range \in Nat
  BY DEF Spans
<1>2. /\ k \in Nat /\ a \in 0 .. 7
      /\ n <= a => k2 = k /\ a2 = a - n
      /\ n > a => k2 = k + 1 /\ a2 = a + 8 - n
  BY <1>1, BytesNext
<1>3. k2 <= Len(data) /\ lo2 * Pow(a2) <= v[k2] /\ v[k2] < hi2 * Pow(a2)
  BY DEF Starts, Part
<1>6. v \in [0 .. Len(data) -> Nat] /\ \A i \in 0 .. Len(data) - 1 : v[i + 1] = 256 * v[i] + data[i + 1]
  BY DEF Numbers
<1>7. Starts(v, Len(data), iv) <=> k <= Len(data) /\ lo * Pow(a) <= v[k] /\ v[k] < hi * Pow(a)
  BY DEF Starts
<1> HIDE DEF k, a, k2, a2, lo, hi, b
<1>4. Pow(n) \in Nat /\ Pow(a2) \in Nat /\ Pow(a) \in Nat /\ Pow(n) * Pow(a2) = Pow(n + a2)
      /\ Pow(a + 8) = 256 * Pow(a)
  <2>1. a2 \in 0 .. 8 /\ n \in 0 .. 32 /\ n + a2 <= 32 /\ a \in 0 .. 32 /\ a + 8 <= 32 /\ 8 \in 0 .. 8
    <3>1. a2 \in 0 .. 8
      <4>1. CASE n <= a
        BY <1>2, <4>1
      <4>2. CASE n > a
        BY <1>2, <4>2
      <4> QED
        BY <1>2, <4>1, <4>2
    <3> QED
      BY <1>2, <3>1
  <2>2. Pow(n) \in Nat /\ Pow(a2) \in Nat /\ Pow(n + a2) = Pow(n) * Pow(a2)
    BY <2>1, PowerSum, ZenonT(30)
  <2>3. Pow(a) \in Nat /\ Pow(a + 8) = Pow(a) * Pow(8)
    BY <2>1, PowerSum, ZenonT(30)
  <2>4. Pow(8) = 256
    BY PowerTable
  <2> QED
    BY <2>2, <2>3, <2>4
<1>5. lo2 \in Nat /\ hi2 \in Nat /\ lo * Pow(n) <= lo2 /\ hi2 <= hi * Pow(n)
  <2> DEFINE r == iv.range
             c == Pow(n)
  <2>1. c \in Nat /\ r \in Nat /\ hi = lo + r /\ offset + range <= r * c /\ lo2 = lo * c + offset
    BY <1>1, <1>4 DEF hi, lo
  <2> HIDE DEF r, c, lo2
  <2>2. hi * c = lo * c + r * c /\ lo * c \in Nat
    BY <2>1, <1>1
  <2>3. lo2 \in Nat /\ lo2 + range \in Nat /\ lo * c <= lo2 /\ lo2 + range <= hi * c
    BY <2>1, <2>2, <1>1
  <2> QED
    BY <2>3 DEF c
<1> DEFINE p == Pow(n)
           q == Pow(a2)
<1> HIDE DEF lo2, hi2, p, q
<1>8. (lo * p) * q <= v[k2] /\ v[k2] < (hi * p) * q /\ p \in Nat /\ q \in Nat
  <2>1. lo * p \in Nat /\ hi * p \in Nat /\ p \in Nat /\ q \in Nat /\ lo * p <= lo2 /\ hi2 <= hi * p
    <3>1. p \in Nat /\ q \in Nat /\ lo * p <= lo2 /\ hi2 <= hi * p
      BY <1>4, <1>5 DEF p, q
    <3>2. lo * p \in Nat /\ hi * p \in Nat
      BY <3>1, <1>1
    <3> QED
      BY <3>1, <3>2
  <2>2. (lo * p) * q <= lo2 * q /\ hi2 * q <= (hi * p) * q
    BY <2>1, <1>5, SMTT(30)
  <2>3. k2 \in 0 .. Len(data)
    BY <1>2, <1>3
  <2>4. v[k2] \in Nat
    BY <2>3, <1>6
  <2>5. (lo * p) * q \in Nat /\ (hi * p) * q \in Nat /\ lo2 * q \in Nat /\ hi2 * q \in Nat
    BY <2>1, <1>5, SMTT(30)
  <2> QED
    BY <1>3, <2>1, <2>2, <2>4, <2>5, SMTT(30) DEF q
<1>9. lo * (p * q) <= v[k2] /\ v[k2] < hi * (p * q)
  BY <1>1, <1>8
<1>10. CASE n <= a
  <2>1. n + a2 = a /\ k2 = k
    BY <1>2, <1>10
  <2>2. p * q = Pow(a)
    BY <2>1, <1>4 DEF p, q
  <2> QED
    BY <2>1, <2>2, <1>3, <1>7, <1>9
<1>11. CASE n > a
  <2>1. n + a2 = a + 8 /\ k2 = k + 1
    BY <1>2, <1>11
  <2>2. p * q = 256 * Pow(a)
    BY <2>1, <1>4 DEF p, q
  <2>3. k \in 0 .. Len(data) - 1 /\ k \in 0 .. Len(data) /\ k + 1 \in 1 .. Len(data)
    BY <2>1, <1>2, <1>3
  <2>4. v[k2] = 256 * v[k] + data[k + 1] /\ v[k] \in Nat
    BY <2>1, <2>3, <1>6, ZenonT(40)
  <2>5. data[k + 1] \in Bytes
    BY <2>3
  <2> DEFINE x == lo * Pow(a)
             y == hi * Pow(a)
  <2>6. x \in Nat /\ y \in Nat /\ lo * (256 * Pow(a)) = 256 * x /\ hi * (256 * Pow(a)) = 256 * y
    <3> DEFINE w == Pow(a)
    <3>1. w \in Nat
      BY <1>4
    <3> HIDE DEF w
    <3>2. lo * w \in Nat /\ lo * (256 * w) = 256 * (lo * w)
      BY <1>1, <3>1
    <3>3. hi * w \in Nat /\ hi * (256 * w) = 256 * (hi * w)
      BY <1>1, <3>1
    <3> QED
      BY <3>2, <3>3 DEF w
  <2> HIDE DEF x, y
  <2>7. x <= v[k] /\ v[k] < y
    BY <2>2, <2>4, <2>5, <2>6, <1>9, SMTT(60) DEF Bytes
  <2> QED
    BY <2>3, <2>7, <1>7 DEF x, y
<1> QED
  BY <1>2, <1>10, <1>11

----------------------------------------------------------------------------
(* The registers of the encoder stand for an interval.                     *)

\* the bytes that have left the window: written, held or counted
Given(e) == Len(e.bytes) + e.numBufferedBytes

\* the number they are
Stands(v, e) ==
  LET n == Len(e.bytes)
  IN /\ v \in [0 .. Given(e) -> Nat] /\ v[0] = 0
     /\ \A k \in 0 .. n - 1 : v[k + 1] = 256 * v[k] + e.bytes[k + 1]
     /\ e.numBufferedBytes > 0 => v[n + 1] = 256 * v[n] + e.bufferedByte
     /\ \A k \in n + 1 .. Given(e) - 1 : v[k + 1] = 256 * v[k] + 255
     /\ e.numBufferedBytes = 0 => n = 0

\* behind them comes the window
Represents(e, v, iv) ==
  /\ Stands(v, e)
  /\ iv.low = v[Given(e)] * CarryOut(e) + e.low
  /\ iv.range = e.range
  /\ iv.bits = 8 * Given(e) + 32 - e.bitsLeft

(* What leads the window that a byte leaves.                               *)
LEMMA LeadOk ==
  ASSUME NEW e, Sound(e), e.bitsLeft < 12
  PROVE  LET d    == Pow(24 - e.bitsLeft)
             lead == e.low \div d
             rest == e.low % d
         IN /\ d \in Nat /\ CarryOut(e) = 256 * d /\ Pow(32 - (e.bitsLeft + 8)) = d
            /\ lead \in Nat /\ rest \in Nat /\ e.low = d * lead + rest
            /\ lead < 272
            /\ e.numBufferedBytes = 0 => lead < 255
<1> DEFINE d    == Pow(24 - e.bitsLeft)
           low  == e.low
           lead == low \div d
           rest == low % d
<1>1. /\ e.low \in Nat /\ e.range \in Nat /\ 256 <= e.range /\ e.bitsLeft \in 4 .. 11 /\ InWindow(e)
      /\ e.numBufferedBytes \in Nat
  BY SMTT(60) DEF Sound, Encoders, Ranges
<1>2. d \in Nat /\ d >= 8192 /\ CarryOut(e) = 256 * d /\ Pow(32 - (e.bitsLeft + 8)) = d
  BY <1>1, WindowLeft DEF CarryOut
<1>3. /\ e.numBufferedBytes = 0 => 512 * (e.low + e.range) <= 510 * (256 * d)
      /\ e.numBufferedBytes > 0 => 8192 * (e.low + e.range) <= 8702 * (256 * d)
  BY <1>1, <1>2 DEF InWindow
<1>3a. d \in Nat /\ d >= 1 /\ low \in Nat
  BY <1>1, <1>2
<1>3b. lead = low \div d /\ rest = low % d
  OBVIOUS
<1> HIDE DEF d, low, lead, rest
<1>4. /\ lead \in Nat /\ rest \in Nat /\ low = d * lead + rest
      /\ \A k \in Nat : low < k * d => lead < k
  <2>1. lead \in Nat /\ rest \in Nat
    BY <1>3a, <1>3b, LeadAndRest, ZenonT(30)
  <2>2. low = d * lead + rest
    BY <1>3a, <1>3b
  <2>3. \A k \in Nat : low < k * d => lead < k
    BY <1>3a, <1>3b, LeadAndRest, ZenonT(30)
  <2> QED
    BY <2>1, <2>2, <2>3
<1>5. /\ low < 255 * d => lead < 255
      /\ low < 272 * d => lead < 272
  BY <1>4
<1>6. /\ e.numBufferedBytes = 0 => low < 255 * d
      /\ low < 272 * d
  BY <1>1, <1>2, <1>3 DEF low
<1>7. lead < 272 /\ (e.numBufferedBytes = 0 => lead < 255)
  <2>1. lead \in Nat
    BY <1>4
  <2> QED
    BY <2>1, <1>5, <1>6
<1> QED
  BY <1>2, <1>4, <1>7 DEF d, lead, rest, low

\* bytes, another and a run behind it
IsRun(all, bytes, b, c, n) ==
  /\ all \in Seq(Bytes) /\ Len(all) = Len(bytes) + n + 1
  /\ \A k \in 0 .. Len(bytes) - 1 : all[k + 1] = bytes[k + 1]
  /\ all[Len(bytes) + 1] = b
  /\ \A k \in Len(bytes) + 1 .. Len(bytes) + n : all[k + 1] = c

(* The held byte and the run behind it.                                    *)
LEMMA HeldRun ==
  ASSUME NEW b \in Bytes, NEW c \in Bytes, NEW n \in Nat, NEW bytes \in Seq(Bytes)
  PROVE  IsRun(bytes \o (<<b>> \o Times(c, n)), bytes, b, c, n)
<1> DEFINE t   == Times(c, n)
           s   == <<b>> \o t
           all == bytes \o s
<1>1. t \in Seq(Bytes) /\ Len(t) = n /\ \A i \in 1 .. n : t[i] = c
  BY DEF Times
<1> HIDE DEF t
<1>2. s \in Seq(Bytes) /\ Len(s) = n + 1 /\ s[1] = b /\ \A i \in 1 .. n : s[i + 1] = c
  <2>1. s \in Seq(Bytes) /\ Len(s) = n + 1 /\ s[1] = b
    BY <1>1
  <2>2. \A i \in 1 .. n : s[i + 1] = t[i]
    BY <1>1
  <2> QED
    BY <2>1, <2>2, <1>1
<1> HIDE DEF s
<1>3. all = bytes \o s
  OBVIOUS
<1> HIDE DEF all
<1>4. all \in Seq(Bytes) /\ Len(all) = Len(bytes) + (n + 1)
  <2>1. s \in Seq(Bytes) /\ Len(s) = n + 1
    BY <1>2
  <2>2. bytes \o s \in Seq(Bytes) /\ Len(bytes \o s) = Len(bytes) + Len(s)
    <3>1. bytes \in Seq(Bytes)
      OBVIOUS
    <3>2. bytes \o s \in Seq(Bytes)
      BY <2>1, <3>1
    <3>3. Len(bytes \o s) = Len(bytes) + Len(s)
      BY <2>1, <3>1, ConcatProperties, ZenonT(30)
    <3> QED
      BY <3>2, <3>3
  <2> QED
    BY <2>1, <2>2, <1>3
<1>5. \A k \in 1 .. Len(bytes) : all[k] = bytes[k]
  BY <1>2, <1>3
<1>6. \A k \in 1 .. n + 1 : all[Len(bytes) + k] = s[k]
  BY <1>2, <1>3
<1>7. ASSUME NEW k \in Len(bytes) + 1 .. Len(bytes) + n
      PROVE  all[k + 1] = c
  <2>1. PICK i \in 1 .. n : k = Len(bytes) + i
    <3>1. k - Len(bytes) \in 1 .. n /\ k = Len(bytes) + (k - Len(bytes))
      OBVIOUS
    <3> QED
      BY <3>1
  <2>2. i + 1 \in 1 .. n + 1 /\ k + 1 = Len(bytes) + (i + 1)
    BY <2>1
  <2>3. all[k + 1] = s[i + 1]
    BY <2>2, <1>6
  <2> QED
    BY <2>3, <1>2
<1>8. \A k \in 0 .. Len(bytes) - 1 : all[k + 1] = bytes[k + 1]
  <2>1. \A k \in 0 .. Len(bytes) - 1 : k + 1 \in 1 .. Len(bytes)
    OBVIOUS
  <2> QED
    BY <2>1, <1>5
<1>9. all[Len(bytes) + 1] = b
  BY <1>2, <1>6
<1>10. Len(all) = Len(bytes) + n + 1
  <2>1. Len(bytes) \in Nat
    OBVIOUS
  <2> QED
    BY <2>1, <1>4
<1>11. IsRun(all, bytes, b, c, n)
  BY <1>4, <1>7, <1>8, <1>9, <1>10 DEF IsRun
<1> QED
  BY <1>11 DEF all, s, t

(* writeOut: the interval stays.                                           *)
LEMMA WriteOutKeeps ==
  ASSUME NEW e, Sound(e), e.bitsLeft < 12, NEW iv \in Spans, NEW v, Represents(e, v, iv)
  PROVE  \E w : Represents(WriteOut(e), w, iv)
<1> DEFINE d    == Pow(24 - e.bitsLeft)
           lead == e.low \div d
           rest == e.low % d
           kept == [e EXCEPT !.low = rest, !.bitsLeft = e.bitsLeft + 8]
           n    == Len(e.bytes)
           num  == e.numBufferedBytes
           size == n + num
<1>1. /\ e \in Encoders /\ e.fits /\ e.low \in Nat /\ e.bitsLeft \in 4 .. 11 /\ e.bufferedByte \in Bytes
      /\ num \in Nat /\ e.bytes \in Seq(Bytes) /\ n \in Nat /\ size \in Nat
      /\ num > 0 => e.bufferedByte < 255
  <2>1. e \in Encoders
    BY DEF Sound, InWindow
  <2>2. /\ e.low \in Nat /\ e.bitsLeft \in 4 .. 23 /\ e.bufferedByte \in Bytes /\ num \in Nat
        /\ e.bytes \in Seq(Bytes)
    BY <2>1 DEF Encoders
  <2>3. n \in Nat
    BY <2>2
  <2>4. e.bitsLeft \in 4 .. 11
    <3> DEFINE left == e.bitsLeft
    <3>1. left \in 4 .. 23 /\ left < 12
      BY <2>2
    <3>2. left \in 4 .. 11
      <4> HIDE DEF left
      <4> QED
        BY <3>1
    <3> QED
      BY <3>2
  <2>4a. size \in Nat
    <3> HIDE DEF n, num
    <3> QED
      BY <2>2, <2>3
  <2>5. e.fits /\ (num > 0 => e.bufferedByte < 255)
    BY DEF Sound, InWindow
  <2> QED
    BY <2>1, <2>2, <2>3, <2>4, <2>4a, <2>5
<1>1a. e.bitsLeft + 8 \in 4 .. 23 /\ e.bitsLeft \in Nat
  BY <1>1, SMTT(30)
<1>2. /\ d \in Nat /\ CarryOut(e) = 256 * d /\ Pow(32 - (e.bitsLeft + 8)) = d
      /\ lead \in Nat /\ rest \in Nat /\ e.low = d * lead + rest
      /\ lead < 272
      /\ num = 0 => lead < 255
  BY LeadOk
<1>3. /\ v \in [0 .. size -> Nat] /\ v[0] = 0
      /\ \A k \in 0 .. n - 1 : v[k + 1] = 256 * v[k] + e.bytes[k + 1]
      /\ num > 0 => v[n + 1] = 256 * v[n] + e.bufferedByte
      /\ \A k \in n + 1 .. size - 1 : v[k + 1] = 256 * v[k] + 255
      /\ num = 0 => n = 0
      /\ iv.low = v[size] * CarryOut(e) + e.low /\ iv.range = e.range
      /\ iv.bits = 8 * size + 32 - e.bitsLeft
  BY DEF Represents, Stands, Given
<1>3a. size \in 0 .. size /\ n \in 0 .. size /\ n \in Nat /\ size \in Nat /\ size = n + num /\ size + 1 \in Nat
  <2>1. n \in Nat /\ num \in Nat /\ size = n + num
    BY <1>1
  <2> HIDE DEF n, num, size
  <2> QED
    BY <2>1
<1>4. v[size] \in Nat /\ v[n] \in Nat /\ \A k \in 0 .. size : v[k] \in Nat
  <2> HIDE DEF size, n
  <2> QED
    BY <1>3, <1>3a, ZenonT(40)
<1>5. WriteOut(e) = IF lead = 255 THEN [kept EXCEPT !.numBufferedBytes = num + 1]
                    ELSE IF num > 0
                    THEN Write([kept EXCEPT !.bufferedByte = lead % 256, !.numBufferedBytes = 1],
                               <<e.bufferedByte + (lead \div 256)>>
                                 \o Times((255 + (lead \div 256)) % 256, num - 1))
                    ELSE [kept EXCEPT !.bufferedByte = lead, !.numBufferedBytes = 1]
  BY DEF WriteOut, Pow
<1> HIDE DEF d, lead, rest
<1>6. /\ kept \in Encoders /\ kept.fits /\ kept.low = rest /\ kept.range = e.range /\ kept.bytes = e.bytes
      /\ kept.bitsLeft = e.bitsLeft + 8 /\ kept.bufferedByte = e.bufferedByte
  BY <1>1, <1>1a, <1>2, ZenonT(40) DEF Encoders
<1> HIDE DEF kept, n, num, size
<1>7. ASSUME NEW f, f.low = rest, f.range = e.range, f.bitsLeft = e.bitsLeft + 8,
             Len(f.bytes) + f.numBufferedBytes = size + 1, NEW w, Stands(w, f), w[size + 1] = 256 * v[size] + lead
      PROVE  \E w1 : Represents(f, w1, iv)
  <2>1. CarryOut(f) = d /\ Given(f) = size + 1
    BY <1>2, <1>7 DEF CarryOut, Given
  <2>2. iv.low = w[size + 1] * d + rest
    <3>1. (256 * v[size] + lead) * d = v[size] * (256 * d) + d * lead
      BY <1>2, <1>4
    <3>2. v[size] * (256 * d) \in Nat /\ d * lead \in Nat
      BY <1>2, <1>4
    <3> QED
      BY <3>1, <3>2, <1>2, <1>3, <1>7
  <2>3. iv.bits = 8 * (size + 1) + 32 - f.bitsLeft
    BY <1>1a, <1>3, <1>3a, <1>7, SMTT(30)
  <2>4. Represents(f, w, iv)
    BY <2>1, <2>2, <2>3, <1>3, <1>7 DEF Represents
  <2> QED
    BY <2>4
<1>8. CASE lead = 255
  <2> DEFINE f == [kept EXCEPT !.numBufferedBytes = num + 1]
             w == [k \in 0 .. size + 1 |-> IF k <= size THEN v[k] ELSE 256 * v[size] + 255]
  <2>1. /\ f.low = rest /\ f.range = e.range /\ f.bitsLeft = e.bitsLeft + 8 /\ f.bytes = e.bytes
        /\ f.bufferedByte = e.bufferedByte /\ f.numBufferedBytes = num + 1
    BY <1>6 DEF Encoders
  <2> HIDE DEF f
  <2>2. num > 0
    BY <1>1, <1>2, <1>8
  <2>3. /\ w \in [0 .. size + 1 -> Nat] /\ w[size + 1] = 256 * v[size] + 255
        /\ \A k \in 0 .. size : w[k] = v[k]
    BY <1>1, <1>4, SMTT(30)
  <2> HIDE DEF w
  <2>4. w[0] = 0 /\ \A k \in 0 .. n - 1 : w[k + 1] = 256 * w[k] + e.bytes[k + 1]
    BY <2>3, <1>1, <1>3, SMTT(30) DEF size
  <2>5. w[n + 1] = 256 * w[n] + e.bufferedByte
    BY <2>2, <2>3, <1>1, <1>3 DEF size
  <2>6. \A k \in n + 1 .. (size + 1) - 1 : w[k + 1] = 256 * w[k] + 255
    <3>1. ASSUME NEW k \in n + 1 .. size
          PROVE  w[k + 1] = 256 * w[k] + 255
      <4>1. CASE k = size
        BY <4>1, <2>3, <1>3a
      <4>2. CASE k # size
        <5>1. k \in n + 1 .. size - 1 /\ k \in 0 .. size /\ k + 1 \in 0 .. size
          BY <4>2, <1>3a
        <5> QED
          BY <5>1, <2>3, <1>3
      <4> QED
        BY <4>1, <4>2
    <3>2. (size + 1) - 1 = size
      BY <1>3a
    <3> QED
      BY <3>1, <3>2
  <2>7. Given(f) = size + 1 /\ Len(f.bytes) = n
    <3>1. Given(f) = n + (num + 1) /\ Len(f.bytes) = n
      BY <2>1 DEF Given, n
    <3>2. n + (num + 1) = size + 1
      BY <1>1, <1>3a
    <3> QED
      BY <3>1, <3>2, Zenon
  <2>8. f.numBufferedBytes # 0
    BY <2>1, <1>1
  <2>9. Stands(w, f)
    BY <2>1, <2>3, <2>4, <2>5, <2>6, <2>7, <2>8 DEF Stands
  <2>10. \E w1 : Represents(f, w1, iv)
    BY <2>1, <2>3, <2>7, <2>9, <1>7, <1>8 DEF Given
  <2> QED
    BY <2>10, <1>5, <1>8 DEF f
<1>9. CASE lead # 255 /\ num > 0
  <2> DEFINE c  == lead \div 256
             x  == (255 + c) % 256
             g  == [kept EXCEPT !.bufferedByte = lead % 256, !.numBufferedBytes = 1]
             bs == <<e.bufferedByte + c>> \o Times(x, num - 1)
             f  == Write(g, bs)
             w  == [k \in 0 .. size + 1 |-> IF k <= n THEN v[k] ELSE IF k <= size THEN v[k] + c
                                            ELSE 256 * v[size] + lead]
  <2>1. WriteOut(e) = f
    BY <1>5, <1>9, Zenon
  <2>2. (c = 0 /\ x = 255 /\ lead % 256 = lead) \/ (c = 1 /\ x = 0 /\ lead % 256 = lead - 256)
    BY <1>2
  <2>2a. lead % 256 \in Bytes
    BY <1>2 DEF Bytes
  <2> HIDE DEF c, x
  <2>3. e.bufferedByte + c \in Bytes /\ x \in Bytes /\ num - 1 \in Nat
    BY <2>2, <1>1, <1>9 DEF Bytes
  <2>4. bs \in Seq(Bytes)
    BY <2>3, HeldOk
  <2>5. /\ g \in Encoders /\ g.fits /\ g.low = rest /\ g.range = e.range /\ g.bytes = e.bytes
        /\ g.bitsLeft = e.bitsLeft + 8 /\ g.numBufferedBytes = 1 /\ g.bufferedByte = lead % 256
    <3>1. g \in Encoders
      BY <2>2a, <1>6, HoldOk, ZenonT(40)
    <3> QED
      BY <3>1, <1>6 DEF Encoders
  <2> HIDE DEF g
  <2>6. f = [g EXCEPT !.bytes = g.bytes \o bs]
    BY <2>4, <2>5, WriteOk
  <2>7. /\ f.low = rest /\ f.range = e.range /\ f.bytes = e.bytes \o bs
        /\ f.bitsLeft = e.bitsLeft + 8 /\ f.numBufferedBytes = 1 /\ f.bufferedByte = lead % 256
    <3> HIDE DEF bs, f
    <3> QED
      BY <2>5, <2>6 DEF Encoders
  <2> HIDE DEF f
  <2> DEFINE all == e.bytes \o bs
  <2>8. /\ Len(all) = size
        /\ \A k \in 0 .. n - 1 : all[k + 1] = e.bytes[k + 1]
        /\ all[n + 1] = e.bufferedByte + c
        /\ \A k \in n + 1 .. size - 1 : all[k + 1] = x
    <3>1. /\ Len(all) = n + (num - 1) + 1
          /\ \A k \in 0 .. n - 1 : all[k + 1] = e.bytes[k + 1]
          /\ all[n + 1] = e.bufferedByte + c
          /\ \A k \in n + 1 .. n + (num - 1) : all[k + 1] = x
      <4> DEFINE y     == e.bufferedByte + c
                 j     == num - 1
                 bytes == e.bytes
      <4>1. y \in Bytes /\ j \in Nat /\ bytes \in Seq(Bytes)
        BY <2>3, <1>1
      <4> HIDE DEF y, j, bytes
      <4> DEFINE run == bytes \o (<<y>> \o Times(x, j))
      <4>2. IsRun(run, bytes, y, x, j)
        BY <4>1, <2>3, HeldRun
      <4>3. run = all
        BY DEF y, j, bytes
      <4> HIDE DEF run, all
      <4> QED
        BY <4>2, <4>3 DEF IsRun, n, y, j, bytes
    <3> HIDE DEF all
    <3> QED
      BY <3>1, <1>1 DEF size
  <2> HIDE DEF all, bs
  <2>9. /\ w \in [0 .. size + 1 -> Nat] /\ w[size + 1] = 256 * v[size] + lead
        /\ \A k \in 0 .. n : w[k] = v[k]
        /\ \A k \in n + 1 .. size : w[k] = v[k] + c
    <3>1. size > n
      BY <1>1, <1>9 DEF size
    <3>2. c \in Nat /\ lead \in Nat /\ \A k \in 0 .. size : v[k] \in Nat
      BY <2>2, <1>2, <1>4
    <3>3. w \in [0 .. size + 1 -> Nat]
      BY <3>1, <3>2, <1>3a
    <3>4. \A k \in 0 .. size + 1 : w[k] = IF k <= n THEN v[k] ELSE IF k <= size THEN v[k] + c
                                            ELSE 256 * v[size] + lead
      OBVIOUS
    <3> HIDE DEF w
    <3> QED
      BY <3>1, <3>3, <3>4, <1>3a
  <2> HIDE DEF w
  <2>10. w[0] = 0 /\ \A k \in 0 .. n - 1 : w[k + 1] = 256 * w[k] + all[k + 1]
    BY <2>8, <2>9, <1>1, <1>3, SMTT(60)
  <2>11. w[n + 1] = 256 * w[n] + all[n + 1]
    <3>1. n + 1 \in n + 1 .. size /\ n \in 0 .. n
      BY <1>1, <1>9 DEF size
    <3> QED
      <4>1. w[n + 1] = v[n + 1] + c /\ w[n] = v[n] /\ v[n + 1] = 256 * v[n] + e.bufferedByte
            /\ all[n + 1] = e.bufferedByte + c
        BY <3>1, <2>8, <2>9, <1>3, <1>9, SMTT(30)
      <4>2. v[n] \in Nat /\ e.bufferedByte \in Nat /\ (c = 0 \/ c = 1)
        BY <2>2, <1>1, <1>4 DEF Bytes
      <4> QED
        BY <4>1, <4>2
  <2>12. ASSUME NEW k \in n + 1 .. size - 1
         PROVE  w[k + 1] = 256 * w[k] + all[k + 1]
    <3>1. w[k + 1] = v[k + 1] + c /\ w[k] = v[k] + c /\ v[k + 1] = 256 * v[k] + 255 /\ all[k + 1] = x /\ v[k] \in Nat
      <4>1. k \in n + 1 .. size /\ k + 1 \in n + 1 .. size /\ k \in 0 .. size
        BY <1>3a
      <4> QED
        BY <4>1, <2>8, <2>9, <1>3, <1>4
    <3> QED
      BY <3>1, <2>2
  <2>13. \A k \in 0 .. size - 1 : w[k + 1] = 256 * w[k] + all[k + 1]
    BY <2>10, <2>11, <2>12, <1>1
  <2>14. w[size + 1] = 256 * w[size] + (lead % 256)
    <3>1. size \in n + 1 .. size
      BY <1>1, <1>9 DEF size
    <3>2. w[size] = v[size] + c
      BY <3>1, <2>9
    <3>3. v[size] \in Nat /\ lead \in Nat /\ w[size + 1] = 256 * v[size] + lead
      BY <2>9, <1>2, <1>4
    <3> DEFINE y == v[size]
               z == lead % 256
    <3>4. y \in Nat /\ w[size] = y + c /\ w[size + 1] = 256 * y + lead
          /\ ((c = 0 /\ z = lead) \/ (c = 1 /\ z = lead - 256))
      BY <3>2, <3>3, <2>2
    <3> HIDE DEF y, z
    <3>5. w[size + 1] = 256 * w[size] + z
      BY <3>3, <3>4
    <3> QED
      BY <3>5 DEF z
  <2>15. f.bytes = all /\ Given(f) = size + 1 /\ Len(f.bytes) = size
    BY <2>7, <2>8, <1>1 DEF Given, all
  <2>16. Stands(w, f)
    <3>1. w[0] = 0 /\ \A k \in size + 1 .. (size + 1) - 1 : FALSE
      BY <2>10, <1>3a
    <3>2. f.numBufferedBytes # 0 /\ f.bufferedByte = lead % 256
      BY <2>7
    <3> DEFINE z == lead % 256
    <3>3. f.bufferedByte = z /\ w[size + 1] = 256 * w[size] + z
      BY <3>2, <2>14
    <3> HIDE DEF z
    <3> QED
      BY <3>1, <3>2, <3>3, <2>9, <2>13, <2>15 DEF Stands
  <2>17. \E w1 : Represents(f, w1, iv)
    BY <2>7, <2>9, <2>15, <2>16, <1>7 DEF Given
  <2> QED
    BY <2>1, <2>17
<1>10. CASE lead # 255 /\ num = 0
  <2> DEFINE f == [kept EXCEPT !.bufferedByte = lead, !.numBufferedBytes = 1]
             w == [k \in 0 .. 1 |-> IF k = 0 THEN 0 ELSE lead]
  <2>1. /\ f.low = rest /\ f.range = e.range /\ f.bitsLeft = e.bitsLeft + 8 /\ f.bytes = e.bytes
        /\ f.bufferedByte = lead /\ f.numBufferedBytes = 1
    BY <1>6 DEF Encoders
  <2> HIDE DEF f
  <2>2. n = 0 /\ size = 0 /\ v[size] = 0
    BY <1>1, <1>3, <1>10 DEF size
  <2>3. w \in [0 .. 1 -> Nat] /\ w[0] = 0 /\ w[1] = lead
    BY <1>2
  <2> HIDE DEF w
  <2>4. Given(f) = 1 /\ Len(f.bytes) = 0
    BY <2>1, <2>2 DEF Given, n
  <2>5. Stands(w, f)
    BY <2>1, <2>3, <2>4, <1>2 DEF Stands
  <2>6. \E w1 : Represents(f, w1, iv)
    BY <2>1, <2>2, <2>3, <2>4, <2>5, <1>2, <1>7 DEF Given
  <2> QED
    BY <2>6, <1>5, <1>10 DEF f
<1> QED
  BY <1>1, <1>8, <1>9, <1>10

----------------------------------------------------------------------------
(* Every call of the encoder takes a part of the interval.                 *)

\* sound registers that stand for the interval
Codes(e, iv) ==
  /\ EncoderOk(e) /\ iv \in Spans
  /\ \E v : Represents(e, v, iv)

\* equiprobable bins
Bins(iv, bins, n) == Part(iv, n, iv.range * bins, iv.range)

(* A part n bits finer, whether a byte leaves the window or not.           *)
LEMMA ShiftKeeps ==
  ASSUME NEW e, NEW iv, Codes(e, iv), NEW n \in 0 .. 8, NEW offset \in Nat, NEW range \in Ranges,
         offset + range <= e.range * Pow(n)
  PROVE  Codes(WriteOutIfDue([e EXCEPT !.low = e.low * Pow(n) + offset, !.range = range,
                                       !.bitsLeft = e.bitsLeft - n]),
               Part(iv, n, offset, range))
<1> DEFINE p    == Pow(n)
           low  == e.low * p + offset
           f    == [e EXCEPT !.low = low, !.range = range, !.bitsLeft = e.bitsLeft - n]
           part == Part(iv, n, offset, range)
           c    == CarryOut(e)
           g    == Given(e)
<1>1. /\ EncoderOk(e) /\ e \in Encoders /\ e.low \in Nat /\ e.range \in Nat /\ e.bitsLeft \in 12 .. 23
      /\ e.bytes \in Seq(Bytes) /\ e.numBufferedBytes \in Nat /\ iv \in Spans
  <2>1. e \in Encoders /\ e.bitsLeft >= 12 /\ EncoderOk(e) /\ iv \in Spans
    BY DEF Codes, EncoderOk, Sound
  <2>2. e.bitsLeft \in 12 .. 23
    BY <2>1, SMTT(60) DEF Encoders
  <2> QED
    BY <2>1, <2>2 DEF Encoders, Ranges
<1>2. PICK v : Represents(e, v, iv)
  BY DEF Codes
<1>3. p \in Nat /\ range \in Nat
  BY PowerNext DEF Ranges
<1>4. low \in Nat /\ low + range <= p * (e.low + e.range)
  <2> DEFINE x == e.low * p
             y == e.range * p
  <2>1. x \in Nat /\ y \in Nat /\ p * (e.low + e.range) = x + y /\ offset + range <= y
    BY <1>1, <1>3, SMTT(60)
  <2> HIDE DEF p, x, y
  <2>2. x + offset \in Nat /\ (x + offset) + range <= p * (e.low + e.range)
    BY <2>1, <1>3
  <2> QED
    BY <2>2 DEF x
<1>5. CarryOut(f) = c * p /\ c \in Nat
  <2>1. /\ 32 - e.bitsLeft \in 0 .. 32 /\ (32 - e.bitsLeft) + n <= 32
        /\ 32 - (e.bitsLeft - n) = (32 - e.bitsLeft) + n
    <3>1. e.bitsLeft \in 12 .. 23
      BY <1>1
    <3> QED
      BY <3>1
  <2>2. /\ Pow(32 - e.bitsLeft) \in Nat
        /\ Pow((32 - e.bitsLeft) + n) = Pow(32 - e.bitsLeft) * p
    BY <2>1, PowerSum, ZenonT(30)
  <2>3. f.bitsLeft = e.bitsLeft - n
    BY <1>1 DEF Encoders
  <2>4. CarryOut(f) = Pow((32 - e.bitsLeft) + n)
    BY <2>1, <2>3 DEF CarryOut
  <2> QED
    BY <2>2, <2>4 DEF CarryOut
<1>6. Sound(f) /\ f.bitsLeft \in 4 .. 23 /\ EncoderOk(WriteOutIfDue(f))
  <2> HIDE DEF low
  <2>1. Sound(f) /\ f.bitsLeft \in 4 .. 23
    BY <1>1, <1>4, ShiftSound
  <2>2. EncoderOk(WriteOutIfDue(f))
    BY <1>1, <1>4, ShiftOk
  <2> QED
    BY <2>1, <2>2
<1>7. /\ f.low = low /\ f.range = range /\ f.bitsLeft = e.bitsLeft - n /\ f.bytes = e.bytes
      /\ f.bufferedByte = e.bufferedByte /\ f.numBufferedBytes = e.numBufferedBytes
  BY <1>1 DEF Encoders
<1>8. /\ part \in Spans /\ part.low = iv.low * p + offset /\ part.range = range /\ part.bits = iv.bits + n
  <2>1. iv.low * p + offset \in Nat
    <3>1. iv.low \in Nat
      BY <1>1 DEF Spans
    <3> HIDE DEF p
    <3> QED
      BY <3>1, <1>3
  <2> HIDE DEF p
  <2> QED
    BY <2>1, <1>1, <1>3, SMTT(30) DEF Part, Spans, p
<1> HIDE DEF f, part
<1>9. Represents(f, v, part)
  <2>1. Given(f) = g /\ g \in Nat
    BY <1>1, <1>7 DEF Given
  <2>2. Stands(v, f)
    BY <2>1, <1>2, <1>7 DEF Stands, Represents
  <2>3. iv.low = v[g] * c + e.low /\ iv.bits = 8 * g + 32 - e.bitsLeft /\ v[g] \in Nat
    <3>1. v \in [0 .. g -> Nat] /\ g \in 0 .. g
      BY <2>1, <1>2 DEF Represents, Stands
    <3> QED
      BY <3>1, <1>2 DEF Represents
  <2> HIDE DEF c, g, p
  <2>4. part.low = v[g] * (c * p) + low
    <3> DEFINE x == v[g]
    <3>1. x \in Nat /\ iv.low = x * c + e.low
      BY <2>3
    <3> HIDE DEF x
    <3>2. (x * c + e.low) * p + offset = x * (c * p) + (e.low * p + offset)
      BY <3>1, <1>1, <1>3, <1>5, SMTT(30)
    <3> QED
      BY <3>1, <3>2, <1>8 DEF x
  <2>5. part.bits = 8 * g + 32 - f.bitsLeft
    <3>1. e.bitsLeft \in Nat /\ n \in Nat
      BY <1>1, SMTT(30)
    <3> QED
      BY <3>1, <2>1, <2>3, <1>7, <1>8
  <2> QED
    BY <2>1, <2>2, <2>4, <2>5, <1>5, <1>7, <1>8 DEF Represents
<1>10. \E w : Represents(WriteOutIfDue(f), w, part)
  <2>1. CASE f.bitsLeft < 12
    <3>1. \E w : Represents(WriteOut(f), w, part)
      BY <2>1, <1>6, <1>8, <1>9, WriteOutKeeps
    <3> QED
      BY <2>1, <3>1 DEF WriteOutIfDue
  <2>2. CASE ~(f.bitsLeft < 12)
    BY <2>2, <1>9 DEF WriteOutIfDue
  <2> QED
    BY <2>1, <2>2
<1> QED
  BY <1>6, <1>8, <1>10, Zenon DEF Codes, f, part, low, p

(* A smaller range without a shift.                                        *)
LEMMA ShrinkKeeps ==
  ASSUME NEW e, NEW iv, Codes(e, iv), NEW range \in Ranges, range <= e.range
  PROVE  Codes([e EXCEPT !.range = range], Part(iv, 0, 0, range))
<1> DEFINE f    == [e EXCEPT !.range = range]
           part == Part(iv, 0, 0, range)
<1>1. EncoderOk(e) /\ e \in Encoders /\ iv \in Spans
  BY DEF Codes, EncoderOk, Sound
<1>2. PICK v : Represents(e, v, iv)
  BY DEF Codes
<1>3. EncoderOk(f)
  BY <1>1, ShrinkOk
<1>4. /\ f.low = e.low /\ f.range = range /\ f.bitsLeft = e.bitsLeft /\ f.bytes = e.bytes
      /\ f.bufferedByte = e.bufferedByte /\ f.numBufferedBytes = e.numBufferedBytes
  BY <1>1 DEF Encoders
<1>5. part = [low |-> iv.low, range |-> range, bits |-> iv.bits] /\ part \in Spans
  <2>1. iv.low * Pow(0) + 0 = iv.low /\ iv.bits + 0 = iv.bits
    BY <1>1, PowerTable DEF Spans
  <2>2. part = [low |-> iv.low, range |-> range, bits |-> iv.bits]
    BY <2>1 DEF Part
  <2> QED
    BY <2>2, <1>1 DEF Spans, Ranges
<1> HIDE DEF f, part
<1>6. Represents(f, v, part)
  <2>1. Given(f) = Given(e) /\ CarryOut(f) = CarryOut(e)
    BY <1>4 DEF Given, CarryOut
  <2>2. Stands(v, f)
    BY <2>1, <1>2, <1>4, SMTT(30) DEF Stands, Represents
  <2> QED
    BY <2>1, <2>2, <1>2, <1>4, <1>5 DEF Represents
<1> QED
  BY <1>3, <1>5, <1>6 DEF Codes, f, part

(* Equiprobable bins.                                                      *)
LEMMA PutEPKeeps ==
  ASSUME NEW e, NEW iv, Codes(e, iv), NEW n \in 0 .. 8, NEW bins \in Nat, bins < Pow(n)
  PROVE  Codes(PutEP(e, bins, n), Bins(iv, bins, n))
<1> DEFINE p      == Pow(n)
           offset == e.range * bins
           low    == e.low * p + offset
<1>1. /\ e \in Encoders /\ e.low \in Nat /\ e.range \in Ranges /\ e.range \in Nat
      /\ iv.range = e.range
  BY DEF Codes, EncoderOk, Sound, Encoders, Ranges, Represents
<1>2. p \in Nat
  BY PowerNext
<1>3. offset \in Nat /\ offset + e.range <= e.range * p
  <2>1. bins + 1 <= p /\ bins \in Nat
    BY <1>2
  <2> HIDE DEF p
  <2>2. e.range * (bins + 1) <= e.range * p
    BY <1>1, <1>2, <2>1
  <2>3. e.range * (bins + 1) = e.range * bins + e.range
    <3>1. e.range \in Nat
      BY <1>1
    <3> QED
      BY <3>1, <2>1
  <2> QED
    BY <1>1, <2>2, <2>3
<1>4. PutEP(e, bins, n)
        = WriteOutIfDue([e EXCEPT !.low = low, !.range = e.range, !.bitsLeft = e.bitsLeft - n])
  <2>1. [e EXCEPT !.low = low, !.range = e.range, !.bitsLeft = e.bitsLeft - n]
          = [e EXCEPT !.low = low, !.bitsLeft = e.bitsLeft - n]
    BY <1>1 DEF Encoders
  <2> QED
    BY <2>1, Zenon DEF PutEP, Pow
<1>5. Bins(iv, bins, n) = Part(iv, n, offset, e.range)
  BY <1>1 DEF Bins
<1> HIDE DEF offset
<1> QED
  BY <1>1, <1>3, <1>4, <1>5, ShiftKeeps

(* A part of the interval, brought back to nine bits.                      *)
LEMMA RenormKeeps ==
  ASSUME NEW e, NEW iv, Codes(e, iv), NEW above \in Nat, NEW range \in Nat, NEW n \in 0 .. 8,
         above + range <= e.range, range * Pow(n) \in Ranges
  PROVE  Codes(Renorm(e, e.low + above, range, n), Part(iv, n, above * Pow(n), range * Pow(n)))
<1> DEFINE p == Pow(n)
           r == range * p
           o == above * p
<1>1. e.low \in Nat /\ e.range \in Nat
  BY DEF Codes, EncoderOk, Sound, Encoders, Ranges
<1>2. p \in Nat
  BY PowerNext
<1>3. o \in Nat /\ r \in Ranges /\ o + r <= e.range * p /\ (e.low + above) * p = e.low * p + o
  <2>1. range * p \in Ranges
    OBVIOUS
  <2> HIDE DEF p
  <2>2. (above + range) * p <= e.range * p
    BY <1>1, <1>2
  <2>3. (above + range) * p = above * p + range * p
    BY <1>2
  <2> QED
    BY <1>1, <1>2, <2>1, <2>2, <2>3
<1>4. Renorm(e, e.low + above, range, n)
        = WriteOutIfDue([e EXCEPT !.low = (e.low + above) * p, !.range = r, !.bitsLeft = e.bitsLeft - n])
  BY Zenon DEF Renorm, Pow
<1> HIDE DEF o, r
<1>5. Renorm(e, e.low + above, range, n)
        = WriteOutIfDue([e EXCEPT !.low = e.low * p + o, !.range = r, !.bitsLeft = e.bitsLeft - n])
  BY <1>3, <1>4
<1>6. Codes(Renorm(e, e.low + above, range, n), Part(iv, n, o, r))
  BY <1>3, <1>5, ShiftKeeps
<1> QED
  BY <1>6 DEF o, r

----------------------------------------------------------------------------
(* What the calls make of the interval.                                    *)

AfterBin(iv, m, bin) ==
  LET lps == GetLPS(m, iv.range)
      mps == iv.range - lps
      n   == RenormBitsLPS(lps)
  IN IF bin # Mps(m) THEN Part(iv, n, mps * Pow(n), lps * Pow(n))
     ELSE IF mps < 256 THEN Part(iv, 1, 0, mps * Pow(1))
     ELSE Part(iv, 0, 0, mps)

AfterTrm(iv) ==
  IF iv.range - 2 >= 256 THEN Part(iv, 0, 0, iv.range - 2)
  ELSE Part(iv, 1, 0, (iv.range - 2) * Pow(1))

\* the terminating bin, set
Ended(iv) == Part(iv, 7, (iv.range - 2) * Pow(7), 2 * Pow(7))

(* encodeBin.                                                              *)
LEMMA EncodeBinKeeps ==
  ASSUME NEW e, NEW iv, Codes(e, iv), NEW m \in Models, NEW bin
  PROVE  Codes(EncodeBin(e, m, bin), AfterBin(iv, m, bin))
<1> DEFINE lps == GetLPS(m, e.range)
           mps == e.range - lps
           n   == RenormBitsLPS(lps)
<1>1. e.low \in Nat /\ e.range \in Ranges /\ iv.range = e.range
  BY DEF Codes, EncoderOk, Sound, Encoders, Represents
<1>2. lps \in 4 .. 236 /\ mps \in 128 .. 506 /\ e.range \in Nat /\ lps + mps = e.range
  <2>1. lps \in 4 .. 236 /\ mps \in 128 .. 506
    BY <1>1, LpsOk
  <2> HIDE DEF lps
  <2> QED
    BY <2>1, <1>1 DEF Ranges
<1>3. EncodeBin(e, m, bin)
        = IF bin # Mps(m) THEN Renorm(e, e.low + mps, lps, n)
          ELSE IF mps < 256 THEN Renorm(e, e.low, mps, 1)
          ELSE [e EXCEPT !.range = mps]
  BY Zenon DEF EncodeBin, RenormBitsRange
<1>4. AfterBin(iv, m, bin)
        = IF bin # Mps(m) THEN Part(iv, n, mps * Pow(n), lps * Pow(n))
          ELSE IF mps < 256 THEN Part(iv, 1, 0, mps * Pow(1))
          ELSE Part(iv, 0, 0, mps)
  BY <1>1 DEF AfterBin
<1>5. n \in 1 .. 6 /\ lps * Pow(n) \in Ranges
  BY <1>2, RenormOk
<1> HIDE DEF lps, mps, n
<1>6. Codes(Renorm(e, e.low + mps, lps, n), Part(iv, n, mps * Pow(n), lps * Pow(n)))
  <2>1. n \in 0 .. 8 /\ mps \in Nat /\ lps \in Nat /\ mps + lps <= e.range
    BY <1>2, <1>5
  <2> QED
    BY <1>5, <2>1, RenormKeeps
<1>7. ASSUME mps < 256
      PROVE  Codes(Renorm(e, e.low, mps, 1), Part(iv, 1, 0, mps * Pow(1)))
  <2>1. mps * Pow(1) \in Ranges
    BY <1>2, <1>7, PowerTable DEF Ranges
  <2>2. mps \in Nat /\ 0 + mps <= e.range /\ 1 \in 0 .. 8 /\ 0 \in Nat
    BY <1>2
  <2>3. Codes(Renorm(e, e.low + 0, mps, 1), Part(iv, 1, 0 * Pow(1), mps * Pow(1)))
    BY <2>1, <2>2, RenormKeeps
  <2>4. e.low + 0 = e.low /\ 0 * Pow(1) = 0
    BY <1>1, PowerTable
  <2> QED
    BY <2>3, <2>4
<1>8. ASSUME ~(mps < 256)
      PROVE  Codes([e EXCEPT !.range = mps], Part(iv, 0, 0, mps))
  <2>1. mps \in Ranges /\ mps <= e.range
    BY <1>2, <1>8 DEF Ranges
  <2> QED
    BY <2>1, ShrinkKeeps
<1> QED
  BY <1>3, <1>4, <1>6, <1>7, <1>8, Zenon

(* encodeBinTrm.                                                           *)
LEMMA EncodeBinTrmKeeps ==
  ASSUME NEW e, NEW iv, Codes(e, iv)
  PROVE  /\ Codes(EncodeBinTrm(e, 0), AfterTrm(iv))
         /\ Codes(EncodeBinTrm(e, 1), Ended(iv))
<1> DEFINE rest == e.range - 2
<1>1. /\ e.low \in Nat /\ e.range \in Nat /\ 256 <= e.range /\ e.range <= 510 /\ iv.range = e.range
  BY DEF Codes, EncoderOk, Sound, Encoders, Ranges, Represents
<1>2. rest \in Nat /\ rest >= 254 /\ rest <= 508 /\ rest + 2 = e.range
  BY <1>1
<1>3. /\ EncodeBinTrm(e, 1) = Renorm(e, e.low + rest, 2, 7)
      /\ EncodeBinTrm(e, 0) = IF rest >= 256 THEN [e EXCEPT !.range = rest] ELSE Renorm(e, e.low, rest, 1)
  BY DEF EncodeBinTrm
<1>4. /\ AfterTrm(iv) = IF rest >= 256 THEN Part(iv, 0, 0, rest) ELSE Part(iv, 1, 0, rest * Pow(1))
      /\ Ended(iv) = Part(iv, 7, rest * Pow(7), 2 * Pow(7))
  BY <1>1 DEF AfterTrm, Ended
<1> HIDE DEF rest
<1>5. Codes(Renorm(e, e.low + rest, 2, 7), Part(iv, 7, rest * Pow(7), 2 * Pow(7)))
  <2>1. rest + 2 <= e.range /\ 7 \in 0 .. 8 /\ 2 \in Nat
    BY <1>1, <1>2
  <2>2. 2 * Pow(7) \in Ranges
    BY PowerTable DEF Ranges
  <2> QED
    BY <1>2, <2>1, <2>2, RenormKeeps
<1>6. ASSUME rest >= 256
      PROVE  Codes([e EXCEPT !.range = rest], Part(iv, 0, 0, rest))
  <2>1. rest \in Ranges /\ rest <= e.range
    BY <1>1, <1>2, <1>6 DEF Ranges
  <2> QED
    BY <2>1, ShrinkKeeps
<1>7. ASSUME ~(rest >= 256)
      PROVE  Codes(Renorm(e, e.low, rest, 1), Part(iv, 1, 0, rest * Pow(1)))
  <2>1. rest * Pow(1) \in Ranges
    BY <1>2, <1>7, PowerTable DEF Ranges
  <2>2. 0 + rest <= e.range /\ 1 \in 0 .. 8 /\ 0 \in Nat
    BY <1>1, <1>2
  <2>3. Codes(Renorm(e, e.low + 0, rest, 1), Part(iv, 1, 0 * Pow(1), rest * Pow(1)))
    BY <1>2, <2>1, <2>2, RenormKeeps
  <2>4. e.low + 0 = e.low /\ 0 * Pow(1) = 0
    BY <1>1, PowerTable
  <2> QED
    BY <2>3, <2>4
<1> QED
  BY <1>3, <1>4, <1>5, <1>6, <1>7, Zenon

----------------------------------------------------------------------------
(* Several bins.                                                           *)

(* The quotient is the one number between.                                 *)
LEMMA QuotientOk ==
  ASSUME NEW x \in Nat, NEW d \in Nat, d >= 1, NEW q \in Nat, q * d <= x, x < (q + 1) * d
  PROVE  x \div d = q
<1> DEFINE y == x \div d
           r == x % d
<1>1. y = x \div d /\ r = x % d
  OBVIOUS
<1> HIDE DEF y, r
<1>2. y \in Nat /\ r \in Nat /\ r < d /\ x = d * y + r
  <2>1. y \in Nat /\ r \in Nat /\ r < d
    BY <1>1, LeadAndRest, ZenonT(30)
  <2>2. x = d * y + r
    BY <1>1
  <2> QED
    BY <2>1, <2>2
<1>3. CASE y >= q + 1
  <2>1. d * y >= d * (q + 1)
    BY <1>2, <1>3
  <2> QED
    BY <2>1, <1>2
<1>4. CASE q >= y + 1
  <2>1. d * q >= d * (y + 1)
    BY <1>2, <1>4
  <2>2. d * (y + 1) = d * y + d
    BY <1>2
  <2> QED
    BY <2>1, <2>2, <1>2
<1> QED
  BY <1>1, <1>2, <1>3, <1>4

\* the first i of n bins, as a number
Leading(bins, n, i) == bins \div Pow(n - i)

(* Up to eight more of them.                                               *)
LEMMA LeadingNext ==
  ASSUME NEW n \in 0 .. 31, NEW bins \in Nat, bins < Pow(n),
         NEW i \in 0 .. 31, NEW m \in 0 .. 8, i + m <= n
  PROVE  /\ Leading(bins, n, i) \in Nat /\ Leading(bins, n, i + m) \in Nat
         /\ Leading(bins, n, i + m) % Pow(m) \in Nat /\ Leading(bins, n, i + m) % Pow(m) < Pow(m)
         /\ Leading(bins, n, i + m) = Leading(bins, n, i) * Pow(m) + (Leading(bins, n, i + m) % Pow(m))
         /\ Pow(i) \in Nat /\ Pow(m) \in Nat /\ Pow(i + m) = Pow(i) * Pow(m)
<1> DEFINE p  == Pow(n - (i + m))
           pm == Pow(m)
           b  == bins \div p
           s  == bins % p
           c  == b \div pm
           r  == b % pm
<1>1. /\ i \in 0 .. 32 /\ i + m <= 32 /\ n - (i + m) \in 0 .. 32 /\ (n - (i + m)) + m <= 32
      /\ n - i = (n - (i + m)) + m
  OBVIOUS
<1>2. Pow(i) \in Nat /\ pm \in Nat /\ pm >= 1 /\ Pow(i + m) = Pow(i) * pm
  BY <1>1, PowerSum, ZenonT(30)
<1>3. p \in Nat /\ p >= 1 /\ Pow((n - (i + m)) + m) = p * pm
  BY <1>1, PowerSum, ZenonT(30)
<1>4. Leading(bins, n, i + m) = b /\ Leading(bins, n, i) = bins \div (p * pm)
  BY <1>1, <1>3 DEF Leading
<1>5. b = bins \div p /\ s = bins % p
  OBVIOUS
<1>6. c = b \div pm /\ r = b % pm
  OBVIOUS
<1> HIDE DEF p, pm, b, s, c, r
<1>7. b \in Nat /\ s \in Nat /\ s < p /\ bins = p * b + s
  <2>1. b \in Nat /\ s \in Nat /\ s < p
    BY <1>3, <1>5, LeadAndRest, ZenonT(30)
  <2>2. bins = p * b + s
    BY <1>3, <1>5
  <2> QED
    BY <2>1, <2>2
<1>8. c \in Nat /\ r \in Nat /\ r < pm /\ b = pm * c + r
  <2>1. c \in Nat /\ r \in Nat /\ r < pm
    BY <1>2, <1>6, <1>7, LeadAndRest, ZenonT(30)
  <2>2. b = pm * c + r
    BY <1>2, <1>6, <1>7
  <2> QED
    BY <2>1, <2>2
<1> DEFINE w == p * pm
<1>9. w \in Nat /\ w >= 1
  BY <1>2, <1>3
<1>10. c * w <= bins /\ bins < (c + 1) * w
  <2>1. bins = (c * w) + (p * r + s)
    <3>1. p * (pm * c + r) = c * (p * pm) + p * r
      BY <1>2, <1>3, <1>8
    <3>2. bins = (c * w + p * r) + s
      BY <3>1, <1>7, <1>8
    <3>3. c * w \in Nat /\ p * r \in Nat
      BY <1>3, <1>8, <1>9
    <3> HIDE DEF w
    <3> QED
      BY <3>2, <3>3, <1>7
  <2>2. p * r + s < w /\ p * r \in Nat
    <3>1. r + 1 <= pm
      BY <1>2, <1>8
    <3>2. p * (r + 1) <= p * pm
      BY <3>1, <1>2, <1>3, <1>8
    <3>3. p * (r + 1) = p * r + p /\ p * r \in Nat
      BY <1>3, <1>8
    <3>4. p * r + p <= w
      BY <3>2, <3>3
    <3> HIDE DEF w
    <3> QED
      BY <3>3, <3>4, <1>3, <1>7, <1>9
  <2> HIDE DEF w
  <2>3. (c + 1) * w = c * w + w /\ c * w \in Nat
    BY <1>8, <1>9
  <2> QED
    BY <2>1, <2>2, <2>3, <1>7, <1>9
<1>11. bins \div w = c
  <2> HIDE DEF w
  <2> QED
    BY <1>8, <1>9, <1>10, QuotientOk
<1>12. Leading(bins, n, i) = c
  BY <1>4, <1>11
<1>13. b = c * pm + r
  BY <1>2, <1>8
<1> QED
  BY <1>2, <1>4, <1>6, <1>7, <1>8, <1>12, <1>13 DEF pm

(* Bins after bins.                                                        *)
LEMMA BinsTwice ==
  ASSUME NEW iv \in Spans, NEW a \in Nat, NEW c \in Nat, NEW n \in Nat, NEW m \in Nat,
         Pow(n) \in Nat, Pow(m) \in Nat, Pow(n + m) = Pow(n) * Pow(m)
  PROVE  /\ Bins(iv, a, n) \in Spans
         /\ Bins(Bins(iv, a, n), c, m) = Bins(iv, a * Pow(m) + c, n + m)
<1> DEFINE l == iv.low
           r == iv.range
           b == iv.bits
           p == Pow(n)
           q == Pow(m)
<1>1. l \in Nat /\ r \in Nat /\ b \in Nat /\ p \in Nat /\ q \in Nat /\ Pow(n + m) = p * q
  BY DEF Spans
<1>2. Bins(iv, a, n) = [low |-> l * p + r * a, range |-> r, bits |-> b + n]
  BY DEF Bins, Part
<1>3. Bins(iv, a * q + c, n + m) = [low |-> l * (p * q) + r * (a * q + c), range |-> r, bits |-> b + (n + m)]
  BY <1>1 DEF Bins, Part
<1>4. \A s : Bins(s, c, m) = [low |-> s.low * q + s.range * c, range |-> s.range, bits |-> s.bits + m]
  BY DEF Bins, Part
<1> HIDE DEF l, r, b, p, q
<1>5. Bins(Bins(iv, a, n), c, m)
        = [low |-> (l * p + r * a) * q + r * c, range |-> r, bits |-> (b + n) + m]
  BY <1>2, <1>4
<1>6. (l * p + r * a) * q + r * c = l * (p * q) + r * (a * q + c) /\ (b + n) + m = b + (n + m)
  BY <1>1
<1>7. Bins(iv, a, n) \in Spans
  <2>1. l * p + r * a \in Nat
    BY <1>1
  <2> QED
    BY <2>1, <1>1, <1>2 DEF Spans
<1> QED
  BY <1>3, <1>5, <1>6, <1>7 DEF q

(* The interval after the first i of n bins, and after up to eight more.   *)
LEMMA LeadingBins ==
  ASSUME NEW iv \in Spans, NEW n \in 0 .. 31, NEW bins \in Nat, bins < Pow(n),
         NEW i \in 0 .. 31, NEW m \in 0 .. 8, i + m <= n
  PROVE  /\ Bins(iv, Leading(bins, n, i), i) \in Spans
         /\ Bins(Bins(iv, Leading(bins, n, i), i), Leading(bins, n, i + m) % Pow(m), m)
              = Bins(iv, Leading(bins, n, i + m), i + m)
<1> DEFINE a == Leading(bins, n, i)
           b == Leading(bins, n, i + m)
           c == b % Pow(m)
<1> HIDE DEF a, b, c
<1>1. /\ a \in Nat /\ c \in Nat /\ b = a * Pow(m) + c
      /\ Pow(i) \in Nat /\ Pow(m) \in Nat /\ Pow(i + m) = Pow(i) * Pow(m)
  <2>1. Leading(bins, n, i) \in Nat
    BY LeadingNext, Zenon
  <2>2. Leading(bins, n, i + m) % Pow(m) \in Nat
    BY LeadingNext, Zenon
  <2>3. Leading(bins, n, i + m) = Leading(bins, n, i) * Pow(m) + (Leading(bins, n, i + m) % Pow(m))
    BY LeadingNext, Zenon
  <2>4. Pow(i) \in Nat /\ Pow(m) \in Nat /\ Pow(i + m) = Pow(i) * Pow(m)
    <3>1. i \in 0 .. 32 /\ i + m <= 32
      OBVIOUS
    <3> QED
      BY <3>1, PowerSum, ZenonT(30)
  <2> QED
    BY <2>1, <2>2, <2>3, <2>4, Zenon DEF a, b, c
<1>2. i \in Nat /\ m \in Nat
  OBVIOUS
<1>3. Bins(iv, a, i) \in Spans /\ Bins(Bins(iv, a, i), c, m) = Bins(iv, a * Pow(m) + c, i + m)
  BY <1>1, <1>2, BinsTwice
<1> QED
  BY <1>1, <1>3 DEF a, b, c

(* None and all of them.                                                   *)
LEMMA LeadingEnds ==
  ASSUME NEW iv \in Spans, NEW n \in 0 .. 31, NEW bins \in Nat, bins < Pow(n)
  PROVE  /\ Leading(bins, n, 0) = 0 /\ Leading(bins, n, n) = bins
         /\ Bins(iv, 0, 0) = iv
<1>1. Pow(n) \in Nat /\ Pow(n) >= 1 /\ Pow(0) = 1
  BY PowerNext, PowerTable
<1>2. bins \div Pow(n) = 0
  <2> DEFINE p == Pow(n)
  <2>1. p \in Nat /\ p >= 1 /\ bins < p
    BY <1>1
  <2> HIDE DEF p
  <2>2. 0 \in Nat /\ 0 * p <= bins /\ bins < (0 + 1) * p
    BY <2>1
  <2>3. bins \div p = 0
    BY <2>1, <2>2, QuotientOk
  <2> QED
    BY <2>3 DEF p
<1>3. n - 0 = n /\ n - n = 0
  OBVIOUS
<1>4. bins \div 1 = bins
  OBVIOUS
<1>5. iv.low * 1 + iv.range * 0 = iv.low /\ iv.bits + 0 = iv.bits
  BY DEF Spans
<1>6. Bins(iv, 0, 0) = iv
  BY <1>1, <1>5 DEF Bins, Part, Spans
<1> QED
  BY <1>1, <1>2, <1>3, <1>4, <1>6 DEF Leading

(* encodeBinsEP.                                                           *)
LEMMA EncodeBinsEPKeeps ==
  ASSUME NEW e, NEW iv, Codes(e, iv), NEW n \in 0 .. 31, NEW bins \in Nat, bins < Pow(n)
  PROVE  Codes(EncodeBinsEP(e, bins, n), Bins(iv, bins, n))
<1> DEFINE k  == WholeBytes(n)
           e1 == IF k >= 1 THEN PutEP(e,  Byte(bins, n, 1), 8) ELSE e
           e2 == IF k >= 2 THEN PutEP(e1, Byte(bins, n, 2), 8) ELSE e1
           e3 == IF k >= 3 THEN PutEP(e2, Byte(bins, n, 3), 8) ELSE e2
           u  == n - 8 * k
           r  == bins % Pow(u)
           At(i) == Bins(iv, Leading(bins, n, i), i)
<1>1. k \in 0 .. 3 /\ 8 * k <= n /\ u \in 0 .. 8 /\ 8 * k + u = n /\ 8 * k \in 0 .. 31
  BY DEF WholeBytes
<1>2. EncodeBinsEP(e, bins, n) = PutEP(e3, r, u)
  BY Zenon DEF EncodeBinsEP, Pow
<1>3. iv \in Spans
  BY DEF Codes
<1>4. At(0) = iv /\ At(n) = Bins(iv, bins, n) /\ Leading(bins, n, n) = bins
  BY <1>3, LeadingEnds, SMTT(30)
<1> HIDE DEF k
<1>5. ASSUME NEW f, NEW i \in 0 .. 31, NEW m \in 0 .. 8, i + m <= n, Codes(f, At(i))
      PROVE  Codes(PutEP(f, Leading(bins, n, i + m) % Pow(m), m), At(i + m))
  <2> DEFINE c == Leading(bins, n, i + m) % Pow(m)
  <2>1. c \in Nat /\ c < Pow(m)
    BY <1>5, LeadingNext, ZenonT(40)
  <2>2. Bins(At(i), c, m) = At(i + m)
    BY <1>3, <1>5, LeadingBins
  <2> HIDE DEF c, At
  <2>3. Codes(PutEP(f, c, m), Bins(At(i), c, m))
    BY <1>5, <2>1, PutEPKeeps
  <2> QED
    BY <2>2, <2>3, SMTT(30) DEF c
<1>6. Byte(bins, n, 1) = Leading(bins, n, 8) % Pow(8) /\ Byte(bins, n, 2) = Leading(bins, n, 16) % Pow(8)
      /\ Byte(bins, n, 3) = Leading(bins, n, 24) % Pow(8)
  <2>1. 8 * 1 = 8 /\ 8 * 2 = 16 /\ 8 * 3 = 24 /\ Pow(8) = 256
    BY PowerTable
  <2> QED
    BY <2>1 DEF Byte, Leading, Pow
<1> HIDE DEF At
<1>7. k >= 1 => Codes(e1, At(8))
  <2>1. k >= 1 => 0 + 8 <= n /\ 0 \in 0 .. 31 /\ 8 \in 0 .. 8 /\ 0 + 8 = 8
    BY <1>1
  <2> QED
    BY <2>1, <1>4, <1>5, <1>6
<1>8. k >= 2 => Codes(e2, At(16))
  <2>1. k >= 2 => 8 + 8 <= n /\ 8 \in 0 .. 31 /\ 8 \in 0 .. 8 /\ 8 + 8 = 16 /\ k >= 1
    BY <1>1
  <2> HIDE DEF e1
  <2> QED
    BY <2>1, <1>5, <1>6, <1>7
<1>9. k >= 3 => Codes(e3, At(24))
  <2>1. k >= 3 => 16 + 8 <= n /\ 16 \in 0 .. 31 /\ 8 \in 0 .. 8 /\ 16 + 8 = 24 /\ k >= 2
    BY <1>1
  <2> HIDE DEF e2
  <2> QED
    BY <2>1, <1>5, <1>6, <1>8
<1>10. Codes(e3, At(8 * k))
  <2>1. CASE k = 0
    <3>1. e3 = e /\ 8 * k = 0
      BY <2>1
    <3> QED
      BY <3>1, <1>4
  <2>2. CASE k = 1
    <3>1. e3 = e1 /\ 8 * k = 8 /\ k >= 1
      BY <2>2
    <3> HIDE DEF e1, e3
    <3> QED
      BY <3>1, <1>7
  <2>3. CASE k = 2
    <3>1. e3 = e2 /\ 8 * k = 16 /\ k >= 2
      BY <2>3
    <3> HIDE DEF e2, e3
    <3> QED
      BY <3>1, <1>8
  <2>4. CASE k = 3
    <3>1. 8 * k = 24 /\ k >= 3
      BY <2>4
    <3> HIDE DEF e3
    <3> QED
      BY <3>1, <1>9
  <2> QED
    BY <2>1, <2>2, <2>3, <2>4, <1>1
<1> HIDE DEF e3
<1>11. Codes(PutEP(e3, Leading(bins, n, 8 * k + u) % Pow(u), u), At(8 * k + u))
  <2>1. 8 * k + u <= n
    BY <1>1
  <2> QED
    BY <2>1, <1>1, <1>5, <1>10
<1> QED
  BY <1>1, <1>2, <1>4, <1>11

----------------------------------------------------------------------------
(* The escape codes.                                                       *)

\* as the decoder reads them: how many ones begin the code, what is coded from
\* there, and in how many bins
Ones(v, rice, cutoff, maxLog2) ==
  IF v < cutoff * Pow(rice) THEN v \div Pow(rice)
  ELSE cutoff + PrefixLength((v \div Pow(rice)) - cutoff, 32 - cutoff - maxLog2)
OffsetOf(x, rice, cutoff) ==
  IF x < cutoff THEN x * Pow(rice) ELSE (Pow(x - cutoff) + cutoff - 1) * Pow(rice)
LengthOf(x, rice, cutoff, maxLog2) ==
  IF x < cutoff THEN rice ELSE IF x = 32 - maxLog2 THEN maxLog2 ELSE rice + x - cutoff

\* ones, and a zero unless there are as many as there can be
AfterOnes(iv, x, max) ==
  IF x = max THEN Bins(iv, Pow(x) - 1, x) ELSE Bins(Bins(iv, Pow(x) - 1, x), 0, 1)
AfterRem(iv, v, rice, cutoff, maxLog2) ==
  LET x == Ones(v, rice, cutoff, maxLog2)
  IN Bins(AfterOnes(iv, x, 32 - maxLog2), v - OffsetOf(x, rice, cutoff),
          LengthOf(x, rice, cutoff, maxLog2))

\* the arguments of the call
RemArgs(rice, cutoff, maxLog2) ==
  /\ rice \in 0 .. 3 /\ cutoff \in {0, 5} /\ maxLog2 \in 15 .. 22
  /\ cutoff = 0 => maxLog2 = 17

\* the ends of the two codes
ShortCode(v, rice, cutoff, maxLog2) ==
  LET q == v \div Pow(rice)
      x == Ones(v, rice, cutoff, maxLog2)
  IN /\ x = q /\ x \in 0 .. 4 /\ x < cutoff
     /\ v - OffsetOf(x, rice, cutoff) = v % Pow(rice)
     /\ LengthOf(x, rice, cutoff, maxLog2) = rice
LongCode(v, rice, cutoff, maxLog2) ==
  LET maxP == 32 - cutoff - maxLog2
      code == (v \div Pow(rice)) - cutoff
      p    == PrefixLength(code, maxP)
      x    == Ones(v, rice, cutoff, maxLog2)
  IN /\ x = p + cutoff /\ p \in 0 .. maxP
     /\ v - OffsetOf(x, rice, cutoff) = (code - (Pow(p) - 1)) * Pow(rice) + (v % Pow(rice))
     /\ LengthOf(x, rice, cutoff, maxLog2) = IF p = maxP THEN maxLog2 ELSE p + rice

(* What follows the ones fits in its bins; with a cutoff, a small value    *)
(* has a short code.                                                       *)
LEMMA RemNumbers ==
  ASSUME NEW rice, NEW cutoff, NEW maxLog2, RemArgs(rice, cutoff, maxLog2),
         NEW v \in Nat, v <= Pow(maxLog2)
  PROVE  /\ Ones(v, rice, cutoff, maxLog2) \in 0 .. 32 - maxLog2
         /\ LengthOf(Ones(v, rice, cutoff, maxLog2), rice, cutoff, maxLog2) \in 0 .. 22
         /\ v - OffsetOf(Ones(v, rice, cutoff, maxLog2), rice, cutoff) \in Nat
         /\ v - OffsetOf(Ones(v, rice, cutoff, maxLog2), rice, cutoff)
              < Pow(LengthOf(Ones(v, rice, cutoff, maxLog2), rice, cutoff, maxLog2))
         /\ v < cutoff * Pow(rice) => ShortCode(v, rice, cutoff, maxLog2)
         /\ ~(v < cutoff * Pow(rice)) => LongCode(v, rice, cutoff, maxLog2)
<1> DEFINE p0   == Pow(rice)
           q    == v \div p0
           r    == v % p0
           code == q - cutoff
           maxP == 32 - cutoff - maxLog2
           p    == PrefixLength(code, maxP)
           x    == Ones(v, rice, cutoff, maxLog2)
           off  == OffsetOf(x, rice, cutoff)
           len  == LengthOf(x, rice, cutoff, maxLog2)
<1>1. /\ rice \in 0 .. 3 /\ cutoff \in {0, 5} /\ maxLog2 \in 15 .. 22 /\ (cutoff = 0 => maxLog2 = 17)
      /\ p0 \in {1, 2, 4, 8}
  BY PowerTable DEF RemArgs
<1>2. q = v \div p0 /\ r = v % p0
  OBVIOUS
<1>3. /\ x = IF v < cutoff * p0 THEN q ELSE cutoff + p
      /\ off = IF x < cutoff THEN x * p0 ELSE (Pow(x - cutoff) + cutoff - 1) * p0
      /\ len = IF x < cutoff THEN rice ELSE IF x = 32 - maxLog2 THEN maxLog2 ELSE rice + x - cutoff
      /\ ShortCode(v, rice, cutoff, maxLog2) <=> x = q /\ x \in 0 .. 4 /\ x < cutoff /\ v - off = r /\ len = rice
      /\ LongCode(v, rice, cutoff, maxLog2)
           <=> /\ x = p + cutoff /\ p \in 0 .. maxP
               /\ v - off = (code - (Pow(p) - 1)) * p0 + r
               /\ len = IF p = maxP THEN maxLog2 ELSE p + rice
  BY Zenon DEF ShortCode, LongCode, Ones, OffsetOf, LengthOf
<1>4. maxP \in 5 .. 15 /\ maxP + cutoff = 32 - maxLog2 /\ 32 - maxLog2 \in 10 .. 17
  BY <1>1
<1>5. q \in Nat /\ r \in Nat /\ r < p0 /\ v = p0 * q + r
  <2> HIDE DEF p0, q, r
  <2>1. p0 \in Nat /\ p0 >= 1
    BY <1>1
  <2>2. q \in Nat /\ r \in Nat /\ r < p0
    BY <1>2, <2>1, LeadAndRest, ZenonT(30)
  <2>3. v = p0 * q + r
    BY <1>2, <2>1
  <2> QED
    BY <2>2, <2>3
<1>6. code \in Int
  BY <1>1, <1>5
<1> SUFFICES /\ x \in 0 .. 32 - maxLog2 /\ len \in 0 .. 22 /\ v - off \in Nat /\ v - off < Pow(len)
             /\ v < cutoff * p0 => x = q /\ x \in 0 .. 4 /\ x < cutoff /\ v - off = r /\ len = rice
             /\ ~(v < cutoff * p0) => /\ x = p + cutoff /\ p \in 0 .. maxP
                                      /\ v - off = (code - (Pow(p) - 1)) * p0 + r
                                      /\ len = IF p = maxP THEN maxLog2 ELSE p + rice
  BY <1>3, Zenon
<1>7. /\ p \in 0 .. maxP
      /\ p = maxP \/ code <= Pow(p + 1) - 2
      /\ \A i \in 0 .. p - 1 : code > Pow(i + 1) - 2
  <2> HIDE DEF code, maxP
  <2> QED
    BY <1>4, <1>6, PrefixLengthOk
<1> HIDE DEF p0, q, r, p, x, off, len
<1>8. CASE v < cutoff * p0
  <2>1. q < cutoff /\ cutoff = 5
    BY <1>1, <1>5, <1>8
  <2>2. x = q /\ x \in 0 .. 4 /\ x < cutoff
    BY <2>1, <1>3, <1>5, <1>8
  <2>3. off = q * p0 /\ len = rice
    BY <2>2, <1>3
  <2>4. v - off = r
    BY <2>3, <1>1, <1>5
  <2>5. Pow(len) = p0
    BY <2>3 DEF p0
  <2> QED
    BY <2>2, <2>3, <2>4, <2>5, <1>1, <1>4, <1>5, <1>8
<1>9. CASE ~(v < cutoff * p0)
  <2>1. code \in Nat /\ q = code + cutoff
    <3>1. q >= cutoff
      BY <1>1, <1>5, <1>9
    <3> QED
      BY <3>1, <1>1, <1>5
  <2>2. x = p + cutoff /\ ~(x < cutoff) /\ x - cutoff = p
    BY <1>1, <1>3, <1>4, <1>7, <1>9
  <2>3. off = (Pow(p) + cutoff - 1) * p0 /\ (x = 32 - maxLog2 <=> p = maxP) /\ x \in 0 .. 32 - maxLog2
    BY <2>2, <1>1, <1>3, <1>4, <1>7
  <2>4. len = IF p = maxP THEN maxLog2 ELSE p + rice
    BY <2>2, <2>3, <1>1, <1>3, <1>4, <1>7
  <2> DEFINE pp == Pow(p)
             t  == (code - (pp - 1)) * p0 + r
  <2>5. pp \in Nat /\ pp >= 1 /\ Pow(p + 1) = 2 * pp
    <3>1. p \in 0 .. 31
      BY <1>4, <1>7
    <3> QED
      BY <3>1, PowerNext
  <2>6. code >= pp - 1
    <3>1. CASE p = 0
      BY <3>1, <2>1, PowerTable
    <3>2. CASE p # 0
      <4>1. p - 1 \in 0 .. p - 1 /\ (p - 1) + 1 = p
        BY <3>2, <1>4, <1>7
      <4>2. code > Pow(p) - 2
        BY <4>1, <1>7
      <4> HIDE DEF code
      <4> QED
        BY <4>2, <2>1, <2>5
    <3> QED
      BY <3>1, <3>2
  <2> HIDE DEF pp, code, maxP
  <2>7. v - off = t /\ t \in Nat
    <3> DEFINE d == code - (pp - 1)
    <3>1. d \in Nat /\ code = d + (pp - 1)
      BY <2>1, <2>5, <2>6
    <3>2. off = (pp + cutoff - 1) * p0
      BY <2>3 DEF pp
    <3> HIDE DEF d
    <3>3. p0 * (code + cutoff) = (pp + cutoff - 1) * p0 + d * p0 /\ d * p0 \in Nat
      BY <3>1, <1>1, <2>5
    <3>4. v = off + (d * p0 + r) /\ d * p0 + r \in Nat
      <4>1. off \in Int
        BY <3>2, <1>1, <2>5
      <4> QED
        BY <4>1, <3>2, <3>3, <2>1, <1>1, <1>5
    <3>5. v - off = d * p0 + r
      <4>1. off \in Int
        BY <3>2, <1>1, <2>5
      <4> DEFINE z == d * p0 + r
      <4>2. v = off + z /\ z \in Nat
        BY <3>4
      <4> HIDE DEF z
      <4>3. v - off = z
        BY <4>1, <4>2
      <4> QED
        BY <4>3 DEF z
    <3> QED
      BY <3>4, <3>5 DEF d
  <2> HIDE DEF t
  <2>8. len \in 0 .. 22 /\ t < Pow(len)
    <3>1. CASE p = maxP
      <4>1. pp >= 32
        <5>1. \A i \in 5 .. 15 : Pow(i) >= 32
          BY PowerTable
        <5> QED
          BY <5>1, <3>1, <1>4 DEF pp
      <4>2. off >= 31
        <5>1. off = (pp + cutoff - 1) * p0
          BY <2>3 DEF pp
        <5>2. pp + cutoff - 1 \in Nat /\ pp + cutoff - 1 >= 31
          BY <4>1, <2>5, <1>1
        <5> QED
          BY <5>1, <5>2, <1>1
      <4>3. Pow(maxLog2) \in Nat /\ off \in Nat
        <5>1. maxLog2 \in 0 .. 31
          BY <1>1
        <5>2. off = (pp + cutoff - 1) * p0 /\ pp + cutoff - 1 \in Nat
          BY <2>3, <2>5, <1>1 DEF pp
        <5> QED
          BY <5>1, <5>2, <1>1, PowerNext
      <4> QED
        BY <4>2, <4>3, <3>1, <2>4, <2>7, <1>1
    <3>2. CASE p # maxP
      <4>1. len = p + rice /\ p \in 0 .. 14 /\ rice \in 0 .. 3 /\ code <= 2 * pp - 2
        BY <3>2, <2>4, <2>5, <1>1, <1>4, <1>7
      <4>2. Pow(p + rice) = pp * p0 /\ len \in 0 .. 22
        <5>1. p \in 0 .. 32 /\ rice \in 0 .. 8 /\ p + rice <= 32 /\ p + rice \in 0 .. 22
          BY <4>1
        <5> QED
          BY <4>1, <5>1, PowerSum DEF pp, p0
      <4>3. t < pp * p0
        <5> DEFINE d == code - (pp - 1)
        <5>1. d \in Nat /\ d + 1 <= pp /\ t = d * p0 + r
          BY <4>1, <2>1, <2>5, <2>6 DEF t
        <5> HIDE DEF d
        <5>2. (d + 1) * p0 <= pp * p0 /\ (d + 1) * p0 = d * p0 + p0
          BY <5>1, <2>5, <1>1
        <5>3. d * p0 \in Nat /\ pp * p0 \in Nat
          BY <5>1, <2>5, <1>1
        <5> QED
          BY <5>1, <5>2, <5>3, <1>1, <1>5
      <4> QED
        BY <4>1, <4>2, <4>3
    <3> QED
      BY <3>1, <3>2
  <2> QED
    BY <2>2, <2>3, <2>4, <2>7, <2>8, <1>7, <1>9 DEF t, pp
<1> QED
  BY <1>8, <1>9

(* encodeRemAbsEP.                                                         *)
LEMMA EncodeRemAbsEPKeeps ==
  ASSUME NEW e, NEW iv, Codes(e, iv), NEW rice, NEW cutoff, NEW maxLog2, RemArgs(rice, cutoff, maxLog2),
         NEW v \in Nat, v <= Pow(maxLog2)
  PROVE  Codes(EncodeRemAbsEP(e, v, rice, cutoff, maxLog2), AfterRem(iv, v, rice, cutoff, maxLog2))
<1> DEFINE p0    == Pow(rice)
           q     == v \div p0
           r     == v % p0
           code  == q - cutoff
           maxP  == 32 - cutoff - maxLog2
           p     == PrefixLength(code, maxP)
           width == IF p = maxP THEN maxLog2 ELSE p + rice + 1
           tail  == (code - (Pow(p) - 1)) * p0 + r
           x     == Ones(v, rice, cutoff, maxLog2)
           t     == v - OffsetOf(x, rice, cutoff)
           len   == LengthOf(x, rice, cutoff, maxLog2)
           head  == Bins(iv, Pow(x) - 1, x)
<1>1. EncodeRemAbsEP(e, v, rice, cutoff, maxLog2)
        = IF v < cutoff * p0 THEN EncodeBinsEP(EncodeBinsEP(e, Pow(q + 1) - 2, q + 1), r, rice)
          ELSE EncodeBinsEP(EncodeBinsEP(e, Pow(p + cutoff) - 1, p + cutoff), tail, width)
  BY Zenon DEF EncodeRemAbsEP, Pow
<1>2. AfterRem(iv, v, rice, cutoff, maxLog2)
        = Bins(IF x = 32 - maxLog2 THEN head ELSE Bins(head, 0, 1), t, len)
  BY Zenon DEF AfterRem, AfterOnes
<1>3. /\ x \in 0 .. 32 - maxLog2 /\ len \in 0 .. 22 /\ t \in Nat /\ t < Pow(len)
      /\ v < cutoff * p0 => ShortCode(v, rice, cutoff, maxLog2)
      /\ ~(v < cutoff * p0) => LongCode(v, rice, cutoff, maxLog2)
  BY RemNumbers
<1>4. /\ ShortCode(v, rice, cutoff, maxLog2) => x = q /\ x \in 0 .. 4 /\ x < cutoff /\ t = r /\ len = rice
      /\ LongCode(v, rice, cutoff, maxLog2)
           => /\ x = p + cutoff /\ p \in 0 .. maxP /\ t = tail
              /\ len = IF p = maxP THEN maxLog2 ELSE p + rice
  BY Zenon DEF ShortCode, LongCode
<1>5. /\ rice \in 0 .. 3 /\ cutoff \in {0, 5} /\ maxLog2 \in 15 .. 22
      /\ maxP \in 5 .. 15 /\ maxP + cutoff = 32 - maxLog2 /\ 32 - maxLog2 \in 10 .. 17
  BY DEF RemArgs
<1>6. iv \in Spans
  BY DEF Codes
<1> HIDE DEF q, r, p, width, tail, x, t, len, p0, maxP
<1>7. x \in 0 .. 30 /\ Pow(x) \in Nat /\ Pow(x) >= 1 /\ Pow(x + 1) = 2 * Pow(x) /\ x \in Nat /\ x + 1 \in 0 .. 31
  <2>1. x \in 0 .. 30
    BY <1>3, <1>5
  <2>2. x \in 0 .. 31 /\ x \in Nat /\ x + 1 \in 0 .. 31
    BY <2>1
  <2> QED
    BY <2>1, <2>2, PowerNext
<1>8. head \in Spans /\ Bins(head, 0, 1) = Bins(iv, Pow(x + 1) - 2, x + 1) /\ Bins(head, 0, 1) \in Spans
  <2> DEFINE a == Pow(x) - 1
  <2>1. a \in Nat /\ 0 \in Nat /\ 1 \in Nat /\ Pow(1) = 2 /\ Pow(1) \in Nat /\ Pow(x + 1) = Pow(x) * Pow(1)
        /\ a * Pow(1) + 0 = Pow(x + 1) - 2
    BY <1>7, PowerTable
  <2> HIDE DEF a
  <2>2. Bins(iv, a, x) \in Spans /\ Bins(Bins(iv, a, x), 0, 1) = Bins(iv, a * Pow(1) + 0, x + 1)
    BY <2>1, <1>6, <1>7, BinsTwice
  <2>3. x + 1 \in Nat /\ Pow(x + 1) \in Nat /\ Pow(x + 1) - 2 \in Nat
    BY <1>7
  <2>4. Bins(iv, Pow(x + 1) - 2, x + 1) \in Spans
    <3> DEFINE b == Pow(x + 1) - 2
               m == x + 1
    <3>1. b \in Nat /\ m \in Nat /\ Pow(m) \in Nat /\ Pow(0) \in Nat /\ Pow(m + 0) = Pow(m) * Pow(0) /\ 0 \in Nat
      BY <2>3, PowerTable
    <3> HIDE DEF b, m
    <3>2. Bins(iv, b, m) \in Spans
      BY <3>1, <1>6, BinsTwice
    <3> QED
      BY <3>2 DEF b, m
  <2> QED
    BY <2>1, <2>2, <2>4 DEF a
<1>9. CASE v < cutoff * p0
  <2>1. /\ x = q /\ x \in 0 .. 4 /\ t = r /\ len = rice /\ x # 32 - maxLog2
    <3>1. x = q /\ x \in 0 .. 4 /\ t = r /\ len = rice
      BY <1>3, <1>4, <1>9
    <3> QED
      BY <3>1, <1>5
  <2> DEFINE a == Pow(x + 1) - 2
             n == x + 1
  <2>2. a \in Nat /\ a < Pow(n) /\ n \in 0 .. 31
    BY <1>7
  <2>3. Bins(head, 0, 1) = Bins(iv, a, n)
    BY <1>8
  <2> HIDE DEF a, n
  <2>4. Codes(EncodeBinsEP(e, a, n), Bins(iv, a, n))
    BY <2>2, EncodeBinsEPKeeps
  <2>5. len \in 0 .. 31
    BY <1>3
  <2>6. Codes(EncodeBinsEP(EncodeBinsEP(e, a, n), t, len), Bins(Bins(iv, a, n), t, len))
    BY <2>4, <2>5, <1>3, EncodeBinsEPKeeps
  <2>7. EncodeRemAbsEP(e, v, rice, cutoff, maxLog2) = EncodeBinsEP(EncodeBinsEP(e, a, n), t, len)
    BY <2>1, <1>1, <1>9 DEF a, n
  <2>8. AfterRem(iv, v, rice, cutoff, maxLog2) = Bins(Bins(iv, a, n), t, len)
    BY <2>1, <2>3, <1>2
  <2> QED
    BY <2>6, <2>7, <2>8
<1>10. CASE ~(v < cutoff * p0)
  <2>1. x = p + cutoff /\ p \in 0 .. maxP /\ t = tail /\ len = IF p = maxP THEN maxLog2 ELSE p + rice
    BY <1>3, <1>4, <1>10
  <2>2. (x = 32 - maxLog2 <=> p = maxP) /\ p \in Nat
    BY <2>1, <1>5
  <2> DEFINE a == Pow(x) - 1
  <2>3. a \in Nat /\ a < Pow(x) /\ x \in 0 .. 31
    BY <1>7
  <2>4. head = Bins(iv, a, x)
    OBVIOUS
  <2>5. EncodeRemAbsEP(e, v, rice, cutoff, maxLog2) = EncodeBinsEP(EncodeBinsEP(e, a, x), t, width)
    BY <2>1, <1>1, <1>10
  <2> HIDE DEF a, head
  <2>6. Codes(EncodeBinsEP(e, a, x), head)
    BY <2>3, <2>4, EncodeBinsEPKeeps
  <2>7. CASE p = maxP
    <3>1. width = len /\ len \in 0 .. 31 /\ AfterRem(iv, v, rice, cutoff, maxLog2) = Bins(head, t, len)
      BY <2>1, <2>2, <2>7, <1>2, <1>3 DEF width
    <3>2. Codes(EncodeBinsEP(EncodeBinsEP(e, a, x), t, len), Bins(head, t, len))
      BY <2>6, <3>1, <1>3, EncodeBinsEPKeeps
    <3> QED
      BY <3>1, <3>2, <2>5
  <2>8. CASE p # maxP
    <3>1. /\ width = len + 1 /\ len \in 0 .. 31 /\ len + 1 \in 0 .. 31 /\ len \in Nat
          /\ AfterRem(iv, v, rice, cutoff, maxLog2) = Bins(Bins(head, 0, 1), t, len)
      <4>1. len = p + rice /\ width = (p + rice) + 1 /\ len \in Nat /\ len + 1 \in 0 .. 31 /\ len \in 0 .. 31
        BY <2>1, <2>2, <2>8, <1>3, <1>5 DEF width
      <4> QED
        BY <4>1, <2>2, <2>8, <1>2
    <3>2. Pow(len) \in Nat /\ Pow(len + 1) = 2 * Pow(len) /\ Pow(1) = 2 /\ Pow(1) \in Nat /\ 1 + len = len + 1
      BY <3>1, PowerNext, PowerTable
    <3>3. Bins(Bins(head, 0, 1), t, len) = Bins(head, 0 * Pow(len) + t, 1 + len)
      <4>1. Pow(1 + len) = Pow(1) * Pow(len) /\ 1 \in Nat /\ 0 \in Nat
        BY <3>2
      <4> QED
        BY <4>1, <3>1, <3>2, <1>3, <1>8, BinsTwice, SMTT(30)
    <3>4. 0 * Pow(len) + t = t /\ t < Pow(len + 1)
      BY <3>2, <1>3
    <3>5. Codes(EncodeBinsEP(EncodeBinsEP(e, a, x), t, len + 1), Bins(head, t, len + 1))
      BY <2>6, <3>1, <3>4, <1>3, EncodeBinsEPKeeps
    <3> QED
      BY <3>1, <3>2, <3>3, <3>4, <3>5, <2>5
  <2> QED
    BY <2>7, <2>8
<1> QED
  BY <1>9, <1>10

----------------------------------------------------------------------------
(* A symbol, and the end of the substream.                                 *)

After(iv, models, s) ==
  CASE s.kind = "ctx" -> AfterBin(iv, models[s.arg[1]], s.val)
    [] s.kind = "ep"  -> Bins(iv, s.val, 1)
    [] s.kind = "eps" -> Bins(iv, s.val, s.arg[1])
    [] s.kind = "rem" -> AfterRem(iv, s.val, s.arg[1], s.arg[2], s.arg[3])
    [] s.kind = "trm" -> AfterTrm(iv)

(* The five calls, with what their arguments can be.                       *)
LEMMA SymbolKinds ==
  ASSUME NEW s, IsSymbol(s)
  PROVE  \/ s.kind = "ctx" /\ s.arg[1] \in DOMAIN Inistate /\ s.val \in Bit
         \/ s.kind = "ep" /\ s.val \in Bit
         \/ s.kind = "eps" /\ s.arg[1] \in 1 .. 30 /\ s.val \in Nat /\ s.val < Pow(s.arg[1])
         \/ /\ s.kind = "rem" /\ RemArgs(s.arg[1], s.arg[2], s.arg[3])
            /\ s.val \in Nat /\ s.val <= Pow(s.arg[3])
         \/ s.kind = "trm" /\ s.val = 0
<1>1. CASE s.kind = "eps" /\ s.arg[1] \in 1 .. 30 /\ s.val \in 0 .. 2^s.arg[1] - 1
  <2> DEFINE n == s.arg[1]
  <2>1. s.val \in 0 .. Pow(n) - 1 /\ n \in 0 .. 31 /\ n \in 1 .. 30
    BY <1>1 DEF Pow
  <2>2. Pow(n) \in Nat
    BY <2>1, PowerNext
  <2>3. s.val \in Nat /\ s.val < Pow(n)
    BY <2>1, <2>2
  <2> QED
    BY <1>1, <2>3
<1>2. CASE /\ s.kind = "rem" /\ s.arg[1] \in 0 .. 3 /\ s.val \in 0 .. 2^s.arg[3]
           /\ <<s.arg[2], s.arg[3]>> \in {<<5, m>> : m \in 15 .. 22} \cup {<<0, 17>>}
  <2> DEFINE m == s.arg[3]
  <2>1. s.val \in 0 .. Pow(m)
    BY <1>2 DEF Pow
  <2>2. RemArgs(s.arg[1], s.arg[2], s.arg[3]) /\ m \in 0 .. 31
    BY <1>2 DEF RemArgs
  <2>3. Pow(m) \in Nat
    BY <2>2, PowerNext
  <2>4. s.val \in Nat /\ s.val <= Pow(m)
    BY <2>1, <2>3
  <2> QED
    BY <1>2, <2>2, <2>4
<1> QED
  BY <1>1, <1>2 DEF IsSymbol

(* Each of them takes the part of the interval that is the symbol's.       *)
LEMMA EncodedKeeps ==
  ASSUME NEW iv, Codes(enc, iv), encModels \in [DOMAIN Inistate -> Models], NEW s, IsSymbol(s)
  PROVE  Codes(Encoded(s), After(iv, encModels, s))
<1>1. CASE s.kind = "ctx" /\ s.arg[1] \in DOMAIN Inistate /\ s.val \in Bit
  <2>1. encModels[s.arg[1]] \in Models
    BY <1>1
  <2>2. /\ Encoded(s) = EncodeBin(enc, encModels[s.arg[1]], s.val)
        /\ After(iv, encModels, s) = AfterBin(iv, encModels[s.arg[1]], s.val)
    BY <1>1 DEF Encoded, After
  <2> QED
    BY <2>1, <2>2, EncodeBinKeeps
<1>2. CASE s.kind = "ep" /\ s.val \in Bit
  <2>1. Encoded(s) = PutEP(enc, s.val, 1) /\ After(iv, encModels, s) = Bins(iv, s.val, 1)
    BY <1>2 DEF Encoded, EncodeBinEP, After
  <2>2. s.val \in Nat /\ s.val < Pow(1) /\ 1 \in 0 .. 8
    BY <1>2, PowerTable DEF Bit
  <2> QED
    BY <2>1, <2>2, PutEPKeeps
<1>3. CASE s.kind = "eps" /\ s.arg[1] \in 1 .. 30 /\ s.val \in Nat /\ s.val < Pow(s.arg[1])
  <2>1. Encoded(s) = EncodeBinsEP(enc, s.val, s.arg[1]) /\ After(iv, encModels, s) = Bins(iv, s.val, s.arg[1])
    BY <1>3 DEF Encoded, After
  <2>2. s.arg[1] \in 0 .. 31
    BY <1>3
  <2> QED
    BY <1>3, <2>1, <2>2, EncodeBinsEPKeeps
<1>4. CASE /\ s.kind = "rem" /\ RemArgs(s.arg[1], s.arg[2], s.arg[3])
           /\ s.val \in Nat /\ s.val <= Pow(s.arg[3])
  <2>1. /\ Encoded(s) = EncodeRemAbsEP(enc, s.val, s.arg[1], s.arg[2], s.arg[3])
        /\ After(iv, encModels, s) = AfterRem(iv, s.val, s.arg[1], s.arg[2], s.arg[3])
    BY <1>4 DEF Encoded, After
  <2> QED
    BY <1>4, <2>1, EncodeRemAbsEPKeeps
<1>5. CASE s.kind = "trm" /\ s.val = 0
  <2>1. Encoded(s) = EncodeBinTrm(enc, 0) /\ After(iv, encModels, s) = AfterTrm(iv)
    BY <1>5 DEF Encoded, After
  <2> QED
    BY <2>1, EncodeBinTrmKeeps
<1> QED
  BY <1>1, <1>2, <1>3, <1>4, <1>5, SymbolKinds

----------------------------------------------------------------------------
(* The bytes of the whole substream.                                       *)

\* the registers of a finished encoder
Finished(e) == e \in Encoders /\ e.bitsLeft \in 12 .. 23

\* the bytes are all there is, and lie in the terminating bin's part
Ends(v, size, iv) ==
  /\ BytesFor(iv.bits) = size
  /\ \E h \in Nat : /\ 2 * h <= iv.low + iv.range - 2 /\ iv.low + iv.range - 2 <= 2 * h + 1
                    /\ v[size] = (2 * h + 1) * Pow(Ahead(iv.bits))

(* One byte more.                                                          *)
LEMMA NumbersByte ==
  ASSUME NEW data \in Seq(Bytes), NEW w, Numbers(w, data), NEW b \in Bytes
  PROVE  /\ data \o <<b>> \in Seq(Bytes) /\ Len(data \o <<b>>) = Len(data) + 1
         /\ \E x : Numbers(x, data \o <<b>>) /\ x[Len(data) + 1] = 256 * w[Len(data)] + b
<1> DEFINE all == data \o <<b>>
           n   == Len(data)
           x   == [k \in 0 .. n + 1 |-> IF k <= n THEN w[k] ELSE 256 * w[n] + b]
<1>1. n \in Nat /\ n \in 0 .. n /\ b \in Nat
  BY DEF Bytes
<1>2. w \in [0 .. n -> Nat] /\ w[0] = 0 /\ \A k \in 0 .. n - 1 : w[k + 1] = 256 * w[k] + data[k + 1]
  BY DEF Numbers
<1>3. all \in Seq(Bytes) /\ Len(all) = n + 1 /\ \A k \in 1 .. n : all[k] = data[k]
  OBVIOUS
<1>4. all[n + 1] = b
  OBVIOUS
<1> HIDE DEF all, n
<1>5. w[n] \in Nat /\ \A k \in 0 .. n : w[k] \in Nat
  BY <1>1, <1>2
<1>6. x \in [0 .. n + 1 -> Nat] /\ x[n + 1] = 256 * w[n] + b /\ \A k \in 0 .. n : x[k] = w[k]
  BY <1>1, <1>5
<1> HIDE DEF x
<1>7. ASSUME NEW k \in 0 .. n
      PROVE  x[k + 1] = 256 * x[k] + all[k + 1]
  <2>1. CASE k = n
    BY <2>1, <1>1, <1>4, <1>6
  <2>2. CASE k # n
    <3>1. k \in 0 .. n - 1 /\ k + 1 \in 0 .. n /\ k + 1 \in 1 .. n
      BY <2>2, <1>1
    <3> QED
      BY <3>1, <1>2, <1>3, <1>6
  <2> QED
    BY <2>1, <2>2
<1>8. Numbers(x, all)
  <2>1. Len(all) - 1 = n /\ x[0] = 0
    BY <1>1, <1>2, <1>3, <1>6
  <2> QED
    BY <2>1, <1>3, <1>6, <1>7 DEF Numbers
<1> QED
  BY <1>3, <1>6, <1>8 DEF all, n

(* Two, one after the other.                                               *)
LEMMA TwoBytes ==
  ASSUME NEW data \in Seq(Bytes), NEW b1 \in Bytes, NEW b2 \in Bytes
  PROVE  (data \o <<b1>>) \o <<b2>> = data \o <<b1, b2>>
<1> DEFINE n == Len(data)
           s == data \o <<b1>>
           x == s \o <<b2>>
           y == data \o <<b1, b2>>
<1>1. s \in Seq(Bytes) /\ Len(s) = n + 1 /\ n \in Nat
  OBVIOUS
<1>2. \A i \in 1 .. n + 1 : s[i] = IF i <= n THEN data[i] ELSE b1
  OBVIOUS
<1> HIDE DEF s
<1>3. x \in Seq(Bytes) /\ Len(x) = n + 2
  BY <1>1
<1>4. \A i \in 1 .. n + 2 : x[i] = IF i <= n + 1 THEN s[i] ELSE b2
  BY <1>1
<1>5. y \in Seq(Bytes) /\ Len(y) = n + 2
  OBVIOUS
<1>6. \A i \in 1 .. n + 2 : y[i] = IF i <= n THEN data[i] ELSE IF i = n + 1 THEN b1 ELSE b2
  OBVIOUS
<1> HIDE DEF x, y, n
<1>7. \A i \in 1 .. n + 2 : x[i] = y[i]
  BY <1>1, <1>2, <1>4, <1>6
<1>8. x = y
  BY <1>3, <1>5, <1>7, SeqEqual
<1> QED
  BY <1>8 DEF x, y, s

(* The last bits, and the stop bit.                                        *)
LEMMA AlignedKeeps ==
  ASSUME NEW n \in 1 .. 12, NEW u \in Nat, u < Pow(n), NEW data \in Seq(Bytes), NEW w, Numbers(w, data)
  PROVE  /\ data \o Aligned(u, n) \in Seq(Bytes)
         /\ Len(data \o Aligned(u, n)) = Len(data) + (IF n < 8 THEN 1 ELSE 2)
         /\ \E x : /\ Numbers(x, data \o Aligned(u, n))
                   /\ x[Len(data) + (IF n < 8 THEN 1 ELSE 2)]
                        = (2 * (u + w[Len(data)] * Pow(n)) + 1) * Pow(IF n < 8 THEN 7 - n ELSE 15 - n)
<1> DEFINE p == Pow(n)
           y == w[Len(data)]
<1>0. y \in Nat /\ Len(data) \in Nat
  <2>1. w \in [0 .. Len(data) -> Nat] /\ Len(data) \in 0 .. Len(data)
    BY DEF Numbers
  <2> QED
    BY <2>1
<1>1. CASE n < 8
  <2> DEFINE r == Pow(7 - n)
             b == (2 * u + 1) * r
  <2>1. n \in 0 .. 32 /\ 7 - n \in 0 .. 8 /\ n + (7 - n) = 7 /\ n + (7 - n) <= 32
    BY <1>1
  <2>2. p \in Nat /\ r \in Nat /\ p * r = 128
    <3>1. p \in Nat /\ r \in Nat /\ p * r = Pow(n + (7 - n))
      BY <2>1, PowerSum, ZenonT(30)
    <3>2. Pow(n + (7 - n)) = 128
      BY <2>1, PowerTable
    <3> HIDE DEF p, r
    <3> QED
      BY <3>1, <3>2
  <2>3. Aligned(u, n) = <<b>>
    BY <1>1, Zenon DEF Aligned, Pow
  <2>4. Aligned(u, n) \in Seq(Bytes)
    BY AlignedOk
  <2>5. b \in Bytes
    <3> HIDE DEF b
    <3>1. <<b>> \in Seq(Bytes) /\ Len(<<b>>) = 1 /\ <<b>>[1] = b
      BY <2>3, <2>4
    <3> QED
      BY <3>1
  <2> HIDE DEF b
  <2>6. /\ data \o <<b>> \in Seq(Bytes) /\ Len(data \o <<b>>) = Len(data) + 1
        /\ \E x : Numbers(x, data \o <<b>>) /\ x[Len(data) + 1] = 256 * y + b
    BY <2>5, NumbersByte
  <2> HIDE DEF p, r, y
  <2>7. 256 * y + b = (2 * (u + y * p) + 1) * r
    <3>1. (2 * (u + y * p) + 1) * r = (2 * u + 1) * r + (2 * y) * (p * r)
      BY <1>0, <2>2
    <3>2. (2 * u + 1) * r \in Nat /\ (2 * y) * 128 = 256 * y
      BY <1>0, <2>2
    <3> QED
      BY <3>1, <3>2, <1>0, <2>2 DEF b
  <2>8. PICK x : Numbers(x, data \o <<b>>) /\ x[Len(data) + 1] = (2 * (u + y * p) + 1) * r
    BY <2>6, <2>7
  <2> QED
    BY <1>1, <2>3, <2>6, <2>8 DEF p, r, y
<1>2. CASE n >= 8
  <2> DEFINE r  == Pow(15 - n)
             s  == (2 * u + 1) * r
             b1 == s \div 256
             b2 == s % 256
             d1 == data \o <<b1>>
  <2>1. n \in 0 .. 32 /\ 15 - n \in 0 .. 8 /\ n + (15 - n) = 15 /\ n + (15 - n) <= 32
    BY <1>2
  <2>2. p \in Nat /\ r \in Nat /\ p * r = 32768
    <3>1. p \in Nat /\ r \in Nat /\ p * r = Pow(n + (15 - n))
      BY <2>1, PowerSum, ZenonT(30)
    <3>2. Pow(n + (15 - n)) = 32768
      BY <2>1, PowerTable
    <3> HIDE DEF p, r
    <3> QED
      BY <3>1, <3>2
  <2>3. Aligned(u, n) = <<b1, b2>>
    BY <1>2 DEF Aligned, Pow
  <2>4. Aligned(u, n) \in Seq(Bytes)
    BY AlignedOk
  <2>5. s \in Nat
    <3> HIDE DEF r
    <3> QED
      BY <2>2
  <2>6. s = 256 * b1 + b2
    <3> HIDE DEF s
    <3> QED
      BY <2>5
  <2> HIDE DEF s, b1, b2
  <2>7. b1 \in Bytes /\ b2 \in Bytes
    <3>1. <<b1, b2>> \in Seq(Bytes) /\ Len(<<b1, b2>>) = 2 /\ <<b1, b2>>[1] = b1 /\ <<b1, b2>>[2] = b2
      BY <2>3, <2>4
    <3> QED
      BY <3>1
  <2>8. /\ d1 \in Seq(Bytes) /\ Len(d1) = Len(data) + 1
        /\ \E x : Numbers(x, d1) /\ x[Len(data) + 1] = 256 * y + b1
    BY <2>7, NumbersByte
  <2>9. PICK x1 : Numbers(x1, d1) /\ x1[Len(data) + 1] = 256 * y + b1
    BY <2>8
  <2>10. d1 \o <<b2>> = data \o <<b1, b2>>
    BY <2>7, TwoBytes
  <2> HIDE DEF d1
  <2>11. /\ d1 \o <<b2>> \in Seq(Bytes) /\ Len(d1 \o <<b2>>) = Len(d1) + 1
         /\ \E x : Numbers(x, d1 \o <<b2>>) /\ x[Len(d1) + 1] = 256 * x1[Len(d1)] + b2
    BY <2>7, <2>8, <2>9, NumbersByte
  <2>12. PICK x : Numbers(x, d1 \o <<b2>>) /\ x[Len(d1) + 1] = 256 * x1[Len(d1)] + b2
    BY <2>11
  <2> HIDE DEF p, r, y
  <2>13. 256 * (256 * y + b1) + b2 = (2 * (u + y * p) + 1) * r
    <3>1. (2 * (u + y * p) + 1) * r = (2 * u + 1) * r + (2 * y) * (p * r)
      BY <1>0, <2>2
    <3>2. (2 * u + 1) * r \in Nat /\ (2 * y) * 32768 = 65536 * y
      BY <1>0, <2>2
    <3>3. b1 \in Nat /\ b2 \in Nat /\ (2 * u + 1) * r = 256 * b1 + b2
      BY <2>6, <2>7 DEF s, Bytes
    <3> QED
      BY <3>1, <3>2, <3>3, <1>0, <2>2
  <2>14. Len(d1) + 1 = Len(data) + 2 /\ x[Len(data) + 2] = (2 * (u + y * p) + 1) * r
    <3>1. Len(d1) + 1 = Len(data) + 2
      BY <2>8, <1>0
    <3> QED
      BY <3>1, <2>8, <2>9, <2>12, <2>13
  <2>15. /\ data \o <<b1, b2>> \in Seq(Bytes) /\ Len(data \o <<b1, b2>>) = Len(data) + 2
         /\ Numbers(x, data \o <<b1, b2>>)
    BY <2>10, <2>11, <2>12, <2>14
  <2> QED
    BY <1>2, <2>3, <2>14, <2>15 DEF p, r, y
<1> QED
  BY <1>1, <1>2

(* What is held is written out, the carry added.                           *)
LEMMA SettledKeeps ==
  ASSUME NEW e, EncoderOk(e), NEW v, Stands(v, e)
  PROVE  /\ e.bytes \o Settled(e) \in Seq(Bytes) /\ Len(e.bytes \o Settled(e)) = Given(e)
         /\ \E w : /\ Numbers(w, e.bytes \o Settled(e))
                   /\ w[Given(e)] * CarryOut(e) + Window(e) = v[Given(e)] * CarryOut(e) + e.low
<1> DEFINE bytes == e.bytes
           n     == Len(bytes)
           num   == e.numBufferedBytes
           size  == Given(e)
           all   == bytes \o Settled(e)
           d     == CarryOut(e)
           c     == IF Carries(e) THEN 1 ELSE 0
           x     == IF Carries(e) THEN 0 ELSE 255
           b     == e.bufferedByte + c
           w     == [k \in 0 .. size |-> IF k <= n THEN v[k] ELSE v[k] + c]
<1>1. bytes \in Seq(Bytes) /\ n \in Nat /\ num \in Nat /\ e.bufferedByte \in Bytes /\ e.low \in Nat
  BY DEF EncoderOk, Sound, Encoders
<1>2. /\ Carries(e) => num > 0 /\ e.bufferedByte < 255
      /\ Settled(e) \in Seq(Bytes) /\ d \in Nat /\ Window(e) \in Nat
  <2>1. d = 256 * Pow(24 - e.bitsLeft) /\ Pow(24 - e.bitsLeft) \in Nat
    BY SettledOk
  <2> QED
    BY <2>1, SettledOk
<1>3. size = n + num /\ size \in Nat
  BY <1>1 DEF Given
<1>4. /\ v \in [0 .. size -> Nat] /\ v[0] = 0
      /\ \A k \in 0 .. n - 1 : v[k + 1] = 256 * v[k] + bytes[k + 1]
      /\ num > 0 => v[n + 1] = 256 * v[n] + e.bufferedByte
      /\ \A k \in n + 1 .. size - 1 : v[k + 1] = 256 * v[k] + 255
      /\ num = 0 => n = 0
  BY DEF Stands
<1>5. e.low = Window(e) + c * d
  BY <1>1, <1>2 DEF Window, Carries
<1>6. (c = 0 /\ x = 255) \/ (c = 1 /\ x = 0 /\ num > 0 /\ e.bufferedByte < 255)
  BY <1>2
<1>7. Settled(e) = IF num = 0 THEN << >> ELSE <<b>> \o Times(x, num - 1)
  <2>1. e.bufferedByte + 0 = e.bufferedByte
    BY <1>1 DEF Bytes
  <2> QED
    BY <1>2, <2>1 DEF Settled
<1> HIDE DEF d, c, x
<1>8. CASE num = 0
  <2>1. n = 0 /\ size = 0 /\ c = 0
    BY <1>3, <1>4, <1>6, <1>8
  <2>2. all \in Seq(Bytes) /\ Len(all) = 0
    <3>1. bytes = << >> /\ Settled(e) = << >>
      BY <2>1, <1>1, <1>7, <1>8
    <3> QED
      BY <3>1
  <2> HIDE DEF all, n, size
  <2>3. Numbers(v, all)
    BY <2>1, <2>2, <1>4 DEF Numbers
  <2>4. v[size] * d + Window(e) = v[size] * d + e.low
    BY <2>1, <1>2, <1>5
  <2> QED
    BY <2>1, <2>2, <2>3, <2>4 DEF all, size, d
<1>9. CASE num # 0
  <2>1. num - 1 \in Nat /\ x \in Bytes /\ b \in Bytes
    BY <1>1, <1>6, <1>9 DEF Bytes
  <2> DEFINE j == num - 1
  <2>2. IsRun(all, bytes, b, x, j)
    <3>1. all = bytes \o (<<b>> \o Times(x, j))
      BY <1>7, <1>9
    <3> HIDE DEF b, j, bytes
    <3>2. IsRun(bytes \o (<<b>> \o Times(x, j)), bytes, b, x, j)
      BY <2>1, <1>1, HeldRun DEF j
    <3> QED
      BY <3>1, <3>2
  <2> HIDE DEF all
  <2>3. /\ all \in Seq(Bytes) /\ Len(all) = n + (num - 1) + 1
        /\ \A k \in 0 .. n - 1 : all[k + 1] = bytes[k + 1]
        /\ all[n + 1] = b
        /\ \A k \in n + 1 .. n + (num - 1) : all[k + 1] = x
    BY <2>2 DEF IsRun
  <2> HIDE DEF n, num, size, bytes
  <2>4. Len(all) = size /\ n + (num - 1) = size - 1 /\ size > n /\ n \in 0 .. n /\ size \in n + 1 .. size
    BY <2>3, <1>1, <1>3, <1>9
  <2>5. \A k \in 0 .. size : v[k] \in Nat
    BY <1>4
  <2>6. /\ w \in [0 .. size -> Nat]
        /\ \A k \in 0 .. n : w[k] = v[k]
        /\ \A k \in n + 1 .. size : w[k] = v[k] + c
    <3>1. w \in [0 .. size -> Nat]
      BY <2>5, <1>6
    <3>2. \A k \in 0 .. size : w[k] = IF k <= n THEN v[k] ELSE v[k] + c
      OBVIOUS
    <3> HIDE DEF w
    <3> QED
      BY <3>1, <3>2, <2>4, <1>1
  <2> HIDE DEF w
  <2>7. w[0] = 0 /\ \A k \in 0 .. n - 1 : w[k + 1] = 256 * w[k] + all[k + 1]
    BY <2>3, <2>6, <1>1, <1>4
  <2>8. w[n + 1] = 256 * w[n] + all[n + 1]
    <3>1. n + 1 \in n + 1 .. size /\ n \in 0 .. size
      BY <2>4, <1>1, <1>3
    <3>2. w[n + 1] = v[n + 1] + c /\ w[n] = v[n] /\ v[n + 1] = 256 * v[n] + e.bufferedByte /\ all[n + 1] = b
      BY <3>1, <2>3, <2>4, <2>6, <1>1, <1>4, <1>9
    <3>3. v[n] \in Nat /\ e.bufferedByte \in Nat /\ c \in Nat /\ b = e.bufferedByte + c
      BY <3>1, <2>5, <1>1, <1>6 DEF Bytes, b
    <3> HIDE DEF b
    <3> QED
      BY <3>2, <3>3
  <2>9. ASSUME NEW k \in n + 1 .. size - 1
        PROVE  w[k + 1] = 256 * w[k] + all[k + 1]
    <3>1. k \in n + 1 .. size /\ k + 1 \in n + 1 .. size /\ k \in 0 .. size
      BY <1>1, <1>3
    <3>2. w[k + 1] = v[k + 1] + c /\ w[k] = v[k] + c /\ v[k + 1] = 256 * v[k] + 255 /\ all[k + 1] = x /\ v[k] \in Nat
      BY <3>1, <2>3, <2>4, <2>5, <2>6, <1>4
    <3> QED
      BY <3>2, <1>6
  <2>10. Numbers(w, all)
    <3>1. \A k \in 0 .. size - 1 : w[k + 1] = 256 * w[k] + all[k + 1]
      BY <2>7, <2>8, <2>9, <1>1, <1>3
    <3> QED
      BY <3>1, <2>4, <2>6, <2>7 DEF Numbers
  <2>11. w[size] * d + Window(e) = v[size] * d + e.low
    <3>1. w[size] = v[size] + c /\ v[size] \in Nat
      BY <2>4, <2>5, <2>6, <1>3
    <3> DEFINE y == v[size]
    <3> HIDE DEF y
    <3>2. (y + c) * d = y * d + c * d /\ y * d \in Nat /\ c * d \in Nat /\ y \in Nat
      BY <3>1, <1>2, <1>6, SMTT(60) DEF y
    <3>3. w[size] * d = y * d + c * d
      BY <3>1, <3>2 DEF y
    <3>4. (y * d + c * d) + Window(e) = y * d + e.low
      BY <3>2, <1>2, <1>5
    <3> QED
      BY <3>3, <3>4 DEF y
  <2> QED
    BY <2>3, <2>4, <2>10, <2>11 DEF all, size, d, bytes
<1> QED
  BY <1>8, <1>9

(* end_of_slice() and writeByteAlignment(): the bytes that are written lie *)
(* in the part of the terminating bin.                                     *)
LEMMA EndOfSliceKeeps ==
  ASSUME NEW e, NEW iv, Codes(e, iv)
  PROVE  /\ Finished(EndOfSlice(e)) /\ EndOfSlice(e).fits /\ EndOfSlice(e).bytes \in Seq(Bytes)
         /\ \E v : Numbers(v, EndOfSlice(e).bytes) /\ Ends(v, Len(EndOfSlice(e).bytes), iv)
<1> DEFINE f     == EncodeBinTrm(e, 1)
           fin   == EndOfSlice(e)
           n     == 24 - f.bitsLeft
           p     == Pow(n)
           u     == Window(f) \div 256
           r     == Window(f) % 256
           g     == Given(f)
           start == f.bytes \o Settled(f)
           more  == IF n < 8 THEN 1 ELSE 2
           a     == IF n < 8 THEN 7 - n ELSE 15 - n
           l     == iv.low + iv.range - 2
<1>1. Codes(f, Ended(iv)) /\ fin = Finish(f)
  BY EncodeBinTrmKeeps DEF EndOfSlice
<1>2. EncoderOk(f) /\ f \in Encoders /\ f.bitsLeft \in 12 .. 23 /\ f.low \in Nat /\ f.bytes \in Seq(Bytes)
      /\ g \in Nat
  <2>1. EncoderOk(f) /\ f \in Encoders /\ f.bitsLeft >= 12
    BY <1>1 DEF Codes, EncoderOk, Sound
  <2> HIDE DEF f
  <2>2. f.bitsLeft \in 12 .. 23
    BY <2>1, SMTT(30) DEF Encoders
  <2> QED
    BY <2>1, <2>2 DEF Encoders, Given
<1>3. PICK v : Represents(f, v, Ended(iv))
  BY <1>1 DEF Codes
<1>4. /\ iv.low \in Nat /\ iv.range \in Nat /\ 256 <= iv.range /\ iv.bits \in Nat
  <2>1. iv \in Spans /\ e.range \in Ranges /\ iv.range = e.range
    BY DEF Codes, EncoderOk, Sound, Encoders, Represents
  <2> QED
    BY <2>1 DEF Spans, Ranges
<1>5. Ended(iv).low = 128 * l /\ l \in Nat /\ Ended(iv).bits = iv.bits + 7
  <2>1. Ended(iv).low = iv.low * Pow(7) + (iv.range - 2) * Pow(7) /\ Ended(iv).bits = iv.bits + 7
    BY DEF Ended, Part
  <2> QED
    BY <2>1, <1>4, PowerTable
<1> HIDE DEF f, fin, l
<1>6. n \in 1 .. 12 /\ p \in Nat /\ CarryOut(f) = 256 * p /\ Window(f) \in Nat
  BY <1>2, SettledOk
<1>7. PICK w : Numbers(w, start) /\ w[g] * CarryOut(f) + Window(f) = v[g] * CarryOut(f) + f.low
  BY <1>2, <1>3, SettledKeeps DEF Represents
<1>8. start \in Seq(Bytes) /\ Len(start) = g /\ Settled(f) \in Seq(Bytes)
  BY <1>2, <1>3, SettledKeeps, SettledOk DEF Represents
<1>9. /\ Aligned(u, n) \in Seq(Bytes) /\ u \in Nat /\ u < p
      /\ fin \in Encoders /\ fin.fits /\ fin.bitsLeft = f.bitsLeft
      /\ fin.bytes = f.bytes \o (Settled(f) \o Aligned(u, n))
  BY <1>1, <1>2, FinishOk, ZenonT(60)
<1>10. fin.bytes = start \o Aligned(u, n)
  <2> DEFINE s1 == f.bytes
             s2 == Settled(f)
             s3 == Aligned(u, n)
  <2>1. s1 \in Seq(Bytes) /\ s2 \in Seq(Bytes) /\ s3 \in Seq(Bytes)
    BY <1>2, <1>8, <1>9
  <2> HIDE DEF s1, s2, s3
  <2>2. (s1 \o s2) \o s3 = s1 \o (s2 \o s3)
    BY <2>1, ConcatAssociative, SMTT(30)
  <2> QED
    BY <2>2, <1>9 DEF s1, s2, s3
<1>11. /\ fin.bytes \in Seq(Bytes) /\ Len(fin.bytes) = g + more
       /\ \E x : Numbers(x, fin.bytes) /\ x[g + more] = (2 * (u + w[g] * p) + 1) * Pow(a)
  <2> DEFINE data == start
  <2>1. /\ data \in Seq(Bytes) /\ Len(data) = g /\ Numbers(w, data)
        /\ n \in 1 .. 12 /\ u \in Nat /\ u < Pow(n)
    BY <1>6, <1>7, <1>8, <1>9
  <2> HIDE DEF data, u, g, n
  <2>2. /\ data \o Aligned(u, n) \in Seq(Bytes)
        /\ Len(data \o Aligned(u, n)) = Len(data) + (IF n < 8 THEN 1 ELSE 2)
        /\ \E x : /\ Numbers(x, data \o Aligned(u, n))
                  /\ x[Len(data) + (IF n < 8 THEN 1 ELSE 2)]
                       = (2 * (u + w[Len(data)] * Pow(n)) + 1) * Pow(IF n < 8 THEN 7 - n ELSE 15 - n)
    BY <2>1, AlignedKeeps, ZenonT(60)
  <2> QED
    BY <2>1, <2>2, <1>10 DEF data, n
<1>12. PICK x : Numbers(x, fin.bytes) /\ x[g + more] = (2 * (u + w[g] * p) + 1) * Pow(a)
  BY <1>11
<1>13. BytesFor(iv.bits) = g + more /\ Ahead(iv.bits) = a
  <2>1. Ended(iv).bits = 8 * g + 32 - f.bitsLeft
    BY <1>3 DEF Represents
  <2>2. f.bitsLeft \in 12 .. 23 /\ g \in Nat
    BY <1>2
  <2> HIDE DEF g
  <2>3. iv.bits = 8 * g + (n + 1)
    BY <2>1, <2>2, <1>4, <1>5
  <2> HIDE DEF n
  <2>4. BytesFor(iv.bits) = g + more
    BY <2>2, <2>3, <1>6 DEF BytesFor
  <2> QED
    BY <2>2, <2>3, <2>4, <1>6 DEF Ahead
<1>14. w[g] \in Nat
  <2>1. w \in [0 .. g -> Nat] /\ g \in 0 .. g
    BY <1>2, <1>7, <1>8 DEF Numbers
  <2> QED
    BY <2>1
<1> DEFINE y == w[g]
           h == u + y * p
<1>15. 128 * l = y * (256 * p) + Window(f) /\ y \in Nat
  <2>1. 128 * l = v[g] * CarryOut(f) + f.low
    BY <1>3, <1>5 DEF Represents
  <2> QED
    BY <2>1, <1>6, <1>7, <1>14
<1>16. Window(f) = 256 * u + r /\ r \in 0 .. 255
  <2> DEFINE z == Window(f)
  <2>1. z \in Nat
    BY <1>6
  <2> HIDE DEF z
  <2>2. z = 256 * (z \div 256) + (z % 256) /\ z % 256 \in 0 .. 255
    BY <2>1
  <2> QED
    BY <2>2 DEF z
<1>17. h \in Nat /\ 2 * h <= l /\ l <= 2 * h + 1
  <2> HIDE DEF u, r, y, p
  <2>1. y * p \in Nat /\ y * (256 * p) = 256 * (y * p)
    BY <1>6, <1>15
  <2> DEFINE z == y * p
  <2>2. z \in Nat /\ u \in Nat /\ r \in 0 .. 255 /\ h = u + z /\ 128 * l = 256 * z + (256 * u + r)
    BY <2>1, <1>9, <1>15, <1>16
  <2> HIDE DEF h, z
  <2> QED
    BY <2>2, <1>5
<1>18. Ends(x, Len(fin.bytes), iv)
  <2>1. x[Len(fin.bytes)] = (2 * h + 1) * Pow(Ahead(iv.bits))
    BY <1>11, <1>12, <1>13
  <2>2. l = iv.low + iv.range - 2
    BY DEF l
  <2> HIDE DEF h
  <2> QED
    BY <2>1, <2>2, <1>11, <1>13, <1>17 DEF Ends
<1>19. Finished(fin)
  BY <1>2, <1>9 DEF Finished
<1> QED
  BY <1>9, <1>11, <1>12, <1>18, <1>19, ZenonT(40) DEF fin

----------------------------------------------------------------------------
(* The registers of the decoder stand for a number in an interval.         *)

Decoders == [value : Int, range : Nat, bitsNeeded : Int, pos : Nat, data : Seq(Bytes),
             exceeded : BOOLEAN, result : Int]

\* the bytes read are those of the interval, m_Value what they are above its
\* lower end, seven bits finer
At(d, v, iv) ==
  /\ d \in Decoders /\ Numbers(v, d.data) /\ ~d.exceeded
  /\ d.pos = BytesFor(iv.bits) /\ d.pos <= Len(d.data)
  /\ d.bitsNeeded = -1 - Ahead(iv.bits)
  /\ d.value = v[d.pos] * Pow(7 - Ahead(iv.bits)) - 128 * iv.low

Reading(d, v, iv) == At(d, v, iv) /\ iv \in Spans /\ d.range = iv.range /\ d.range \in Ranges

(* A power is a number.                                                    *)
LEMMA PowerNat ==
  ASSUME NEW n \in 0 .. 32
  PROVE  Pow(n) \in Nat /\ Pow(n) >= 1
  BY PowerTable

(* A part without a shift.                                                 *)
LEMMA SamePart ==
  ASSUME NEW iv \in Spans, NEW offset \in Nat, NEW range
  PROVE  Part(iv, 0, offset, range) = [low |-> iv.low + offset, range |-> range, bits |-> iv.bits]
<1>1. Pow(0) = 1
  BY PowerTable
<1>2. iv.low \in Nat /\ iv.bits \in Nat
  BY DEF Spans
<1>3. iv.low * 1 + offset = iv.low + offset /\ iv.bits + 0 = iv.bits
  BY <1>2
<1> QED
  BY <1>1, <1>3 DEF Part

(* What the number has to do with it.                                      *)
LEMMA AtNumbers ==
  ASSUME NEW d, NEW v, NEW iv \in Spans, At(d, v, iv)
  PROVE  /\ d.pos \in 0 .. Len(d.data) /\ v[d.pos] \in Nat
         /\ Ahead(iv.bits) \in 0 .. 7 /\ Pow(7 - Ahead(iv.bits)) \in Nat /\ Pow(7 - Ahead(iv.bits)) >= 1
         /\ Pow(Ahead(iv.bits)) \in Nat
         /\ Pow(Ahead(iv.bits)) * Pow(7 - Ahead(iv.bits)) = 128
<1> DEFINE a == Ahead(iv.bits)
<1>1. iv.bits \in Nat
  BY DEF Spans
<1>2. a \in 0 .. 7
  BY <1>1, BytesNext
<1>3. d.pos \in 0 .. Len(d.data)
  BY DEF At, Decoders
<1>4. v[d.pos] \in Nat
  BY <1>3 DEF At, Numbers
<1> HIDE DEF a
<1>5. a \in 0 .. 32 /\ 7 - a \in 0 .. 8 /\ a + (7 - a) = 7 /\ a + (7 - a) <= 32
  BY <1>2
<1>6. Pow(a) \in Nat /\ Pow(7 - a) \in Nat /\ Pow(7 - a) >= 1 /\ Pow(a + (7 - a)) = Pow(a) * Pow(7 - a)
  BY <1>5, PowerSum, ZenonT(30)
<1>7. Pow(a + (7 - a)) = 128
  BY <1>5, PowerTable
<1> DEFINE x == Pow(a)
           y == Pow(7 - a)
           z == Pow(a + (7 - a))
<1> HIDE DEF x, y, z
<1>8. x * y = 128
  BY <1>6, <1>7 DEF x, y, z
<1> QED
  BY <1>2, <1>3, <1>4, <1>6, <1>8 DEF a, x, y

(* Where in the interval the number is.                                    *)
LEMMA Within ==
  ASSUME NEW d, NEW v, NEW iv \in Spans, At(d, v, iv), NEW offset \in Nat, NEW range \in Nat,
         Starts(v, Len(d.data), Part(iv, 0, offset, range))
  PROVE  /\ 128 * offset <= d.value /\ d.value < 128 * (offset + range)
<1> DEFINE a == Ahead(iv.bits)
           x == v[d.pos]
           p == Pow(a)
           q == Pow(7 - a)
           l == iv.low
<1>1. x \in Nat /\ p \in Nat /\ q \in Nat /\ q >= 1 /\ p * q = 128 /\ l \in Nat /\ iv.bits \in Nat
  BY AtNumbers DEF Spans
<1>2. d.value = x * q - 128 * l /\ d.pos = BytesFor(iv.bits)
  BY DEF At
<1>3. (l + offset) * p <= x /\ x < ((l + offset) + range) * p
  <2>1. Part(iv, 0, offset, range) = [low |-> l + offset, range |-> range, bits |-> iv.bits]
    BY SamePart
  <2> QED
    BY <2>1, <1>2 DEF Starts
<1> HIDE DEF x, p, q, l
<1> DEFINE b == l + offset
           c == b + range
<1>4. b \in Nat /\ c \in Nat /\ b * p <= x /\ x < c * p
  BY <1>1, <1>3
<1> HIDE DEF b, c
<1>5. (b * p) * q <= x * q /\ x * q < (c * p) * q
  <2>1. b * p \in Nat /\ c * p \in Nat
    BY <1>1, <1>4
  <2> DEFINE y == b * p
             z == c * p
  <2> HIDE DEF y, z
  <2>2. y * q <= x * q
    BY <2>1, <1>1, <1>4 DEF y, z
  <2>3. (x + 1) * q <= z * q /\ (x + 1) * q = x * q + q
    BY <2>1, <1>1, <1>4 DEF y, z
  <2>4. x * q \in Nat /\ z * q \in Nat
    BY <2>1, <1>1 DEF z
  <2> QED
    BY <2>2, <2>3, <2>4, <1>1 DEF y, z
<1>6. (b * p) * q = 128 * b /\ (c * p) * q = 128 * c
  <2>1. (b * p) * q = b * (p * q) /\ (c * p) * q = c * (p * q)
    BY <1>1, <1>4
  <2> QED
    BY <2>1, <1>1, <1>4
<1>7. x * q \in Nat /\ b = l + offset /\ c = (l + offset) + range
  BY <1>1 DEF b, c
<1> QED
  BY <1>1, <1>2, <1>5, <1>6, <1>7

(* Registers that the interval says nothing about.                         *)
LEMMA AtOther ==
  ASSUME NEW d, NEW v, NEW iv, At(d, v, iv), NEW range \in Nat
  PROVE  /\ At([d EXCEPT !.range = range], v, iv)
         /\ \A result \in Int : /\ At([d EXCEPT !.result = result], v, iv)
                                /\ At([d EXCEPT !.range = range, !.result = result], v, iv)
<1>1. d \in Decoders
  BY DEF At
<1>2. ASSUME NEW f \in Decoders, f.value = d.value, f.bitsNeeded = d.bitsNeeded, f.pos = d.pos,
             f.data = d.data, f.exceeded = d.exceeded
      PROVE  At(f, v, iv)
  BY <1>2 DEF At
<1>3. At([d EXCEPT !.range = range], v, iv)
  <2> DEFINE f == [d EXCEPT !.range = range]
  <2>1. /\ f \in Decoders /\ f.value = d.value /\ f.bitsNeeded = d.bitsNeeded /\ f.pos = d.pos
        /\ f.data = d.data /\ f.exceeded = d.exceeded
    BY <1>1 DEF Decoders
  <2> HIDE DEF f
  <2>2. At(f, v, iv)
    BY <2>1, <1>2
  <2> QED
    BY <2>2 DEF f
<1>4. ASSUME NEW result \in Int
      PROVE  /\ At([d EXCEPT !.result = result], v, iv)
             /\ At([d EXCEPT !.range = range, !.result = result], v, iv)
  <2> DEFINE f == [d EXCEPT !.result = result]
             g == [d EXCEPT !.range = range, !.result = result]
  <2>1. /\ f \in Decoders /\ f.value = d.value /\ f.bitsNeeded = d.bitsNeeded /\ f.pos = d.pos
        /\ f.data = d.data /\ f.exceeded = d.exceeded
    BY <1>1 DEF Decoders
  <2>2. /\ g \in Decoders /\ g.value = d.value /\ g.bitsNeeded = d.bitsNeeded /\ g.pos = d.pos
        /\ g.data = d.data /\ g.exceeded = d.exceeded
    BY <1>1 DEF Decoders
  <2> HIDE DEF f, g
  <2>3. At(f, v, iv) /\ At(g, v, iv)
    BY <2>1, <2>2, <1>2
  <2> QED
    BY <2>3 DEF f, g
<1> QED
  BY <1>3, <1>4

(* A part that begins higher, without a shift.                             *)
LEMMA AtPart ==
  ASSUME NEW d, NEW v, NEW iv \in Spans, At(d, v, iv), NEW offset \in Nat, NEW range, NEW result \in Int
  PROVE  At([d EXCEPT !.value = d.value - 128 * offset, !.result = result], v, Part(iv, 0, offset, range))
<1> DEFINE f == [d EXCEPT !.value = d.value - 128 * offset, !.result = result]
           x == v[d.pos] * Pow(7 - Ahead(iv.bits))
<1>1. d \in Decoders /\ iv.low \in Nat /\ iv.bits \in Nat
  BY DEF At, Spans
<1>2. Part(iv, 0, offset, range) = [low |-> iv.low + offset, range |-> range, bits |-> iv.bits]
  BY SamePart
<1>2a. d.value - 128 * offset \in Int
  BY <1>1 DEF Decoders
<1>3. /\ f \in Decoders /\ f.value = d.value - 128 * offset /\ f.bitsNeeded = d.bitsNeeded
      /\ f.pos = d.pos /\ f.data = d.data /\ f.exceeded = d.exceeded
  BY <1>1, <1>2a DEF Decoders
<1>4. f.value = x - 128 * (iv.low + offset)
  <2>1. d.value = x - 128 * iv.low /\ x \in Nat
    <3>1. v[d.pos] \in Nat /\ Pow(7 - Ahead(iv.bits)) \in Nat
      BY AtNumbers
    <3> QED
      BY <3>1 DEF At
  <2> HIDE DEF x, f
  <2> QED
    BY <2>1, <1>1, <1>3
<1> HIDE DEF f
<1> QED
  BY <1>2, <1>3, <1>4 DEF At, f

\* the calls leave the other registers
MovesTo(s, d, v, iv) ==
  At(s, v, iv) /\ s.result = d.result /\ s.range = d.range /\ s.data = d.data

(* A part that is finer: the next byte is read when it is needed, and is   *)
(* there.                                                                  *)
LEMMA ShiftAt ==
  ASSUME NEW d, NEW v, NEW iv \in Spans, At(d, v, iv), NEW n \in 0 .. 8, NEW offset \in Nat, NEW range,
         BytesFor(iv.bits + n) <= Len(d.data)
  PROVE  MovesTo(Dec!Shift(d, d.value * Pow(n) - 128 * offset, n), d, v, Part(iv, n, offset, range))
<1> DEFINE shifted == d.value * Pow(n) - 128 * offset
           s    == [d EXCEPT !.value = shifted, !.bitsNeeded = d.bitsNeeded + n]
           part == Part(iv, n, offset, range)
           a    == Ahead(iv.bits)
           x    == v[d.pos]
           p    == Pow(n)
           q    == Pow(7 - a)
           l    == iv.low
<1>1. d \in Decoders /\ iv.bits \in Nat /\ l \in Nat /\ p \in Nat /\ d.value \in Int
  <2>1. n \in 0 .. 32
    OBVIOUS
  <2>2. p \in Nat
    BY <2>1, PowerNat, Zenon
  <2> QED
    BY <2>2 DEF At, Spans, Decoders
<1>2. /\ d.pos = BytesFor(iv.bits) /\ d.bitsNeeded = -1 - a /\ d.value = x * q - 128 * l /\ ~d.exceeded
      /\ Numbers(v, d.data) /\ d.pos \in 0 .. Len(d.data) /\ d.pos \in Nat
  <2>1. d.pos \in 0 .. Len(d.data)
    BY AtNumbers
  <2>2. d.pos \in Nat
    BY <1>1 DEF Decoders
  <2> QED
    BY <2>1, <2>2 DEF At
<1>3. x \in Nat /\ a \in 0 .. 7 /\ q \in Nat
  BY AtNumbers
<1>4. /\ n <= a => BytesFor(iv.bits + n) = d.pos /\ Ahead(iv.bits + n) = a - n
      /\ n > a => BytesFor(iv.bits + n) = d.pos + 1 /\ Ahead(iv.bits + n) = a + 8 - n
  <2> DEFINE bits == iv.bits
  <2>1. bits \in Nat /\ n \in 0 .. 8 /\ d.pos = BytesFor(bits) /\ a = Ahead(bits)
    BY <1>1, <1>2
  <2> HIDE DEF a, bits
  <2>2. /\ n <= a => BytesFor(bits + n) = d.pos /\ Ahead(bits + n) = a - n
        /\ n > a => BytesFor(bits + n) = d.pos + 1 /\ Ahead(bits + n) = a + 8 - n
    BY ONLY <2>1, BytesNext
  <2> QED
    BY <2>2 DEF bits
<1>5. part.low = l * p + offset /\ part.bits = iv.bits + n
  BY DEF Part
<1>6. shifted \in Int /\ shifted = x * (q * p) - 128 * (l * p + offset)
  <2>1. shifted = d.value * p - 128 * offset
    OBVIOUS
  <2> HIDE DEF shifted, x, p, q, l
  <2>2. (x * q - 128 * l) * p = x * (q * p) - 128 * (l * p)
    BY <1>1, <1>3
  <2>3. x * (q * p) \in Nat /\ l * p \in Nat /\ d.value * p \in Int
    BY <1>1, <1>3
  <2> DEFINE y == x * (q * p)
             z == l * p
             u == d.value * p
  <2>4. u = y - 128 * z /\ y \in Nat /\ z \in Nat /\ u \in Int /\ shifted = u - 128 * offset
    BY <2>1, <2>2, <2>3, <1>2
  <2> HIDE DEF y, z, u
  <2>5. shifted \in Int /\ shifted = y - 128 * (z + offset)
    BY <2>4
  <2> QED
    BY <2>5 DEF y, z
<1> HIDE DEF shifted
<1>7. /\ s \in Decoders /\ s.value = shifted /\ s.bitsNeeded = d.bitsNeeded + n /\ s.pos = d.pos
      /\ s.data = d.data /\ s.exceeded = d.exceeded /\ s.result = d.result /\ s.range = d.range
  <2>1. d.bitsNeeded + n \in Int
    BY <1>2, <1>3, SMTT(30)
  <2> QED
    BY <2>1, <1>1, <1>6, ZenonT(40) DEF Decoders
<1>8. Dec!Shift(d, shifted, n)
        = IF s.bitsNeeded >= 0 THEN [Dec!ReadByte(s, s.bitsNeeded) EXCEPT !.bitsNeeded = Dec!ReadByte(s, s.bitsNeeded).bitsNeeded - 8]
          ELSE s
  BY DEF Dec!Shift
<1> HIDE DEF s, part
<1>9. CASE n <= a
  <2>1. Dec!Shift(d, shifted, n) = s
    <3>1. ~(s.bitsNeeded >= 0)
      BY <1>2, <1>3, <1>7, <1>9, SMTT(30)
    <3> QED
      BY <3>1, <1>8
  <2>2. BytesFor(part.bits) = d.pos /\ Ahead(part.bits) = a - n /\ s.bitsNeeded = -1 - (a - n)
    BY <1>2, <1>3, <1>4, <1>5, <1>7, <1>9, SMTT(30)
  <2>3. Pow(7 - (a - n)) = q * p
    <3>1. 7 - a \in 0 .. 32 /\ (7 - a) + n <= 32 /\ 7 - (a - n) = (7 - a) + n
      BY <1>3, SMTT(30)
    <3> QED
      BY <3>1, PowerSum, ZenonT(40)
  <2>4. At(s, v, part)
    BY <2>2, <2>3, <1>2, <1>5, <1>6, <1>7 DEF At, x
  <2> QED
    BY <2>1, <2>4, <1>7 DEF MovesTo, part, shifted
<1>10. CASE n > a
  <2> DEFINE m == n - 1 - a
             b == d.data[d.pos + 1]
             y == v[d.pos + 1]
             w == Pow(m)
             f == [s EXCEPT !.value = shifted + b * w, !.pos = d.pos + 1]
             t == [f EXCEPT !.bitsNeeded = m - 8]
  <2>1. s.bitsNeeded = m /\ m \in 0 .. 7 /\ s.bitsNeeded >= 0
    <3>1. s.bitsNeeded = (-1 - a) + n /\ a \in 0 .. 7
      BY <1>2, <1>3, <1>7
    <3> HIDE DEF a
    <3> QED
      BY <3>1, <1>10
  <2>2. d.pos + 1 <= Len(d.data) /\ d.pos < Len(d.data) /\ d.pos \in 0 .. Len(d.data) - 1
        /\ d.pos + 1 \in 1 .. Len(d.data)
    <3>1. BytesFor(iv.bits + n) = d.pos + 1 /\ Len(d.data) \in Nat
      BY <1>1, <1>4, <1>10 DEF Decoders
    <3> QED
      BY <3>1, <1>2
  <2>3. y = 256 * x + b
    BY <2>2, <1>2 DEF Numbers
  <2>4. b \in Nat
    <3>1. d.data \in Seq(Bytes)
      BY <1>1 DEF Decoders
    <3>2. b \in Bytes
      BY <2>2, <3>1
    <3> QED
      BY <3>2 DEF Bytes
  <2>5. w \in Nat
    <3>1. m \in 0 .. 32
      BY <2>1
    <3> QED
      BY <3>1, PowerNat, Zenon
  <2>6. Dec!ReadByte(s, m) = f
    <3>1. s.pos < Len(s.data) /\ s.data[s.pos + 1] = b
      BY <2>2, <1>7
    <3>2. Dec!ReadByte(s, m) = [s EXCEPT !.value = s.value + s.data[s.pos + 1] * w, !.pos = s.pos + 1]
      BY <3>1 DEF Dec!ReadByte, Pow
    <3> HIDE DEF b, w, m
    <3> QED
      BY <3>1, <3>2, <1>7
  <2> HIDE DEF y, w, b
  <2>7. f.bitsNeeded = m
    BY <2>1, <1>7 DEF Decoders
  <2> HIDE DEF m
  <2>8. Dec!Shift(d, shifted, n) = t
    <3> HIDE DEF f
    <3> QED
      BY <2>1, <2>6, <2>7, <1>8
  <2>9. /\ f \in Decoders /\ f.value = shifted + b * w /\ f.pos = d.pos + 1
        /\ f.data = d.data /\ f.exceeded = d.exceeded /\ f.result = d.result /\ f.range = d.range
    <3>1. shifted + b * w \in Int /\ d.pos + 1 \in Nat
      BY <2>4, <2>5, <1>2, <1>6
    <3> QED
      BY <3>1, <1>7 DEF Decoders
  <2> HIDE DEF f
  <2>10. /\ t \in Decoders /\ t.value = shifted + b * w /\ t.pos = d.pos + 1 /\ t.bitsNeeded = m - 8
         /\ t.data = d.data /\ t.exceeded = d.exceeded /\ t.result = d.result /\ t.range = d.range
    <3>1. m - 8 \in Int
      BY <2>1
    <3> QED
      BY <3>1, <2>9 DEF Decoders
  <2> HIDE DEF t
  <2>11. /\ BytesFor(part.bits) = d.pos + 1 /\ Ahead(part.bits) = a + 8 - n
         /\ m - 8 = -1 - (a + 8 - n) /\ 7 - (a + 8 - n) = m
    BY <1>3, <1>4, <1>5, <1>10, SMTT(60) DEF m
  <2>12. 256 * w = q * p
    <3>1. /\ 7 - a \in 0 .. 32 /\ (7 - a) + n <= 32 /\ m \in 0 .. 32 /\ m + 8 <= 32 /\ 8 \in 0 .. 8
          /\ (7 - a) + n = m + 8
      BY <2>1, <1>3, SMTT(30) DEF m
    <3>2. Pow((7 - a) + n) = q * p
      BY <3>1, PowerSum, ZenonT(30)
    <3>3. Pow(m + 8) = Pow(m) * Pow(8)
      BY <3>1, PowerSum, ZenonT(30)
    <3>4. Pow(8) = 256
      BY PowerTable
    <3>5. q * p = w * 256
      BY <3>1, <3>2, <3>3, <3>4 DEF w
    <3> HIDE DEF q, p
    <3> QED
      BY <3>5, <2>5
  <2>13. t.value = y * w - 128 * (l * p + offset)
    <3>1. y * w = x * (256 * w) + b * w
      <4> HIDE DEF x
      <4> QED
        BY <2>3, <2>4, <2>5, <1>3
    <3> DEFINE z == x * (256 * w)
               c == b * w
               o == l * p + offset
    <3>2. z \in Nat /\ c \in Nat /\ o \in Nat
      <4> HIDE DEF x, l, p
      <4> QED
        BY <2>4, <2>5, <1>1, <1>3
    <3>3. shifted = z - 128 * o
      BY <2>12, <1>6
    <3> HIDE DEF z, c, o
    <3>4. t.value = (z - 128 * o) + c
      BY <3>3, <2>10 DEF c
    <3>5. t.value = (z + c) - 128 * o
      BY <3>2, <3>4
    <3> QED
      BY <3>1, <3>5 DEF z, c, o
  <2>14. At(t, v, part)
    BY <2>2, <2>10, <2>11, <2>13, <1>2, <1>5 DEF At, y, w
  <2> QED
    BY <2>8, <2>10, <2>14 DEF MovesTo, part, shifted
<1> QED
  BY <1>3, <1>9, <1>10

(* The less and the more probable symbol are the same for both sides.      *)
LEMMA SameModel ==
  ASSUME NEW m \in Models, NEW range
  PROVE  /\ Mps(m) \in Bit /\ Dec!Mps(m) = Mps(m)
         /\ Dec!GetLPS(m, range) = GetLPS(m, range)
<1>1. Dec!State(m) = State(m)
  BY DEF Dec!State, State
<1>2. Dec!Mps(m) = Mps(m)
  BY <1>1 DEF Dec!Mps, Mps
<1>3. Dec!GetLPS(m, range) = GetLPS(m, range)
  BY <1>1 DEF Dec!GetLPS, GetLPS, Dec!LpsOf, LpsOf
<1>4. Mps(m) \in Bit
  <2> DEFINE x == m.s0
             y == m.s1
  <2>1. x \in Nat /\ x <= 32767 /\ y \in Nat /\ y <= 32767
    BY DEF Models, Estimates
  <2>2. State(m) = (x + y) \div 256
    BY DEF State
  <2> HIDE DEF x, y
  <2>3. State(m) \in 0 .. 255
    BY <2>1, <2>2
  <2> DEFINE z == State(m)
  <2> HIDE DEF z
  <2>4. z \in 0 .. 255 /\ Mps(m) = z \div 128
    BY <2>3 DEF Mps, z
  <2> QED
    BY <2>4 DEF Bit
<1> QED
  BY <1>2, <1>3, <1>4

(* A part, before it is shifted.                                           *)
LEMMA PartStarts ==
  ASSUME NEW iv \in Spans, NEW data \in Seq(Bytes), NEW v, Numbers(v, data), NEW n \in 0 .. 8,
         NEW offset \in Nat, NEW range \in Nat,
         Starts(v, Len(data), Part(iv, n, offset * Pow(n), range * Pow(n)))
  PROVE  /\ Starts(v, Len(data), Part(iv, 0, offset, range))
         /\ BytesFor(iv.bits + n) <= Len(data)
<1> DEFINE part == Part(iv, 0, offset, range)
           p    == Pow(n)
<1>1. part = [low |-> iv.low + offset, range |-> range, bits |-> iv.bits]
  BY SamePart
<1>2. iv.low \in Nat /\ iv.bits \in Nat /\ part \in Spans
  BY <1>1 DEF Spans
<1>3. p \in Nat
  <2>1. n \in 0 .. 32
    OBVIOUS
  <2> QED
    BY <2>1, PowerNat, Zenon
<1>4. Part(part, n, 0, range * p) = Part(iv, n, offset * p, range * p)
  <2>1. (iv.low + offset) * p + 0 = iv.low * p + offset * p
    BY <1>2, <1>3
  <2> QED
    BY <2>1, <1>1 DEF Part
<1>5. 0 + range * p <= part.range * p /\ range * p \in Nat
  BY <1>1, <1>3
<1>6. Starts(v, Len(data), Part(part, n, 0, range * p))
  BY <1>4
<1> HIDE DEF part
<1>7. Starts(v, Len(data), part)
  <2> DEFINE x == range * p
  <2>1. x \in Nat /\ 0 \in Nat /\ 0 + x <= part.range * Pow(n) /\ Starts(v, Len(data), Part(part, n, 0, x))
    BY <1>5, <1>6
  <2> HIDE DEF x, p
  <2> QED
    BY <2>1, <1>2, WholeStarts
<1>8. BytesFor(iv.bits + n) <= Len(data)
  BY DEF Starts, Part
<1> QED
  BY <1>7, <1>8 DEF part

\* the registers after a call, in the new interval, and the value decoded
Reads(s, d, v, iv, value) == Reading(s, v, iv) /\ s.result = value /\ s.data = d.data

(* A shift to a part, and the new range.                                   *)
LEMMA ShiftReads ==
  ASSUME NEW d, NEW v, NEW iv \in Spans, At(d, v, iv), NEW n \in 0 .. 8, NEW offset \in Nat, NEW range \in Nat,
         range * Pow(n) \in Ranges, BytesFor(iv.bits + n) <= Len(d.data)
  PROVE  Reads([Dec!Shift(d, (d.value - 128 * offset) * Pow(n), n) EXCEPT !.range = range * Pow(n)], d, v,
               Part(iv, n, offset * Pow(n), range * Pow(n)), d.result)
<1> DEFINE p    == Pow(n)
           o    == offset * p
           r    == range * p
           part == Part(iv, n, o, r)
           s    == Dec!Shift(d, d.value * p - 128 * o, n)
           f    == [s EXCEPT !.range = r]
<1>1. p \in Nat
  <2>1. n \in 0 .. 32
    OBVIOUS
  <2> QED
    BY <2>1, PowerNat, Zenon
<1>2. o \in Nat /\ r \in Nat /\ r \in Ranges /\ d.value \in Int
  <2>1. d.value \in Int
    BY DEF At, Decoders
  <2> QED
    BY <2>1, <1>1
<1>3. (d.value - 128 * offset) * p = d.value * p - 128 * o
  BY <1>1, <1>2
<1>4. part \in Spans /\ part.range = r
  <2> DEFINE l == iv.low
             b == iv.bits
  <2>1. l \in Nat /\ b \in Nat /\ p \in Nat /\ o \in Nat
    BY <1>1, <1>2 DEF Spans
  <2> HIDE DEF l, b, p, o
  <2>2. l * p + o \in Nat /\ b + n \in Nat
    BY <2>1
  <2> QED
    BY <2>2, <1>2 DEF Spans, Part, l, b, p
<1> HIDE DEF o, r
<1>5. MovesTo(s, d, v, part)
  BY <1>2, ShiftAt
<1> HIDE DEF s, part
<1>6. At(f, v, part)
  BY <1>2, <1>5, AtOther DEF MovesTo
<1>7. f.range = r /\ f.result = d.result /\ f.data = d.data
  <2>1. s \in Decoders /\ s.result = d.result /\ s.data = d.data
    BY <1>5 DEF MovesTo, At
  <2> QED
    BY <2>1 DEF Decoders
<1> HIDE DEF f
<1>8. Reads(f, d, v, part, d.result)
  BY <1>2, <1>4, <1>6, <1>7 DEF Reads, Reading
<1> QED
  BY <1>3, <1>8 DEF f, s, o, r, part

(* A smaller range without a shift.                                        *)
LEMMA ShrinkReads ==
  ASSUME NEW d, NEW v, NEW iv \in Spans, At(d, v, iv), NEW range \in Ranges
  PROVE  Reads([d EXCEPT !.range = range], d, v, Part(iv, 0, 0, range), d.result)
<1> DEFINE f    == [d EXCEPT !.range = range]
           part == Part(iv, 0, 0, range)
<1>1. range \in Nat /\ d \in Decoders
  BY DEF Ranges, At
<1>2. part = [low |-> iv.low, range |-> range, bits |-> iv.bits] /\ part \in Spans
  <2>1. part = [low |-> iv.low + 0, range |-> range, bits |-> iv.bits]
    BY SamePart
  <2>2. iv.low + 0 = iv.low
    BY DEF Spans
  <2> QED
    BY <2>1, <2>2, <1>1 DEF Spans
<1>3. At(f, v, iv)
  BY <1>1, AtOther
<1>4. f.range = range /\ f.result = d.result /\ f.data = d.data
  BY <1>1 DEF Decoders
<1> HIDE DEF f, part
<1>5. At(f, v, part)
  BY <1>2, <1>3 DEF At
<1> QED
  BY <1>2, <1>4, <1>5 DEF Reads, Reading, f, part

(* decodeBin reads the bin that was coded.                                 *)
LEMMA DecodeBinReads ==
  ASSUME NEW d, NEW v, NEW iv, Reading(d, v, iv), NEW m \in Models, NEW bin \in Bit,
         Starts(v, Len(d.data), AfterBin(iv, m, bin))
  PROVE  Reads(Dec!DecodeBin(d, m), d, v, AfterBin(iv, m, bin), bin)
<1> DEFINE lps == GetLPS(m, iv.range)
           mps == iv.range - lps
           n   == RenormBitsLPS(lps)
           fm  == [d EXCEPT !.range = mps, !.result = Mps(m)]
           fl  == [d EXCEPT !.result = 1 - Mps(m)]
<1>1. /\ At(d, v, iv) /\ iv \in Spans /\ d.range = iv.range /\ d.range \in Ranges /\ d \in Decoders
      /\ Numbers(v, d.data) /\ d.data \in Seq(Bytes) /\ d.value \in Int
  BY DEF Reading, At, Decoders
<1>2. lps \in 4 .. 236 /\ mps \in 128 .. 506
  BY <1>1, LpsOk, ZenonT(40)
<1>3. n \in 1 .. 6 /\ lps * Pow(n) \in Ranges
  BY <1>2, RenormOk
<1>4. Dec!GetLPS(m, d.range) = lps /\ Dec!Mps(m) = Mps(m) /\ Mps(m) \in Bit
  BY <1>1, SameModel
<1>5. Dec!RenormBitsRange(mps) = 1 /\ Dec!RenormBitsLPS(lps) = n
  BY DEF Dec!RenormBitsRange, Dec!RenormBitsLPS, RenormBitsLPS
<1> HIDE DEF lps, n
<1>6. Dec!DecodeBin(d, m)
        = IF d.value < mps * 128
          THEN IF mps >= 256 THEN fm
               ELSE [Dec!Shift(fm, d.value * Pow(1), 1) EXCEPT !.range = mps * Pow(1)]
          ELSE [Dec!Shift(fl, (d.value - mps * 128) * Pow(n), n) EXCEPT !.range = lps * Pow(n)]
  BY <1>1, <1>4, <1>5, ZenonT(40) DEF Dec!DecodeBin, Pow
<1>7. AfterBin(iv, m, bin)
        = IF bin # Mps(m) THEN Part(iv, n, mps * Pow(n), lps * Pow(n))
          ELSE IF mps < 256 THEN Part(iv, 1, 0, mps * Pow(1))
          ELSE Part(iv, 0, 0, mps)
  BY DEF AfterBin, lps, n
<1> HIDE DEF mps
<1>8. mps \in Nat /\ lps \in Nat /\ n \in 0 .. 8 /\ 1 \in 0 .. 8 /\ 0 \in Nat
  BY <1>2, <1>3
<1>9. /\ At(fm, v, iv) /\ fm.value = d.value /\ fm.result = Mps(m) /\ fm.data = d.data /\ fm.range = mps
      /\ At(fl, v, iv) /\ fl.value = d.value /\ fl.result = 1 - Mps(m) /\ fl.data = d.data
  <2>1. Mps(m) \in Int /\ 1 - Mps(m) \in Int
    BY <1>4 DEF Bit
  <2>2. At(fm, v, iv) /\ At(fl, v, iv)
    BY <2>1, <1>1, <1>8, AtOther
  <2> QED
    BY <2>2, <1>1 DEF Decoders
<1> HIDE DEF fm, fl
<1>10. CASE bin # Mps(m)
  <2>1. /\ Starts(v, Len(d.data), Part(iv, n, mps * Pow(n), lps * Pow(n)))
        /\ bin = 1 - Mps(m)
    BY <1>4, <1>7, <1>10 DEF Bit
  <2>2. Starts(v, Len(d.data), Part(iv, 0, mps, lps)) /\ BytesFor(iv.bits + n) <= Len(d.data)
    BY <2>1, <1>1, <1>8, PartStarts
  <2>3. 128 * mps <= d.value
    BY <2>2, <1>1, <1>8, Within
  <2>4. ~(d.value < mps * 128) /\ mps * 128 = 128 * mps
    BY <2>3, <1>1, <1>8
  <2>5. Dec!DecodeBin(d, m) = [Dec!Shift(fl, (fl.value - 128 * mps) * Pow(n), n) EXCEPT !.range = lps * Pow(n)]
    BY <2>4, <1>6, <1>9
  <2>6. Reads([Dec!Shift(fl, (fl.value - 128 * mps) * Pow(n), n) EXCEPT !.range = lps * Pow(n)], fl, v,
              Part(iv, n, mps * Pow(n), lps * Pow(n)), fl.result)
    BY <2>2, <1>1, <1>3, <1>8, <1>9, ShiftReads
  <2> QED
    BY <2>1, <2>5, <2>6, <1>7, <1>9, <1>10 DEF Reads
<1>11. CASE bin = Mps(m) /\ mps < 256
  <2>1. 0 * Pow(1) = 0 /\ mps * Pow(1) \in Ranges
    <3>1. Pow(1) = 2
      BY PowerTable
    <3>2. mps * 2 \in Ranges
      BY <1>2, <1>11 DEF Ranges
    <3> QED
      BY <3>1, <3>2
  <2>2. Starts(v, Len(d.data), Part(iv, 1, 0 * Pow(1), mps * Pow(1)))
    BY <2>1, <1>7, <1>11
  <2>3. Starts(v, Len(d.data), Part(iv, 0, 0, mps)) /\ BytesFor(iv.bits + 1) <= Len(d.data)
    BY <2>2, <1>1, <1>8, PartStarts
  <2>4. d.value < 128 * (0 + mps)
    BY <2>3, <1>1, <1>8, Within
  <2>5. d.value < mps * 128 /\ ~(mps >= 256) /\ d.value - 128 * 0 = d.value
    BY <2>4, <1>1, <1>8, <1>11
  <2>6. Dec!DecodeBin(d, m) = [Dec!Shift(fm, (fm.value - 128 * 0) * Pow(1), 1) EXCEPT !.range = mps * Pow(1)]
    BY <2>5, <1>6, <1>9
  <2>7. Reads([Dec!Shift(fm, (fm.value - 128 * 0) * Pow(1), 1) EXCEPT !.range = mps * Pow(1)], fm, v,
              Part(iv, 1, 0 * Pow(1), mps * Pow(1)), fm.result)
    BY <2>1, <2>3, <1>1, <1>8, <1>9, ShiftReads
  <2> QED
    BY <2>1, <2>6, <2>7, <1>7, <1>9, <1>11 DEF Reads
<1>12. CASE bin = Mps(m) /\ ~(mps < 256)
  <2>1. mps \in Ranges
    BY <1>2, <1>12 DEF Ranges
  <2>2. Starts(v, Len(d.data), Part(iv, 0, 0, mps))
    BY <1>7, <1>12
  <2>3. d.value < 128 * (0 + mps)
    BY <2>2, <1>1, <1>8, Within
  <2>4. d.value < mps * 128 /\ mps >= 256
    BY <2>3, <1>1, <1>8, <1>12
  <2>5. Dec!DecodeBin(d, m) = fm
    BY <2>4, <1>6
  <2>6. Reads([fm EXCEPT !.range = mps], fm, v, Part(iv, 0, 0, mps), fm.result)
    BY <2>1, <1>1, <1>9, ShrinkReads
  <2>7. [fm EXCEPT !.range = mps] = fm
    <3>1. fm \in Decoders
      BY <1>9 DEF At
    <3> QED
      BY <3>1, <1>9 DEF Decoders
  <2> QED
    BY <2>5, <2>6, <2>7, <1>7, <1>9, <1>12 DEF Reads
<1> QED
  BY <1>10, <1>11, <1>12

(* A decoded value put in place.                                           *)
LEMMA ResultReads ==
  ASSUME NEW s, NEW d, NEW v, NEW iv, NEW x, Reads(s, d, v, iv, x), NEW result \in Int
  PROVE  Reads([s EXCEPT !.result = result], d, v, iv, result)
<1> DEFINE f == [s EXCEPT !.result = result]
<1>1. At(s, v, iv) /\ iv \in Spans /\ s.range = iv.range /\ s.range \in Ranges /\ s.data = d.data
      /\ s \in Decoders /\ s.range \in Nat
  BY DEF Reads, Reading, At, Decoders
<1>2. At(f, v, iv)
  BY <1>1, AtOther
<1>3. f.result = result /\ f.data = d.data /\ f.range = s.range
  BY <1>1 DEF Decoders
<1> HIDE DEF f
<1>4. Reads(f, d, v, iv, result)
  BY <1>1, <1>2, <1>3 DEF Reads, Reading
<1> QED
  BY <1>4 DEF f

(* decodeBinTrm reads a terminating bin that is not set.                   *)
LEMMA DecodeBinTrmReads ==
  ASSUME NEW d, NEW v, NEW iv, Reading(d, v, iv), Starts(v, Len(d.data), AfterTrm(iv))
  PROVE  Reads(Dec!DecodeBinTrm(d), d, v, AfterTrm(iv), 0)
<1> DEFINE rest == iv.range - 2
           r    == [d EXCEPT !.range = rest]
           s1   == Dec!Shift(r, d.value * 2, 1)
<1>1. /\ At(d, v, iv) /\ iv \in Spans /\ d.range = iv.range /\ d.range \in Ranges /\ d \in Decoders
      /\ Numbers(v, d.data) /\ d.data \in Seq(Bytes) /\ d.value \in Int
  BY DEF Reading, At, Decoders
<1>2. rest \in Nat /\ rest >= 254 /\ rest <= 508
  BY <1>1 DEF Ranges
<1>3. Dec!DecodeBinTrm(d)
        = IF d.value >= rest * 128 THEN [r EXCEPT !.result = 1]
          ELSE IF rest >= 256 THEN [r EXCEPT !.result = 0]
          ELSE [s1 EXCEPT !.range = rest * 2, !.result = 0]
  BY <1>1 DEF Dec!DecodeBinTrm
<1>4. AfterTrm(iv) = IF rest >= 256 THEN Part(iv, 0, 0, rest) ELSE Part(iv, 1, 0, rest * Pow(1))
  BY DEF AfterTrm
<1>5. At(r, v, iv) /\ r.value = d.value /\ r.data = d.data /\ r.range = rest /\ r.result = d.result /\ r \in Decoders
  <2>1. At(r, v, iv)
    BY <1>1, <1>2, AtOther
  <2> QED
    BY <2>1, <1>1, <1>2 DEF Decoders, At
<1> HIDE DEF rest, r
<1>6. Pow(1) = 2 /\ 0 * 2 = 0 /\ 1 \in 0 .. 8 /\ 0 \in Nat
  BY PowerTable
<1>7. CASE rest >= 256
  <2>1. rest \in Ranges /\ AfterTrm(iv) = Part(iv, 0, 0, rest)
    BY <1>2, <1>4, <1>7 DEF Ranges
  <2>2. d.value < 128 * (0 + rest)
    BY <2>1, <1>1, <1>2, <1>6, Within
  <2>3. Dec!DecodeBinTrm(d) = [r EXCEPT !.result = 0]
    <3>1. ~(d.value >= rest * 128)
      BY <2>2, <1>1, <1>2
    <3> QED
      BY <3>1, <1>3, <1>7
  <2>4. Reads([r EXCEPT !.range = rest], r, v, Part(iv, 0, 0, rest), r.result)
    BY <2>1, <1>1, <1>5, ShrinkReads
  <2>5. [r EXCEPT !.range = rest] = r
    BY <1>5 DEF Decoders
  <2>6. Reads(r, r, v, Part(iv, 0, 0, rest), r.result) /\ 0 \in Int
    BY <2>4, <2>5
  <2>7. Reads([r EXCEPT !.result = 0], r, v, Part(iv, 0, 0, rest), 0)
    BY <2>6, ResultReads
  <2> QED
    BY <2>1, <2>3, <2>7, <1>5 DEF Reads
<1>8. CASE ~(rest >= 256)
  <2>1. rest * 2 \in Ranges /\ AfterTrm(iv) = Part(iv, 1, 0, rest * 2)
    BY <1>2, <1>4, <1>6, <1>8 DEF Ranges
  <2>2. Starts(v, Len(d.data), Part(iv, 1, 0 * Pow(1), rest * Pow(1)))
    BY <2>1, <1>6
  <2>3. Starts(v, Len(d.data), Part(iv, 0, 0, rest)) /\ BytesFor(iv.bits + 1) <= Len(d.data)
    BY <2>2, <1>1, <1>2, <1>6, PartStarts
  <2>4. d.value < 128 * (0 + rest)
    BY <2>3, <1>1, <1>2, <1>6, Within, ZenonT(40)
  <2>5. Dec!DecodeBinTrm(d) = [s1 EXCEPT !.range = rest * 2, !.result = 0]
    <3>1. ~(d.value >= rest * 128)
      BY <2>4, <1>1, <1>2
    <3> HIDE DEF s1
    <3> QED
      BY <3>1, <1>3, <1>8
  <2>6. (r.value - 128 * 0) * Pow(1) = d.value * 2
    <3>1. r.value - 128 * 0 = d.value
      BY <1>1, <1>5
    <3> QED
      BY <3>1, <1>6
  <2> DEFINE s2 == [s1 EXCEPT !.range = rest * 2]
             to == Part(iv, 1, 0, rest * 2)
  <2>7. Reads(s2, r, v, to, r.result)
    <3>1. Reads([Dec!Shift(r, (r.value - 128 * 0) * Pow(1), 1) EXCEPT !.range = rest * Pow(1)], r, v,
                Part(iv, 1, 0 * Pow(1), rest * Pow(1)), r.result)
      BY <2>1, <2>3, <1>1, <1>2, <1>5, <1>6, ShiftReads
    <3> QED
      BY <3>1, <2>6, <1>6
  <2>8. [s1 EXCEPT !.range = rest * 2, !.result = 0] = [s2 EXCEPT !.result = 0]
    OBVIOUS
  <2> HIDE DEF s1, s2, to
  <2>9. Reads([s2 EXCEPT !.result = 0], r, v, to, 0)
    <3>1. 0 \in Int
      OBVIOUS
    <3> QED
      BY <3>1, <2>7, ResultReads
  <2> QED
    BY <2>1, <2>5, <2>8, <2>9, <1>5 DEF Reads, to
<1> QED
  BY <1>7, <1>8

(* It finds it set at the end, with no byte left and the stop bit next.    *)
LEMMA TerminateReads ==
  ASSUME NEW d, NEW v, NEW iv, Reading(d, v, iv), Ends(v, Len(d.data), iv)
  PROVE  /\ Dec!DecodeBinTrm(d).result = 1 /\ Dec!StopPattern(Dec!DecodeBinTrm(d))
         /\ Dec!DecodeBinTrm(d).pos = Len(Dec!DecodeBinTrm(d).data)
         /\ Dec!DecodeBinTrm(d).data = d.data /\ ~Dec!DecodeBinTrm(d).exceeded
<1> DEFINE rest == iv.range - 2
           f    == [[d EXCEPT !.range = rest] EXCEPT !.result = 1]
           size == Len(d.data)
           a    == Ahead(iv.bits)
           p    == Pow(a)
           q    == Pow(7 - a)
           l    == iv.low
<1>1. /\ At(d, v, iv) /\ iv \in Spans /\ d.range = iv.range /\ d.range \in Ranges /\ d \in Decoders
      /\ Numbers(v, d.data) /\ d.data \in Seq(Bytes) /\ d.value \in Int /\ l \in Nat
      /\ d.pos = BytesFor(iv.bits) /\ d.bitsNeeded = -1 - a /\ ~d.exceeded
      /\ d.value = v[d.pos] * q - 128 * l
  BY DEF Reading, At, Decoders, Spans
<1>2. PICK h \in Nat : /\ 2 * h <= l + iv.range - 2 /\ l + iv.range - 2 <= 2 * h + 1
                       /\ v[size] = (2 * h + 1) * p
  BY DEF Ends
<1>3. d.pos = size /\ size \in Nat
  BY <1>1 DEF Ends
<1>4. /\ a \in 0 .. 7 /\ q \in Nat /\ q >= 1 /\ p \in Nat /\ p * q = 128 /\ v[size] \in Nat
  BY <1>1, <1>3, AtNumbers
<1>5. rest \in Nat /\ iv.range \in Nat /\ rest = iv.range - 2
  BY <1>1 DEF Ranges
<1>6. v[size] * q = 128 * (2 * h + 1)
  <2> HIDE DEF p, q
  <2>1. ((2 * h + 1) * p) * q = (2 * h + 1) * (p * q)
    BY <1>2, <1>4
  <2> QED
    BY <2>1, <1>2, <1>4
<1> HIDE DEF rest, l
<1>7. d.value >= rest * 128
  <2>1. d.value = 128 * (2 * h + 1) - 128 * l
    BY <1>1, <1>3, <1>6
  <2> QED
    BY <2>1, <1>1, <1>2, <1>5, SMTT(30)
<1>8. Dec!DecodeBinTrm(d) = f
  BY <1>1, <1>5, <1>7 DEF Dec!DecodeBinTrm
<1>9. /\ f.result = 1 /\ f.pos = d.pos /\ f.data = d.data /\ f.exceeded = d.exceeded
      /\ f.bitsNeeded = d.bitsNeeded
  BY <1>1, <1>5 DEF Decoders
<1> HIDE DEF f
<1>10. Dec!StopPattern(f)
  <2> DEFINE b == d.data[d.pos]
             x == v[size - 1]
  <2>1. size >= 1
    <3>1. v[0] = 0
      BY <1>1 DEF Numbers
    <3>2. (2 * h + 1) * p # 0
      <4> HIDE DEF p, q
      <4>1. p # 0
        BY <1>4
      <4>2. p >= 1 /\ 2 * h + 1 >= 1 /\ 2 * h + 1 \in Nat
        BY <4>1, <1>2, <1>4
      <4>3. (2 * h + 1) * p >= 1 * p
        BY <4>2, <1>4
      <4> QED
        BY <4>2, <4>3, <1>4
    <3> QED
      BY <3>1, <3>2, <1>2, <1>3
  <2>2. v[size] = 256 * x + b /\ x \in Nat
    <3>1. size - 1 \in 0 .. size - 1 /\ size - 1 \in 0 .. size /\ (size - 1) + 1 = size
      BY <2>1, <1>3
    <3>2. v \in [0 .. size -> Nat] /\ \A k \in 0 .. size - 1 : v[k + 1] = 256 * v[k] + d.data[k + 1]
      BY <1>1 DEF Numbers
    <3> HIDE DEF size
    <3> QED
      BY <3>1, <3>2, <1>3
  <2>3. b \in Nat
    <3>1. size \in 1 .. size
      BY <2>1, <1>3
    <3>2. b \in Bytes
      BY <3>1, <1>1, <1>3
    <3> QED
      BY <3>2 DEF Bytes
  <2>4. 8 + f.bitsNeeded = 7 - a
    BY <1>1, <1>4, <1>9, SMTT(30)
  <2>5. Dec!StopPattern(f) <=> (b * q) % 256 = 128
    <3>1. f.data[f.pos] = b
      BY <1>9
    <3> QED
      BY <3>1, <2>4 DEF Dec!StopPattern, Pow
  <2> HIDE DEF b, x, q, p
  <2>6. b * q = 256 * (h - x * q) + 128
    <3>1. (256 * x + b) * q = 256 * (x * q) + b * q
      BY <2>2, <2>3, <1>4
    <3>2. x * q \in Nat /\ b * q \in Nat
      BY <2>2, <2>3, <1>4
    <3> DEFINE y == x * q
               z == b * q
    <3>3. 256 * y + z = 128 * (2 * h + 1) /\ y \in Nat /\ z \in Nat
      BY <3>1, <3>2, <2>2, <1>6
    <3> HIDE DEF y, z
    <3>4. z = 256 * (h - y) + 128
      BY <3>3, <1>2
    <3> QED
      BY <3>4 DEF y, z
  <2>7. (b * q) % 256 = 128
    <3> DEFINE g == h - x * q
    <3>1. g \in Int
      BY <2>2, <1>2, <1>4
    <3> HIDE DEF g
    <3>2. (256 * g + 128) % 256 = 128
      BY <3>1
    <3> QED
      BY <3>2, <2>6 DEF g
  <2> QED
    BY <2>5, <2>7
<1> QED
  BY <1>1, <1>3, <1>8, <1>9, <1>10

(* A remainder, from the quotient.                                         *)
LEMMA RemainderOk ==
  ASSUME NEW x \in Nat, NEW d \in Nat, d >= 1, NEW q \in Nat, NEW r \in Nat, r < d, x = q * d + r
  PROVE  x \div d = q /\ x % d = r
<1>1. q * d <= x /\ x < (q + 1) * d
  <2>1. (q + 1) * d = q * d + d /\ q * d \in Nat
    OBVIOUS
  <2> QED
    BY <2>1
<1>2. x \div d = q
  BY <1>1, QuotientOk
<1>3. x = d * (x \div d) + (x % d) /\ x % d \in Nat
  OBVIOUS
<1>4. d * q = q * d /\ q * d \in Nat
  OBVIOUS
<1> QED
  BY <1>2, <1>3, <1>4

(* The bins found are those that were coded.                               *)
LEMMA TakeBinsReads ==
  ASSUME NEW iv \in Spans, iv.range \in Ranges, NEW n \in 0 .. 8, NEW bins \in Nat, bins < Pow(n),
         NEW s, NEW v, At(s, v, Part(iv, n, 0, iv.range)), s.range = iv.range, s.result \in Nat,
         Starts(v, Len(s.data), Bins(iv, bins, n))
  PROVE  Reads(Dec!TakeBins(s, n), s, v, Bins(iv, bins, n), s.result * Pow(n) + bins)
<1> DEFINE stage  == Part(iv, n, 0, iv.range)
           r      == iv.range
           p      == Pow(n)
           offset == r * bins
           unit   == s.range * 128
           part   == Bins(iv, bins, n)
           value  == s.result * p + bins
           f      == [s EXCEPT !.value = s.value - 128 * offset, !.result = value]
<1>1. r \in Nat /\ r >= 256 /\ r <= 510 /\ iv.low \in Nat /\ iv.bits \in Nat /\ p \in Nat
      /\ s \in Decoders /\ s.value \in Int
  <2>1. n \in 0 .. 32
    OBVIOUS
  <2>2. p \in Nat
    BY <2>1, PowerNat, Zenon
  <2> QED
    BY <2>2 DEF Ranges, Spans, At, Decoders
<1>2. offset \in Nat /\ value \in Int
  <2>1. s.result \in Nat
    OBVIOUS
  <2> HIDE DEF r, p
  <2> QED
    BY <2>1, <1>1
<1>3. stage \in Spans /\ part \in Spans /\ part.range = r
      /\ part = [low |-> iv.low * p + offset, range |-> r, bits |-> iv.bits + n]
      /\ stage = [low |-> iv.low * p + 0, range |-> r, bits |-> iv.bits + n]
  <2> DEFINE l == iv.low
             b == iv.bits
  <2>1. l \in Nat /\ b \in Nat
    BY <1>1
  <2>2. stage = [low |-> l * p + 0, range |-> r, bits |-> b + n]
    BY DEF Part
  <2>3. part = [low |-> l * p + offset, range |-> r, bits |-> b + n]
    BY DEF Bins, Part
  <2> HIDE DEF l, b, p, offset, r, part, stage
  <2>4. l * p + 0 \in Nat /\ l * p + offset \in Nat /\ b + n \in Nat
    BY <2>1, <1>1, <1>2, SMTT(60)
  <2> QED
    BY <2>2, <2>3, <2>4, <1>1 DEF Spans, l, b
<1>4. Part(stage, 0, offset, r) = part
  <2>1. Part(stage, 0, offset, r) = [low |-> stage.low + offset, range |-> r, bits |-> stage.bits]
    BY <1>2, <1>3, SamePart
  <2>2. stage.low = iv.low * p + 0 /\ stage.bits = iv.bits + n
    BY <1>3
  <2> DEFINE z == iv.low * p
  <2>3. z \in Nat
    <3> HIDE DEF p
    <3> QED
      BY <1>1
  <2> HIDE DEF z
  <2>4. (z + 0) + offset = z + offset
    BY <2>3, <1>2
  <2> QED
    BY <2>1, <2>2, <2>4, <1>3 DEF z
<1>5. 128 * offset <= s.value /\ s.value < 128 * (offset + r)
  <2>1. Starts(v, Len(s.data), Part(stage, 0, offset, r))
    BY <1>4
  <2> HIDE DEF stage, offset, r
  <2>2. At(s, v, stage)
    BY DEF stage, r
  <2> QED
    BY <2>1, <2>2, <1>1, <1>2, <1>3, Within
<1>6. Dec!TakeBins(s, n) = f
  <2>1. s.value \in Nat /\ unit \in Nat /\ unit >= 1 /\ bins * unit <= s.value /\ s.value < (bins + 1) * unit
    <3> DEFINE u == 128 * r
    <3>1. unit = u /\ u \in Nat /\ u >= 1
      BY <1>1, SMTT(30)
    <3>2. 128 * offset = bins * u /\ 128 * (offset + r) = (bins + 1) * u
      BY <1>1, SMTT(30)
    <3> HIDE DEF u, unit, offset
    <3>3. bins * u \in Nat
      BY <3>1
    <3> QED
      BY <3>1, <3>2, <3>3, <1>1, <1>5, SMTT(60)
  <2> HIDE DEF unit
  <2>2. s.value \div unit = bins
    <3> DEFINE x == s.value
    <3>1. x \in Nat /\ bins * unit <= x /\ x < (bins + 1) * unit
      BY <2>1
    <3> HIDE DEF x
    <3>2. x \div unit = bins
      BY <2>1, <3>1, QuotientOk
    <3> QED
      BY <3>2 DEF x
  <2>3. Dec!Compared(s.value, unit, n) = bins
    <3>1. Dec!Compared(s.value, unit, n)
            = IF s.value \div unit < p THEN s.value \div unit ELSE p - 1
      BY Zenon DEF Dec!Compared, Pow
    <3> QED
      BY <2>2, <3>1
  <2>4. Dec!TakeBins(s, n)
          = [s EXCEPT !.value = s.value - bins * s.range * 128, !.result = s.result * p + bins]
    <3> DEFINE found == Dec!Compared(s.value, s.range * 128, n)
    <3>1. found = bins
      BY <2>3 DEF unit
    <3>2. Dec!TakeBins(s, n)
            = [s EXCEPT !.value = s.value - found * s.range * 128, !.result = s.result * p + found]
      BY DEF Dec!TakeBins, Pow
    <3> HIDE DEF found
    <3> QED
      BY <3>1, <3>2
  <2>5. bins * s.range * 128 = 128 * offset
    BY <1>1
  <2> QED
    BY <2>4, <2>5
<1>7. At(f, v, part)
  <2>1. At(s, v, stage)
    OBVIOUS
  <2> HIDE DEF stage, offset, r, value, part
  <2>2. At(f, v, Part(stage, 0, offset, r))
    BY <2>1, <1>2, <1>3, AtPart, ZenonT(40)
  <2> QED
    BY <2>2, <1>4
<1>8. f.result = value /\ f.data = s.data /\ f.range = s.range
  <2> HIDE DEF value, offset
  <2> QED
    BY <1>1 DEF Decoders
<1> HIDE DEF f
<1>9. Reads(f, s, v, part, value)
  BY <1>3, <1>7, <1>8 DEF Reads, Reading
<1> QED
  BY <1>6, <1>9

(* decodeBinEP reads the bin that was coded, and a shift by up to eight    *)
(* bits those bins.                                                        *)
LEMMA ShiftTakeReads ==
  ASSUME NEW d, NEW v, NEW iv, Reading(d, v, iv), d.result \in Nat, NEW n \in 0 .. 8,
         NEW bins \in Nat, bins < Pow(n), Starts(v, Len(d.data), Bins(iv, bins, n))
  PROVE  Reads(Dec!TakeBins(Dec!Shift(d, d.value * Pow(n), n), n), d, v, Bins(iv, bins, n),
               d.result * Pow(n) + bins)
<1> DEFINE s == Dec!Shift(d, d.value * Pow(n), n)
<1>1. At(d, v, iv) /\ iv \in Spans /\ d.range = iv.range /\ iv.range \in Ranges /\ d.value \in Int
  BY DEF Reading, At, Decoders
<1>2. BytesFor(iv.bits + n) <= Len(d.data)
  BY DEF Starts, Bins, Part
<1>3. d.value * Pow(n) - 128 * 0 = d.value * Pow(n)
  <2>1. n \in 0 .. 32
    OBVIOUS
  <2>2. Pow(n) \in Nat
    BY <2>1, PowerNat, Zenon
  <2> DEFINE x == d.value * Pow(n)
  <2>3. x \in Int
    BY <2>2, <1>1
  <2> HIDE DEF x
  <2>4. x - 128 * 0 = x
    BY <2>3
  <2> QED
    BY <2>4 DEF x
<1>4. MovesTo(Dec!Shift(d, d.value * Pow(n) - 128 * 0, n), d, v, Part(iv, n, 0, iv.range))
  <2>1. 0 \in Nat
    OBVIOUS
  <2> QED
    BY <2>1, <1>1, <1>2, ShiftAt
<1>5. MovesTo(s, d, v, Part(iv, n, 0, iv.range))
  BY <1>3, <1>4
<1> HIDE DEF s
<1>6. Reads(Dec!TakeBins(s, n), s, v, Bins(iv, bins, n), s.result * Pow(n) + bins)
  BY <1>1, <1>5, TakeBinsReads DEF MovesTo
<1> QED
  BY <1>5, <1>6 DEF Reads, MovesTo, s

(* Whole bytes are shifts by eight bits, which always read.                *)
LEMMA WholeByteIsShift ==
  ASSUME NEW d \in Decoders, d.bitsNeeded >= -8, d.bitsNeeded <= -1
  PROVE  Dec!WholeByte(d) = Dec!TakeBins(Dec!Shift(d, d.value * Pow(8), 8), 8)
<1> DEFINE value == d.value * 256
           shift == 8 + d.bitsNeeded
           r     == [d EXCEPT !.value = value]
           s     == [d EXCEPT !.value = value, !.bitsNeeded = d.bitsNeeded + 8]
           added == d.data[d.pos + 1] * 2^shift
<1>1. Pow(8) = 256
  BY PowerTable
<1>2. d.bitsNeeded \in Int /\ shift \in Int /\ shift >= 0 /\ d.bitsNeeded + 8 = shift
  BY DEF Decoders
<1>3. Dec!WholeByte(d) = Dec!TakeBins(Dec!ReadByte(r, shift), 8)
  BY DEF Dec!WholeByte
<1>4. s.bitsNeeded = shift /\ s.data = d.data /\ s.pos = d.pos /\ s.value = value
      /\ r.bitsNeeded = d.bitsNeeded /\ r.data = d.data /\ r.pos = d.pos /\ r.value = value
  BY <1>2 DEF Decoders
<1>5. Dec!Shift(d, value, 8)
        = [Dec!ReadByte(s, shift) EXCEPT !.bitsNeeded = Dec!ReadByte(s, shift).bitsNeeded - 8]
  <2>1. Dec!Shift(d, value, 8)
          = IF s.bitsNeeded >= 0
            THEN [Dec!ReadByte(s, s.bitsNeeded) EXCEPT !.bitsNeeded = Dec!ReadByte(s, s.bitsNeeded).bitsNeeded - 8]
            ELSE s
    BY DEF Dec!Shift
  <2> HIDE DEF s, shift, value
  <2> QED
    BY <2>1, <1>2, <1>4
<1>6. /\ Dec!ReadByte(r, shift) = IF d.pos < Len(d.data) THEN [r EXCEPT !.value = value + added, !.pos = d.pos + 1]
                                  ELSE [r EXCEPT !.exceeded = TRUE]
      /\ Dec!ReadByte(s, shift) = IF d.pos < Len(d.data) THEN [s EXCEPT !.value = value + added, !.pos = d.pos + 1]
                                  ELSE [s EXCEPT !.exceeded = TRUE]
  <2>1. /\ Dec!ReadByte(r, shift) = IF r.pos < Len(r.data)
                                    THEN [r EXCEPT !.value = r.value + r.data[r.pos + 1] * 2^shift, !.pos = r.pos + 1]
                                    ELSE [r EXCEPT !.exceeded = TRUE]
        /\ Dec!ReadByte(s, shift) = IF s.pos < Len(s.data)
                                    THEN [s EXCEPT !.value = s.value + s.data[s.pos + 1] * 2^shift, !.pos = s.pos + 1]
                                    ELSE [s EXCEPT !.exceeded = TRUE]
    BY Zenon DEF Dec!ReadByte
  <2> HIDE DEF r, s, shift, value
  <2> QED
    BY <2>1, <1>4, Zenon
<1> HIDE DEF added, value
<1>7. [Dec!ReadByte(s, shift) EXCEPT !.bitsNeeded = Dec!ReadByte(s, shift).bitsNeeded - 8] = Dec!ReadByte(r, shift)
  <2> DEFINE b == d.bitsNeeded + 8
  <2>1. b - 8 = d.bitsNeeded
    BY <1>2
  <2>2. s = [d EXCEPT !.value = value, !.bitsNeeded = b]
    OBVIOUS
  <2> HIDE DEF b, shift
  <2>3. CASE d.pos < Len(d.data)
    <3> DEFINE x == value + added
               k == d.pos + 1
    <3>1. /\ Dec!ReadByte(r, shift) = [[d EXCEPT !.value = value] EXCEPT !.value = x, !.pos = k]
          /\ Dec!ReadByte(s, shift) = [[d EXCEPT !.value = value, !.bitsNeeded = b] EXCEPT !.value = x, !.pos = k]
      BY <2>2, <2>3, <1>6
    <3> HIDE DEF x, k, r, s
    <3>2. d = [value |-> d.value, range |-> d.range, bitsNeeded |-> d.bitsNeeded, pos |-> d.pos,
               data |-> d.data, exceeded |-> d.exceeded, result |-> d.result]
      BY DEF Decoders
    <3> DEFINE t == [value |-> x, range |-> d.range, bitsNeeded |-> d.bitsNeeded, pos |-> k,
                     data |-> d.data, exceeded |-> d.exceeded, result |-> d.result]
               u == [value |-> x, range |-> d.range, bitsNeeded |-> b, pos |-> k,
                     data |-> d.data, exceeded |-> d.exceeded, result |-> d.result]
    <3>3. Dec!ReadByte(r, shift) = t
      BY <3>1, <3>2
    <3>4. Dec!ReadByte(s, shift) = u
      BY <3>1, <3>2
    <3>5. u.bitsNeeded = b /\ [u EXCEPT !.bitsNeeded = d.bitsNeeded] = t
      OBVIOUS
    <3> HIDE DEF t, u
    <3> QED
      BY <2>1, <3>3, <3>4, <3>5
  <2>4. CASE ~(d.pos < Len(d.data))
    <3>1. /\ Dec!ReadByte(r, shift) = [[d EXCEPT !.value = value] EXCEPT !.exceeded = TRUE]
          /\ Dec!ReadByte(s, shift) = [[d EXCEPT !.value = value, !.bitsNeeded = b] EXCEPT !.exceeded = TRUE]
      BY <2>2, <2>4, <1>6
    <3> HIDE DEF r, s
    <3>2. d = [value |-> d.value, range |-> d.range, bitsNeeded |-> d.bitsNeeded, pos |-> d.pos,
               data |-> d.data, exceeded |-> d.exceeded, result |-> d.result]
      BY DEF Decoders
    <3> DEFINE yes == TRUE
               t == [value |-> value, range |-> d.range, bitsNeeded |-> d.bitsNeeded, pos |-> d.pos,
                     data |-> d.data, exceeded |-> yes, result |-> d.result]
               u == [value |-> value, range |-> d.range, bitsNeeded |-> b, pos |-> d.pos,
                     data |-> d.data, exceeded |-> yes, result |-> d.result]
    <3>3. Dec!ReadByte(r, shift) = t
      BY <3>1, <3>2
    <3>4. Dec!ReadByte(s, shift) = u
      BY <3>1, <3>2
    <3> HIDE DEF yes
    <3>5. u.bitsNeeded = b /\ [u EXCEPT !.bitsNeeded = d.bitsNeeded] = t
      BY SMTT(30)
    <3> HIDE DEF t, u
    <3> QED
      BY <2>1, <3>3, <3>4, <3>5
  <2> QED
    BY <2>3, <2>4
<1> QED
  BY <1>1, <1>3, <1>5, <1>7 DEF value

(* With a range of 256, the bins are the bits of m_Value.                  *)
LEMMA TakeAlignedReads ==
  ASSUME NEW d, NEW v, NEW iv, Reading(d, v, iv), d.range = 256, d.result \in Nat, NEW n \in 0 .. 8,
         NEW bins \in Nat, bins < Pow(n), Starts(v, Len(d.data), Bins(iv, bins, n))
  PROVE  Reads(Dec!TakeAligned(d, n), d, v, Bins(iv, bins, n), d.result * Pow(n) + bins)
<1> DEFINE p      == Pow(n)
           q      == Pow(8 - n)
           w      == Pow(15 - n)
           value  == d.value
           offset == 256 * bins
           result == d.result * p + bins
           f      == [d EXCEPT !.result = result]
           part   == Bins(iv, bins, n)
<1>1. /\ At(d, v, iv) /\ iv \in Spans /\ d.range = iv.range /\ d.range \in Ranges /\ d \in Decoders
      /\ Numbers(v, d.data) /\ d.data \in Seq(Bytes) /\ value \in Int /\ iv.range = 256
  BY DEF Reading, At, Decoders
<1>2. p \in Nat /\ p >= 1 /\ q \in Nat /\ q >= 1 /\ w \in Nat /\ w >= 1 /\ p * q = 256 /\ 128 * q = w
  <2>1. /\ n \in 0 .. 32 /\ 8 - n \in 0 .. 32 /\ 15 - n \in 0 .. 32 /\ 8 - n \in 0 .. 8
        /\ n + (8 - n) = 8 /\ n + (8 - n) <= 32 /\ 7 \in 0 .. 32 /\ 7 + (8 - n) = 15 - n /\ 7 + (8 - n) <= 32
    OBVIOUS
  <2>2. p \in Nat /\ p >= 1 /\ q \in Nat /\ q >= 1 /\ w \in Nat /\ w >= 1
    <3>1. p \in Nat /\ p >= 1
      BY <2>1, PowerNat, Zenon
    <3>2. q \in Nat /\ q >= 1
      BY <2>1, PowerNat, ZenonT(40)
    <3>3. w \in Nat /\ w >= 1
      <4> DEFINE j == 15 - n
      <4>1. j \in 0 .. 32
        BY <2>1
      <4> HIDE DEF j
      <4>2. Pow(j) \in Nat /\ Pow(j) >= 1
        BY <4>1, PowerNat, Zenon
      <4> QED
        BY <4>2 DEF j
    <3> QED
      BY <3>1, <3>2, <3>3
  <2>3. Pow(n + (8 - n)) = p * q /\ Pow(7 + (8 - n)) = Pow(7) * q
    <3> DEFINE j == 8 - n
    <3>0. j \in 0 .. 8 /\ n + j <= 32 /\ 7 \in 0 .. 32 /\ 7 + j <= 32 /\ n \in 0 .. 32
      BY <2>1
    <3> HIDE DEF j
    <3>1. Pow(n + j) = Pow(n) * Pow(j)
      BY <3>0, PowerSum
    <3>2. Pow(7 + j) = Pow(7) * Pow(j)
      BY <3>0, PowerSum, ZenonT(40)
    <3>3. Pow(n + j) = p * Pow(j)
      BY <3>1
    <3> QED
      BY <3>2, <3>3 DEF j
  <2>4. Pow(7) = 128 /\ Pow(8) = 256
    BY PowerTable
  <2> QED
    BY <2>1, <2>2, <2>3, <2>4
<1>3. part = Part(iv, n, (bins * q) * p, q * p) /\ part = Part(iv, n, offset, 256)
  <2>1. part = Part(iv, n, iv.range * bins, iv.range)
    BY DEF Bins
  <2> HIDE DEF p, q, part
  <2>2. (bins * q) * p = bins * (p * q) /\ q * p = p * q
    BY <1>2
  <2>3. (bins * q) * p = 256 * bins /\ q * p = 256
    BY <2>2, <1>2
  <2> QED
    BY <2>1, <2>3, <1>1
<1>4. bins * q \in Nat
  <2> HIDE DEF q
  <2> QED
    BY <1>2
<1>5. Starts(v, Len(d.data), Part(iv, 0, bins * q, q)) /\ BytesFor(iv.bits + n) <= Len(d.data)
  <2>1. Starts(v, Len(d.data), Part(iv, n, (bins * q) * Pow(n), q * Pow(n)))
    BY <1>3
  <2> DEFINE o == bins * q
  <2>2. o \in Nat /\ q \in Nat /\ Starts(v, Len(d.data), Part(iv, n, o * Pow(n), q * Pow(n)))
    BY <2>1, <1>2, <1>4
  <2> HIDE DEF q, o
  <2>3. Starts(v, Len(d.data), Part(iv, 0, o, q)) /\ BytesFor(iv.bits + n) <= Len(d.data)
    BY <2>2, <1>1, PartStarts, SMTT(30)
  <2> QED
    BY <2>3 DEF o
<1>6. 128 * (bins * q) <= value /\ value < 128 * (bins * q + q)
  <2> HIDE DEF q
  <2> QED
    BY <1>1, <1>2, <1>4, <1>5, Within
<1> HIDE DEF p, q, w, value
<1>7. bins * w <= value /\ value < (bins + 1) * w /\ value \in Nat
  <2>1. 128 * (bins * q) = bins * w /\ 128 * (bins * q + q) = (bins + 1) * w
    <3>1. 128 * (bins * q) = bins * (128 * q) /\ 128 * (bins * q + q) = (bins + 1) * (128 * q)
      BY <1>2
    <3> QED
      BY <3>1, <1>2
  <2>2. bins * w \in Nat
    BY <1>2
  <2> QED
    BY <2>1, <2>2, <1>1, <1>6
<1>8. value \div w = bins
  BY <1>2, <1>7, QuotientOk
<1>9. bins % p = bins
  BY <1>2 DEF p
<1>10. (value * p) % 32768 = value * p - 128 * offset
  <2> DEFINE x == value * p
             y == bins * w
             z == (bins + 1) * w
             r == x - 128 * offset
  <2>1. w * p = 32768
    <3>1. (128 * q) * p = 128 * (p * q)
      BY <1>2
    <3> QED
      BY <3>1, <1>2
  <2>2. x \in Nat /\ y * p <= x /\ x < z * p
    <3>1. y \in Nat /\ z \in Nat /\ y <= value /\ value + 1 <= z
      BY <1>2, <1>7
    <3> HIDE DEF y, z
    <3>2. y * p <= value * p /\ (value + 1) * p <= z * p
      BY <3>1, <1>2, <1>7
    <3>3. (value + 1) * p = value * p + p /\ value * p \in Nat /\ z * p \in Nat
      BY <3>1, <1>2, <1>7
    <3> QED
      BY <3>2, <3>3, <1>2
  <2>3. y * p = 32768 * bins /\ z * p = 32768 * bins + 32768
    <3>1. y * p = bins * (w * p) /\ z * p = (bins + 1) * (w * p)
      BY <1>2
    <3> QED
      BY <2>1, <3>1
  <2> HIDE DEF x, y, z
  <2>4. r \in Nat /\ r < 32768 /\ x = bins * 32768 + r
    BY <2>2, <2>3
  <2> HIDE DEF r
  <2>5. x % 32768 = r
    BY <2>2, <2>4, RemainderOk
  <2> QED
    BY <2>5 DEF x, r
<1>11. Dec!TakeAligned(d, n) = Dec!Shift(f, value * p - 128 * offset, n)
  <2>1. Pow(15) = 32768
    BY PowerTable
  <2>2. Dec!TakeAligned(d, n)
          = Dec!Shift([d EXCEPT !.result = d.result * p + ((value \div w) % p)], (value * p) % Pow(15), n)
    BY Zenon DEF Dec!TakeAligned, Pow, p, w, value
  <2> QED
    BY <2>1, <2>2, <1>8, <1>9, <1>10
<1>12. result \in Int /\ offset \in Nat
  BY <1>2
<1>13. At(f, v, iv) /\ f.value = value /\ f.range = 256 /\ f.result = result /\ f.data = d.data
  <2> HIDE DEF result
  <2>1. At(f, v, iv)
    BY <1>1, <1>12, AtOther
  <2> QED
    BY <2>1, <1>1 DEF Decoders, value
<1> HIDE DEF f
<1>14. MovesTo(Dec!Shift(f, f.value * Pow(n) - 128 * offset, n), f, v, Part(iv, n, offset, 256))
  <2>1. offset \in Nat /\ BytesFor(iv.bits + n) <= Len(f.data) /\ At(f, v, iv) /\ iv \in Spans
    BY <1>1, <1>5, <1>12, <1>13
  <2> HIDE DEF offset, result, part
  <2> QED
    BY <2>1, ShiftAt, SMTT(30)
<1>15. MovesTo(Dec!TakeAligned(d, n), f, v, part)
  BY <1>3, <1>11, <1>13, <1>14 DEF p
<1>16. part \in Spans /\ part.range = 256
  <2> DEFINE l == iv.low
             b == iv.bits
  <2>1. l \in Nat /\ b \in Nat
    BY <1>1 DEF Spans
  <2>2. part = [low |-> l * p + offset, range |-> 256, bits |-> b + n]
    BY <1>3 DEF Part, p
  <2> HIDE DEF l, b, part, offset
  <2>3. l * p + offset \in Nat /\ b + n \in Nat
    BY <2>1, <1>2, <1>12
  <2> QED
    BY <2>2, <2>3 DEF Spans
<1> HIDE DEF part
<1>17. Reads(Dec!TakeAligned(d, n), d, v, part, result)
  <2> DEFINE s == Dec!TakeAligned(d, n)
  <2> HIDE DEF s, result
  <2>1. MovesTo(s, f, v, part)
    BY <1>15 DEF s
  <2>2. s.range = 256 /\ s.range \in Ranges /\ s.result = result /\ s.data = d.data /\ At(s, v, part)
    BY <2>1, <1>1, <1>13 DEF MovesTo, Ranges
  <2>3. Reads(s, d, v, part, result)
    BY <2>2, <1>16 DEF Reads, Reading
  <2> QED
    BY <2>3 DEF s
<1> QED
  BY <1>17 DEF part, result, p

(* decodeBinEP.                                                            *)
LEMMA DecodeBinEPReads ==
  ASSUME NEW d, NEW v, NEW iv, Reading(d, v, iv), NEW bin \in Bit, Starts(v, Len(d.data), Bins(iv, bin, 1))
  PROVE  Reads(Dec!DecodeBinEP(d), d, v, Bins(iv, bin, 1), bin)
<1> DEFINE s == Dec!Shift(d, d.value * 2 - 128 * 0, 1)
           f == [s EXCEPT !.result = 0]
<1>1. /\ At(d, v, iv) /\ iv \in Spans /\ d.range = iv.range /\ iv.range \in Ranges /\ d.value \in Int
  BY DEF Reading, At, Decoders
<1>2. BytesFor(iv.bits + 1) <= Len(d.data)
  BY DEF Starts, Bins, Part
<1>3. Pow(1) = 2 /\ 1 \in 0 .. 8 /\ 0 \in Nat /\ bin \in Nat /\ bin < Pow(1)
  <2>1. bin = 0 \/ bin = 1
    BY DEF Bit
  <2>2. Pow(1) = 2
    BY PowerTable
  <2> QED
    BY <2>1, <2>2
<1>4. MovesTo(s, d, v, Part(iv, 1, 0, iv.range))
  <2>1. MovesTo(Dec!Shift(d, d.value * Pow(1) - 128 * 0, 1), d, v, Part(iv, 1, 0, iv.range))
    BY <1>1, <1>2, <1>3, ShiftAt
  <2> QED
    BY <2>1, <1>3
<1>5. Dec!DecodeBinEP(d) = Dec!TakeBins(f, 1)
  <2>1. d.value * 2 - 128 * 0 = d.value * 2
    BY <1>1
  <2> QED
    BY <2>1 DEF Dec!DecodeBinEP
<1> HIDE DEF s
<1>6. At(f, v, Part(iv, 1, 0, iv.range)) /\ f.range = iv.range /\ f.result = 0 /\ f.data = d.data
  <2>1. At(s, v, Part(iv, 1, 0, iv.range)) /\ s \in Decoders /\ s.range = iv.range /\ s.data = d.data /\ s.range \in Nat
    BY <1>1, <1>4 DEF MovesTo, At, Ranges
  <2>2. At(f, v, Part(iv, 1, 0, iv.range))
    <3> DEFINE stage == Part(iv, 1, 0, iv.range)
               range == s.range
    <3>1. At(s, v, stage) /\ range \in Nat /\ 0 \in Int
      BY <2>1
    <3> HIDE DEF stage, range
    <3>2. At([s EXCEPT !.result = 0], v, stage)
      BY <3>1, AtOther
    <3> QED
      BY <3>2 DEF stage
  <2> QED
    BY <2>1, <2>2 DEF Decoders
<1> HIDE DEF f
<1>7. Reads(Dec!TakeBins(f, 1), f, v, Bins(iv, bin, 1), f.result * Pow(1) + bin)
  BY <1>1, <1>3, <1>6, TakeBinsReads
<1>8. f.result * Pow(1) + bin = bin
  BY <1>3, <1>6
<1> QED
  BY <1>5, <1>6, <1>7, <1>8 DEF Reads

(* Bins say more than the interval before them.                            *)
LEMMA BinsStart ==
  ASSUME NEW iv \in Spans, NEW data \in Seq(Bytes), NEW v, Numbers(v, data),
         NEW m \in 0 .. 8, NEW bins \in Nat, bins < Pow(m), Starts(v, Len(data), Bins(iv, bins, m))
  PROVE  Starts(v, Len(data), iv)
<1> DEFINE r == iv.range
           p == Pow(m)
           o == r * bins
<1>1. r \in Nat /\ p \in Nat
  <2>1. m \in 0 .. 32
    OBVIOUS
  <2>2. p \in Nat
    BY <2>1, PowerNat, Zenon
  <2> QED
    BY <2>2 DEF Spans
<1>2. Starts(v, Len(data), Part(iv, m, o, r))
  BY DEF Bins
<1>3. o \in Nat /\ o + r <= r * p
  <2> HIDE DEF r, o
  <2>1. r * (bins + 1) <= r * p
    BY <1>1, SMTT(30) DEF p
  <2>2. r * (bins + 1) = o + r /\ o \in Nat
    BY <1>1 DEF o
  <2> QED
    BY <2>1, <2>2
<1> HIDE DEF o
<1> QED
  BY <1>1, <1>2, <1>3, WholeStarts

(* All of the bins say more than the first of them,                        *)
LEMMA LeadingStarts ==
  ASSUME NEW iv \in Spans, NEW data \in Seq(Bytes), NEW v, Numbers(v, data),
         NEW n \in 0 .. 31, NEW bins \in Nat, bins < Pow(n),
         NEW i \in 0 .. 31, NEW m \in 0 .. 8, i + m <= n,
         Starts(v, Len(data), Bins(iv, Leading(bins, n, i + m), i + m))
  PROVE  Starts(v, Len(data), Bins(iv, Leading(bins, n, i), i))
<1> DEFINE c == Leading(bins, n, i + m) % Pow(m)
           a == Bins(iv, Leading(bins, n, i), i)
<1>1. c \in Nat /\ c < Pow(m)
  BY LeadingNext, ZenonT(40)
<1>2. a \in Spans /\ Bins(a, c, m) = Bins(iv, Leading(bins, n, i + m), i + m)
  BY LeadingBins
<1> HIDE DEF a, c
<1>3. Starts(v, Len(data), Bins(a, c, m))
  BY <1>2
<1>4. Starts(v, Len(data), a)
  BY <1>1, <1>2, <1>3, BinsStart
<1> QED
  BY <1>4, SMTT(30) DEF a

(* a byte after a byte.                                                    *)
LEMMA BytesStart ==
  ASSUME NEW iv \in Spans, NEW data \in Seq(Bytes), NEW v, Numbers(v, data),
         NEW n \in 0 .. 31, NEW bins \in Nat, bins < Pow(n), Starts(v, Len(data), Bins(iv, bins, n))
  PROVE  /\ Starts(v, Len(data), iv)
         /\ \A k \in 0 .. 3 : 8 * k <= n => Starts(v, Len(data), Bins(iv, Leading(bins, n, 8 * k), 8 * k))
<1> DEFINE S(i) == Starts(v, Len(data), Bins(iv, Leading(bins, n, i), i))
<1>1. S(n) /\ (S(0) => Starts(v, Len(data), iv))
  BY LeadingEnds
<1>2. \A i \in 0 .. 31 : \A m \in 0 .. 8 : i + m <= n /\ S(i + m) => S(i)
  BY LeadingStarts
<1> HIDE DEF S
<1>3. 24 <= n => S(24)
  <2>1. ASSUME 24 <= n
        PROVE  S(24)
    <3>1. 24 \in 0 .. 31 /\ n - 24 \in 0 .. 8 /\ 24 + (n - 24) = n /\ 24 + (n - 24) <= n
      BY <2>1
    <3>2. S(24 + (n - 24))
      BY <1>1, <3>1
    <3> QED
      BY <1>2, <3>1, <3>2
  <2> QED
    BY <2>1
<1>4. ASSUME NEW j \in {0, 8, 16}, j <= n, j + 8 <= n => S(j + 8)
      PROVE  S(j)
  <2>1. CASE j + 8 <= n
    <3>1. j \in 0 .. 31 /\ 8 \in 0 .. 8
      OBVIOUS
    <3> QED
      BY <1>2, <1>4, <2>1, <3>1
  <2>2. CASE ~(j + 8 <= n)
    <3>1. j \in 0 .. 31 /\ n - j \in 0 .. 8 /\ j + (n - j) = n /\ j + (n - j) <= n
      BY <1>4, <2>2
    <3>2. S(j + (n - j))
      BY <1>1, <3>1
    <3> QED
      BY <1>2, <3>1, <3>2
  <2> QED
    BY <2>1, <2>2
<1>5. 16 <= n => S(16)
  BY <1>3, <1>4
<1>6. 8 <= n => S(8)
  BY <1>4, <1>5
<1>7. S(0)
  BY <1>4, <1>6
<1>8. ASSUME NEW k \in 0 .. 3, 8 * k <= n
      PROVE  S(8 * k)
  BY <1>3, <1>5, <1>6, <1>7, <1>8
<1>9. \A k \in 0 .. 3 : 8 * k <= n => S(8 * k)
  BY <1>8
<1> QED
  BY <1>1, <1>7, <1>9 DEF S

(* Up to eight more bins, whatever the range.                              *)
LEMMA NextBinsRead ==
  ASSUME NEW d, NEW v, NEW iv, Reading(d, v, iv),
         NEW n \in 0 .. 31, NEW bins \in Nat, bins < Pow(n),
         NEW i \in 0 .. 31, NEW m \in 0 .. 8, i + m <= n,
         NEW s, Reads(s, d, v, Bins(iv, Leading(bins, n, i), i), Leading(bins, n, i)),
         Starts(v, Len(d.data), Bins(iv, Leading(bins, n, i + m), i + m))
  PROVE  /\ Reads(Dec!TakeBins(Dec!Shift(s, s.value * Pow(m), m), m), d, v,
                  Bins(iv, Leading(bins, n, i + m), i + m), Leading(bins, n, i + m))
         /\ s.range = d.range /\ s \in Decoders /\ s.bitsNeeded >= -8 /\ s.bitsNeeded <= -1
         /\ s.range = 256 => Reads(Dec!TakeAligned(s, m), d, v,
                                   Bins(iv, Leading(bins, n, i + m), i + m), Leading(bins, n, i + m))
<1> DEFINE a    == Leading(bins, n, i)
           b    == Leading(bins, n, i + m)
           c    == b % Pow(m)
           here == Bins(iv, a, i)
           next == Bins(iv, b, i + m)
<1>1. a \in Nat /\ c \in Nat /\ c < Pow(m) /\ b = a * Pow(m) + c
  BY LeadingNext, ZenonT(40)
<1>2. iv \in Spans /\ d.range = iv.range
  BY DEF Reading
<1>3. here \in Spans /\ Bins(here, c, m) = next
  BY <1>2, LeadingBins
<1>4. here.range = iv.range
  BY DEF Bins, Part
<1> HIDE DEF a, b, c, here, next
<1>5. Reading(s, v, here) /\ s.result = a /\ s.data = d.data /\ Starts(v, Len(s.data), Bins(here, c, m))
  BY <1>3 DEF Reads, a, b, here, next
<1>6. s.range = d.range /\ s \in Decoders /\ s.bitsNeeded >= -8 /\ s.bitsNeeded <= -1
  <2>1. At(s, v, here) /\ s.range = d.range
    BY <1>2, <1>4, <1>5 DEF Reading
  <2>2. Ahead(here.bits) \in 0 .. 7
    BY <2>1, <1>3, AtNumbers
  <2>3. s.bitsNeeded = -1 - Ahead(here.bits) /\ s \in Decoders
    BY <2>1 DEF At
  <2> QED
    BY <2>1, <2>2, <2>3
<1>7. Reads(Dec!TakeBins(Dec!Shift(s, s.value * Pow(m), m), m), s, v, Bins(here, c, m), s.result * Pow(m) + c)
  BY <1>1, <1>5, ShiftTakeReads
<1>8. s.range = 256 => Reads(Dec!TakeAligned(s, m), s, v, Bins(here, c, m), s.result * Pow(m) + c)
  BY <1>1, <1>5, TakeAlignedReads, SMTT(60)
<1>9. \A f : Reads(f, s, v, Bins(here, c, m), s.result * Pow(m) + c) => Reads(f, d, v, next, b)
  BY <1>1, <1>3, <1>5 DEF Reads
<1> QED
  BY <1>6, <1>7, <1>8, <1>9, SMTT(30) DEF next, b

(* decodeBinsEP.                                                           *)
LEMMA DecodeBinsEPReads ==
  ASSUME NEW d, NEW v, NEW iv, Reading(d, v, iv), NEW n \in 0 .. 31, NEW bins \in Nat, bins < Pow(n),
         Starts(v, Len(d.data), Bins(iv, bins, n))
  PROVE  Reads(Dec!DecodeBinsEP(d, n), d, v, Bins(iv, bins, n), bins)
<1> DEFINE k        == IF n = 0 THEN 0 ELSE (n - 1) \div 8
           Eight(s) == IF d.range = 256 THEN Dec!TakeAligned(s, 8) ELSE Dec!WholeByte(s)
           d0       == [d EXCEPT !.result = 0]
           d1       == IF k >= 1 THEN Eight(d0) ELSE d0
           d2       == IF k >= 2 THEN Eight(d1) ELSE d1
           d3       == IF k >= 3 THEN Eight(d2) ELSE d2
           u        == n - 8 * k
           last     == IF u = 0 THEN d3
                       ELSE IF d.range = 256 THEN Dec!TakeAligned(d3, u)
                       ELSE Dec!TakeBins(Dec!Shift(d3, d3.value * Pow(u), u), u)
           Done(s, i) == Reads(s, d, v, Bins(iv, Leading(bins, n, i), i), Leading(bins, n, i))
           S(i)     == Starts(v, Len(d.data), Bins(iv, Leading(bins, n, i), i))
<1>1. k \in 0 .. 3 /\ u \in 0 .. 8 /\ 8 * k + u = n /\ 8 * k \in 0 .. 31 /\ 8 * k <= n
  OBVIOUS
<1>2. Dec!DecodeBinsEP(d, n) = last
  BY Zenon DEF Dec!DecodeBinsEP, Pow
<1>3. iv \in Spans /\ d.data \in Seq(Bytes) /\ Numbers(v, d.data)
  BY DEF Reading, At, Decoders
<1>4. Bins(iv, Leading(bins, n, 0), 0) = iv /\ Leading(bins, n, 0) = 0 /\ Leading(bins, n, n) = bins
  BY <1>3, LeadingEnds
<1>5. S(n) /\ \A j \in 0 .. 3 : 8 * j <= n => S(8 * j)
  BY <1>3, <1>4, BytesStart
<1>6. Done(d0, 0)
  <2>1. Reads(d, d, v, iv, d.result)
    BY DEF Reads
  <2>2. Reads(d0, d, v, iv, 0)
    BY <2>1, ResultReads
  <2> QED
    BY <2>2, <1>4
<1>7. ASSUME NEW s, NEW i \in 0 .. 31, NEW m \in 0 .. 8, i + m <= n, Done(s, i), S(i + m)
      PROVE  /\ s.range = 256 => Done(Dec!TakeAligned(s, m), i + m)
             /\ Done(Dec!TakeBins(Dec!Shift(s, s.value * Pow(m), m), m), i + m)
             /\ s.range = d.range /\ s \in Decoders /\ s.bitsNeeded >= -8 /\ s.bitsNeeded <= -1
  <2> HIDE DEF k, Eight, d0, u
  <2>1. /\ Reads(s, d, v, Bins(iv, Leading(bins, n, i), i), Leading(bins, n, i))
        /\ Starts(v, Len(d.data), Bins(iv, Leading(bins, n, i + m), i + m))
    BY <1>7
  <2> HIDE DEF Done, S
  <2>2. /\ Reads(Dec!TakeBins(Dec!Shift(s, s.value * Pow(m), m), m), d, v,
                 Bins(iv, Leading(bins, n, i + m), i + m), Leading(bins, n, i + m))
        /\ s.range = d.range /\ s \in Decoders /\ s.bitsNeeded >= -8 /\ s.bitsNeeded <= -1
        /\ s.range = 256 => Reads(Dec!TakeAligned(s, m), d, v,
                                  Bins(iv, Leading(bins, n, i + m), i + m), Leading(bins, n, i + m))
    BY <1>7, <2>1, NextBinsRead
  <2> QED
    BY <2>2 DEF Done
<1> HIDE DEF Done, S
<1>8. ASSUME NEW s, NEW i \in 0 .. 31, i + 8 <= n, Done(s, i), S(i + 8)
      PROVE  Done(Eight(s), i + 8)
  <2>1. 8 \in 0 .. 8
    OBVIOUS
  <2>2. /\ s.range = 256 => Done(Dec!TakeAligned(s, 8), i + 8)
        /\ Done(Dec!TakeBins(Dec!Shift(s, s.value * Pow(8), 8), 8), i + 8)
        /\ s.range = d.range /\ s \in Decoders /\ s.bitsNeeded >= -8 /\ s.bitsNeeded <= -1
    BY <1>7, <1>8, <2>1
  <2>3. Dec!WholeByte(s) = Dec!TakeBins(Dec!Shift(s, s.value * Pow(8), 8), 8)
    BY <2>2, WholeByteIsShift
  <2> QED
    BY <2>2, <2>3
<1>9. S(8 * k) /\ (k >= 1 => S(8)) /\ (k >= 2 => S(16)) /\ (k >= 3 => S(24))
  <2>1. /\ k \in 0 .. 3 /\ (k >= 1 => 8 * 1 <= n /\ 8 * 1 = 8) /\ (k >= 2 => 8 * 2 <= n /\ 8 * 2 = 16)
        /\ (k >= 3 => 8 * 3 <= n /\ 8 * 3 = 24) /\ 1 \in 0 .. 3 /\ 2 \in 0 .. 3 /\ 3 \in 0 .. 3
    BY <1>1
  <2> HIDE DEF k
  <2> QED
    BY <2>1, <1>1, <1>5
<1> HIDE DEF k, Eight, d0
<1>10. k >= 1 => Done(d1, 8)
  <2>1. 0 \in 0 .. 31 /\ 0 + 8 = 8 /\ (k >= 1 => 0 + 8 <= n)
    BY <1>1
  <2> QED
    BY <2>1, <1>6, <1>8, <1>9
<1>11. k >= 2 => Done(d2, 16)
  <2>1. 8 \in 0 .. 31 /\ 8 + 8 = 16 /\ (k >= 2 => 8 + 8 <= n /\ k >= 1)
    BY <1>1
  <2> HIDE DEF d1
  <2> QED
    BY <2>1, <1>8, <1>9, <1>10
<1>12. k >= 3 => Done(d3, 24)
  <2>1. 16 \in 0 .. 31 /\ 16 + 8 = 24 /\ (k >= 3 => 16 + 8 <= n /\ k >= 2)
    BY <1>1
  <2> HIDE DEF d2
  <2> QED
    BY <2>1, <1>8, <1>9, <1>11
<1>13. Done(d3, 8 * k)
  <2>1. CASE k = 0
    BY <2>1, <1>6
  <2>2. CASE k = 1
    BY <2>2, <1>10
  <2>3. CASE k = 2
    BY <2>3, <1>11
  <2>4. CASE k = 3
    BY <2>4, <1>12
  <2> QED
    BY <2>1, <2>2, <2>3, <2>4, <1>1
<1> HIDE DEF d3
<1>14. Done(last, n)
  <2>1. S(8 * k + u) /\ 8 * k + u <= n
    BY <1>1, <1>5
  <2>2. /\ d3.range = 256 => Done(Dec!TakeAligned(d3, u), 8 * k + u)
        /\ Done(Dec!TakeBins(Dec!Shift(d3, d3.value * Pow(u), u), u), 8 * k + u)
        /\ d3.range = d.range
    <3> HIDE DEF u
    <3> QED
      BY <1>1, <1>7, <1>13, <2>1
  <2>3. u = 0 => 8 * k = n
    BY <1>1
  <2> HIDE DEF u
  <2> QED
    BY <2>2, <2>3, <1>1, <1>13
<1> QED
  BY <1>2, <1>4, <1>14 DEF Done

----------------------------------------------------------------------------
(* The decoder's escape codes.                                             *)

(* A set of numbers has a least one.                                       *)
LEMMA Least ==
  ASSUME NEW T \in SUBSET Nat, T # {}
  PROVE  \E n \in T : \A m \in T : n <= m
<1> DEFINE R == OpToRel(<, Nat)
<1>1. IsWellFoundedOn(R, Nat)
  BY NatLessThanWellFounded, Zenon
<1>2. \A x, y \in Nat : y < x => <<y, x>> \in R
  BY DEF OpToRel
<1> HIDE DEF R
<1>3. PICK x \in T : \A y \in T : <<y, x>> \notin R
  BY <1>1, WFMin, Zenon
<1>4. ASSUME NEW y \in T
      PROVE  x <= y
  <2>1. x \in Nat /\ y \in Nat /\ ~(y < x)
    BY <1>2, <1>3
  <2> QED
    BY <2>1
<1> QED
  BY <1>4

(* A set that holds 0 and every successor holds all numbers.               *)
LEMMA Induction ==
  ASSUME NEW S \in SUBSET Nat, 0 \in S, \A n \in S : n + 1 \in S
  PROVE  S = Nat
<1>1. ASSUME Nat \ S # {}
      PROVE  FALSE
  <2>1. PICK n \in Nat \ S : \A m \in Nat \ S : n <= m
    BY <1>1, Least
  <2>2. n # 0 /\ n - 1 \in Nat /\ n - 1 \in S
    BY <2>1
  <2> QED
    BY <2>1, <2>2
<1> QED
  BY <1>1

\* the registers after each bin of a prefix, and where the prefix ends
IsPrefix(f, d, max) ==
  f = [n \in 0 .. max |-> IF n = 0 THEN [d EXCEPT !.result = 1] ELSE Dec!DecodeBinEP(f[n - 1])]
PrefixOf(d, max) == CHOOSE f : IsPrefix(f, d, max)
StopsAt(f, i, max) ==
  (i = max \/ f[i].result = 0) /\ \A j \in 1 .. i - 1 : f[j].result = 1

(* The decoder's recursion, as a choice.                                   *)
LEMMA AfterPrefixIs ==
  ASSUME NEW d, NEW max
  PROVE  Dec!AfterPrefix(d, max)
           = [regs   |-> PrefixOf(d, max)[CHOOSE i \in 1 .. max : StopsAt(PrefixOf(d, max), i, max)],
              prefix |-> (CHOOSE i \in 1 .. max : StopsAt(PrefixOf(d, max), i, max))
                           - (1 - PrefixOf(d, max)[CHOOSE i \in 1 .. max : StopsAt(PrefixOf(d, max), i, max)].result)]
  BY DEF Dec!AfterPrefix, PrefixOf, IsPrefix, StopsAt

(* There is such a function.                                               *)
LEMMA PrefixExists ==
  ASSUME NEW d, NEW max \in Nat
  PROVE  IsPrefix(PrefixOf(d, max), d, max)
<1> DEFINE S == {m \in Nat : \E f : IsPrefix(f, d, m)}
           Next1(f, n) == IF n = 0 THEN [d EXCEPT !.result = 1] ELSE Dec!DecodeBinEP(f[n - 1])
<1>1. 0 \in S
  <2> DEFINE f == [n \in 0 .. 0 |-> [d EXCEPT !.result = 1]]
  <2>1. f = [n \in 0 .. 0 |-> Next1(f, n)]
    OBVIOUS
  <2>2. IsPrefix(f, d, 0)
    BY <2>1 DEF IsPrefix
  <2> QED
    BY <2>2
<1>2. ASSUME NEW m \in S
      PROVE  m + 1 \in S
  <2>1. PICK f : IsPrefix(f, d, m)
    BY <1>2
  <2> DEFINE g == [n \in 0 .. m + 1 |-> IF n <= m THEN f[n] ELSE Dec!DecodeBinEP(f[m])]
  <2>2. m \in Nat
    BY <1>2
  <2>3. \A n \in 0 .. m : f[n] = Next1(f, n)
    BY <2>1 DEF IsPrefix
  <2>4. ASSUME NEW n \in 0 .. m + 1
        PROVE  g[n] = Next1(g, n)
    <3>1. CASE n = 0
      BY <2>2, <2>3, <3>1
    <3>2. CASE n # 0 /\ n <= m
      <4>1. n \in 0 .. m /\ n - 1 \in 0 .. m + 1 /\ n - 1 <= m
        BY <2>2, <3>2
      <4>2. g[n] = f[n] /\ g[n - 1] = f[n - 1]
        BY <3>2, <4>1
      <4> HIDE DEF g
      <4> QED
        BY <2>3, <3>2, <4>1, <4>2
    <3>3. CASE n # 0 /\ ~(n <= m)
      <4>1. n - 1 = m /\ n - 1 \in 0 .. m + 1
        BY <2>2, <3>3
      <4>2. g[n - 1] = f[m] /\ g[n] = Dec!DecodeBinEP(f[m])
        BY <3>3, <4>1, <2>2
      <4> HIDE DEF g
      <4> QED
        BY <3>3, <4>2
    <3> QED
      BY <3>1, <3>2, <3>3
  <2>5. g = [n \in 0 .. m + 1 |-> g[n]]
    OBVIOUS
  <2> HIDE DEF g
  <2>6. g = [n \in 0 .. m + 1 |-> Next1(g, n)]
    BY <2>4, <2>5
  <2>7. IsPrefix(g, d, m + 1)
    BY <2>6 DEF IsPrefix
  <2> QED
    BY <2>2, <2>7
<1>3. S = Nat
  <2> HIDE DEF S
  <2>1. S \in SUBSET Nat
    BY DEF S
  <2> QED
    BY <1>1, <1>2, <2>1, Induction
<1>4. \E f : IsPrefix(f, d, max)
  BY <1>3
<1> QED
  BY <1>4, Zenon DEF PrefixOf

(* One more bin that is set.                                               *)
LEMMA OnesNext ==
  ASSUME NEW iv \in Spans, NEW j \in 0 .. 31
  PROVE  /\ Bins(iv, Pow(j) - 1, j) \in Spans
         /\ Bins(Bins(iv, Pow(j) - 1, j), 1, 1) = Bins(iv, Pow(j + 1) - 1, j + 1)
<1> DEFINE a == Pow(j) - 1
<1>1. Pow(j) \in Nat /\ Pow(j) >= 1 /\ Pow(1) = 2 /\ Pow(j + 1) = 2 * Pow(j)
  BY PowerNext, PowerTable
<1>2. Pow(j + 1) = Pow(j) * Pow(1) /\ Pow(1) \in Nat /\ a \in Nat /\ a * Pow(1) + 1 = Pow(j + 1) - 1
  <2> DEFINE y == Pow(j)
             z == Pow(j + 1)
  <2>1. y \in Nat /\ y >= 1 /\ z = 2 * y /\ a = y - 1 /\ Pow(1) = 2
    BY <1>1
  <2> HIDE DEF y, z, a
  <2>2. z = y * Pow(1) /\ Pow(1) \in Nat /\ a \in Nat /\ a * Pow(1) + 1 = z - 1
    BY <2>1
  <2> QED
    BY <2>2 DEF y, z
<1> HIDE DEF a
<1>3. j \in Nat /\ 1 \in Nat
  OBVIOUS
<1>4. Bins(iv, a, j) \in Spans /\ Bins(Bins(iv, a, j), 1, 1) = Bins(iv, a * Pow(1) + 1, j + 1)
  BY <1>1, <1>2, <1>3, BinsTwice
<1> QED
  BY <1>2, <1>4 DEF a

(* The bytes say each bin of the prefix.                                   *)
LEMMA OnesStart ==
  ASSUME NEW iv \in Spans, NEW data \in Seq(Bytes), NEW v, Numbers(v, data),
         NEW max \in 0 .. 31, NEW x \in 0 .. max, Starts(v, Len(data), AfterOnes(iv, x, max))
  PROVE  \A j \in 0 .. x : Starts(v, Len(data), Bins(iv, Pow(j) - 1, j))
<1> DEFINE O(j) == Bins(iv, Pow(j) - 1, j)
           S    == {k \in Nat : k <= x => Starts(v, Len(data), O(x - k))}
<1>1. Pow(1) = 2 /\ 1 \in 0 .. 8 /\ 0 \in Nat /\ 0 < Pow(1) /\ 1 < Pow(1) /\ 1 \in Nat /\ x \in 0 .. 31
  <2>1. Pow(1) = 2
    BY PowerTable
  <2> QED
    BY <2>1
<1>2. \A j \in 0 .. 31 : O(j) \in Spans /\ Bins(O(j), 1, 1) = O(j + 1)
  BY OnesNext
<1>3. AfterOnes(iv, x, max) = IF x = max THEN O(x) ELSE Bins(O(x), 0, 1)
  BY DEF AfterOnes
<1> HIDE DEF O
<1>4. Starts(v, Len(data), O(x))
  <2>1. CASE x = max
    BY <1>3, <2>1
  <2>2. CASE x # max
    BY <1>1, <1>2, <1>3, <2>2, BinsStart
  <2> QED
    BY <2>1, <2>2
<1>5. 0 \in S
  BY <1>1, <1>4
<1>6. ASSUME NEW k \in S
      PROVE  k + 1 \in S
  <2>1. k \in Nat
    OBVIOUS
  <2>2. CASE k + 1 <= x
    <3> DEFINE j == x - (k + 1)
    <3>1. j \in 0 .. 31 /\ x - k = j + 1 /\ k <= x
      BY <1>1, <2>1, <2>2
    <3>2. Starts(v, Len(data), O(x - k))
      BY <3>1
    <3> HIDE DEF j
    <3>3. Starts(v, Len(data), Bins(O(j), 1, 1)) /\ O(j) \in Spans
      BY <1>2, <3>1, <3>2
    <3>4. Starts(v, Len(data), O(j))
      BY <1>1, <3>3, BinsStart
    <3> QED
      BY <2>1, <3>4 DEF j
  <2>3. CASE ~(k + 1 <= x)
    BY <2>1, <2>3
  <2> QED
    BY <2>2, <2>3
<1>7. S = Nat
  <2> HIDE DEF S
  <2>1. S \in SUBSET Nat
    BY DEF S
  <2> QED
    BY <1>5, <1>6, <2>1, Induction
<1>8. ASSUME NEW j \in 0 .. x
      PROVE  Starts(v, Len(data), O(j))
  <2>1. x - j \in Nat /\ x - j <= x /\ x - (x - j) = j
    BY <1>1
  <2> QED
    BY <1>7, <2>1
<1> QED
  BY <1>8 DEF O

(* The prefix is read, bin by bin.                                         *)
LEMMA PrefixReads ==
  ASSUME NEW d, NEW v, NEW iv, Reading(d, v, iv), NEW max \in 0 .. 31, NEW x \in 0 .. max,
         Starts(v, Len(d.data), AfterOnes(iv, x, max)), NEW f, IsPrefix(f, d, max)
  PROVE  /\ \A j \in 0 .. x : Reads(f[j], d, v, Bins(iv, Pow(j) - 1, j), 1)
         /\ x < max => Reads(f[x + 1], d, v, AfterOnes(iv, x, max), 0)
<1> DEFINE O(j) == Bins(iv, Pow(j) - 1, j)
           S    == {j \in Nat : j <= x => Reads(f[j], d, v, O(j), 1)}
<1>1. iv \in Spans /\ d.data \in Seq(Bytes) /\ Numbers(v, d.data)
  BY DEF Reading, At, Decoders
<1>2. \A j \in 0 .. x : Starts(v, Len(d.data), O(j))
  BY <1>1, OnesStart
<1>3. \A j \in 0 .. 31 : O(j) \in Spans /\ Bins(O(j), 1, 1) = O(j + 1)
  BY <1>1, OnesNext
<1>4. O(0) = iv
  <2>1. Pow(0) - 1 = 0 /\ 0 < Pow(0) /\ 0 \in 0 .. 31 /\ 0 \in Nat
    BY PowerTable
  <2>2. Bins(iv, 0, 0) = iv
    BY <1>1, <2>1, LeadingEnds
  <2> QED
    BY <2>1, <2>2
<1>5. \A j \in 0 .. max : f[j] = IF j = 0 THEN [d EXCEPT !.result = 1] ELSE Dec!DecodeBinEP(f[j - 1])
  BY DEF IsPrefix
<1> HIDE DEF O
<1>6. ASSUME NEW j \in 0 .. x, j + 1 <= max, Reads(f[j], d, v, O(j), 1), NEW bin \in Bit,
             Starts(v, Len(d.data), Bins(O(j), bin, 1))
      PROVE  Reads(f[j + 1], d, v, Bins(O(j), bin, 1), bin)
  <2> DEFINE s == f[j]
  <2>1. Reading(s, v, O(j)) /\ s.data = d.data
    BY <1>6 DEF Reads
  <2>2. f[j + 1] = Dec!DecodeBinEP(s)
    <3>1. j + 1 \in 0 .. max /\ j + 1 # 0 /\ (j + 1) - 1 = j
      BY <1>6
    <3> QED
      BY <1>5, <3>1
  <2> HIDE DEF s
  <2>3. Reads(Dec!DecodeBinEP(s), s, v, Bins(O(j), bin, 1), bin)
    BY <1>6, <2>1, DecodeBinEPReads
  <2> QED
    BY <2>1, <2>2, <2>3 DEF Reads
<1>7. 0 \in S
  <2>1. Reads(d, d, v, iv, d.result)
    BY DEF Reads
  <2>2. Reads([d EXCEPT !.result = 1], d, v, iv, 1)
    BY <2>1, ResultReads
  <2>3. f[0] = [d EXCEPT !.result = 1]
    <3>1. 0 \in 0 .. max
      OBVIOUS
    <3> QED
      BY <1>5, <3>1, Zenon
  <2> QED
    BY <2>2, <2>3, <1>4
<1>8. ASSUME NEW j \in S
      PROVE  j + 1 \in S
  <2>1. j \in Nat
    OBVIOUS
  <2>2. CASE j + 1 <= x
    <3>1. j \in 0 .. x /\ j <= x /\ j + 1 <= max /\ j + 1 \in 0 .. x /\ j \in 0 .. 31
      BY <2>1, <2>2
    <3>2. Reads(f[j], d, v, O(j), 1)
      BY <3>1
    <3>3. 1 \in Bit /\ Starts(v, Len(d.data), Bins(O(j), 1, 1)) /\ Bins(O(j), 1, 1) = O(j + 1)
      BY <1>2, <1>3, <3>1 DEF Bit
    <3>4. Reads(f[j + 1], d, v, O(j + 1), 1)
      BY <1>6, <3>1, <3>2, <3>3
    <3> QED
      BY <2>1, <3>4
  <2>3. CASE ~(j + 1 <= x)
    BY <2>1, <2>3
  <2> QED
    BY <2>2, <2>3
<1>9. S = Nat
  <2> HIDE DEF S
  <2>1. S \in SUBSET Nat
    BY DEF S
  <2> QED
    BY <1>7, <1>8, <2>1, Induction
<1>10. \A j \in 0 .. x : Reads(f[j], d, v, O(j), 1)
  <2>1. \A j \in 0 .. x : j \in Nat /\ j <= x
    OBVIOUS
  <2> QED
    BY <1>9, <2>1
<1>11. ASSUME x < max
       PROVE  Reads(f[x + 1], d, v, AfterOnes(iv, x, max), 0)
  <2>1. x \in 0 .. x /\ x + 1 <= max /\ 0 \in Bit /\ x # max
    BY <1>11 DEF Bit
  <2>2. AfterOnes(iv, x, max) = Bins(O(x), 0, 1)
    BY <2>1 DEF AfterOnes, O
  <2> QED
    BY <1>6, <1>10, <2>1, <2>2
<1> QED
  BY <1>10, <1>11 DEF O

(* Its length is the number of ones.                                       *)
LEMMA AfterPrefixReads ==
  ASSUME NEW d, NEW v, NEW iv, Reading(d, v, iv), NEW max \in 1 .. 31, NEW x \in 0 .. max,
         Starts(v, Len(d.data), AfterOnes(iv, x, max))
  PROVE  /\ Dec!AfterPrefix(d, max).prefix = x
         /\ \E bin \in Bit : Reads(Dec!AfterPrefix(d, max).regs, d, v, AfterOnes(iv, x, max), bin)
<1> DEFINE f == PrefixOf(d, max)
           n == CHOOSE i \in 1 .. max : StopsAt(f, i, max)
           m == IF x = max THEN max ELSE x + 1
<1>1. Dec!AfterPrefix(d, max) = [regs |-> f[n], prefix |-> n - (1 - f[n].result)]
  BY AfterPrefixIs, SMTT(30)
<1>2. max \in Nat /\ max \in 0 .. 31 /\ m \in 1 .. max
  OBVIOUS
<1>3. IsPrefix(f, d, max)
  BY <1>2, PrefixExists
<1> HIDE DEF f
<1>4. /\ \A j \in 0 .. x : Reads(f[j], d, v, Bins(iv, Pow(j) - 1, j), 1)
      /\ x < max => Reads(f[x + 1], d, v, AfterOnes(iv, x, max), 0)
  BY <1>2, <1>3, PrefixReads
<1>5. /\ \A j \in 0 .. x : f[j].result = 1
      /\ x < max => f[x + 1].result = 0
  BY <1>4 DEF Reads
<1>6. StopsAt(f, m, max)
  <2>1. m = max \/ f[m].result = 0
    BY <1>5
  <2>2. \A j \in 1 .. m - 1 : j \in 0 .. x
    OBVIOUS
  <2> QED
    BY <1>5, <2>1, <2>2 DEF StopsAt
<1>7. ASSUME NEW i \in 1 .. max, StopsAt(f, i, max)
      PROVE  i = m
  <2>1. CASE i < m
    <3>1. i \in 0 .. x /\ i # max
      BY <2>1
    <3>2. f[i].result = 0 /\ f[i].result = 1
      BY <1>5, <1>7, <3>1 DEF StopsAt
    <3> QED
      BY <3>2
  <2>2. CASE m < i
    <3>1. x < max /\ m = x + 1 /\ m \in 1 .. i - 1
      BY <2>2
    <3>2. f[m].result = 1 /\ f[m].result = 0
      BY <1>5, <1>7, <3>1 DEF StopsAt
    <3> QED
      BY <3>2
  <2> QED
    BY <1>2, <2>1, <2>2
<1> HIDE DEF m
<1>8. n = m
  BY <1>2, <1>6, <1>7
<1> HIDE DEF n
<1>9. /\ Dec!AfterPrefix(d, max).regs = f[m]
      /\ Dec!AfterPrefix(d, max).prefix = m - (1 - f[m].result)
  BY <1>1, <1>8
<1>10. CASE x = max
  <2>1. m = max /\ x \in 0 .. x
    BY <1>10 DEF m
  <2>2. f[m].result = 1 /\ Reads(f[m], d, v, AfterOnes(iv, x, max), 1)
    BY <1>4, <1>5, <1>10, <2>1 DEF AfterOnes
  <2>3. m - (1 - f[m].result) = x /\ 1 \in Bit
    BY <1>10, <2>1, <2>2 DEF Bit
  <2> QED
    BY <1>9, <2>2, <2>3
<1>11. CASE x # max
  <2>1. m = x + 1 /\ x < max
    BY <1>11 DEF m
  <2>2. f[m].result = 0 /\ Reads(f[m], d, v, AfterOnes(iv, x, max), 0)
    BY <1>4, <1>5, <2>1
  <2>3. m - (1 - f[m].result) = x /\ 0 \in Bit
    BY <2>1, <2>2 DEF Bit
  <2> QED
    BY <1>9, <2>2, <2>3
<1> QED
  BY <1>10, <1>11

(* The bytes of an escape code say what comes before it.                   *)
LEMMA RemStarts ==
  ASSUME NEW iv \in Spans, NEW data \in Seq(Bytes), NEW v, Numbers(v, data),
         NEW rice, NEW cutoff, NEW maxLog2, RemArgs(rice, cutoff, maxLog2), NEW val \in Nat, val <= Pow(maxLog2),
         Starts(v, Len(data), AfterRem(iv, val, rice, cutoff, maxLog2))
  PROVE  /\ Starts(v, Len(data), AfterOnes(iv, Ones(val, rice, cutoff, maxLog2), 32 - maxLog2))
         /\ Starts(v, Len(data), iv)
<1> DEFINE max  == 32 - maxLog2
           x    == Ones(val, rice, cutoff, maxLog2)
           low  == val - OffsetOf(x, rice, cutoff)
           n    == LengthOf(x, rice, cutoff, maxLog2)
           ones == AfterOnes(iv, x, max)
<1>1. max \in 0 .. 31
  BY DEF RemArgs
<1>2. x \in 0 .. max /\ n \in 0 .. 22 /\ low \in Nat /\ low < Pow(n)
  BY RemNumbers
<1>3. AfterRem(iv, val, rice, cutoff, maxLog2) = Bins(ones, low, n)
  BY DEF AfterRem
<1> HIDE DEF max, x, n, ones, low
<1>4. ones \in Spans
  <2>1. x \in 0 .. 31
    BY <1>1, <1>2
  <2> DEFINE z == Bins(iv, Pow(x) - 1, x)
  <2>2. z \in Spans
    BY <2>1, OnesNext
  <2>3. ones = IF x = max THEN z ELSE Bins(z, 0, 1)
    BY DEF ones, AfterOnes
  <2> HIDE DEF z
  <2>4. Bins(z, 0, 1) \in Spans
    <3>1. Pow(1) = 2 /\ Pow(0) = 1 /\ Pow(1 + 0) = 2
      BY PowerTable
    <3>2. Pow(1) \in Nat /\ Pow(0) \in Nat /\ Pow(1 + 0) = Pow(1) * Pow(0)
      BY <3>1
    <3> QED
      BY <2>2, <3>2, BinsTwice
  <2> QED
    BY <2>2, <2>3, <2>4
<1>5. Starts(v, Len(data), ones)
  <2>1. n \in 0 .. 31 /\ Starts(v, Len(data), Bins(ones, low, n))
    BY <1>2, <1>3
  <2> QED
    BY <2>1, <1>2, <1>4, BytesStart
<1>6. Starts(v, Len(data), Bins(iv, Pow(0) - 1, 0))
  <2>1. 0 \in 0 .. x /\ Starts(v, Len(data), AfterOnes(iv, x, max))
    BY <1>1, <1>2, <1>5 DEF ones
  <2> QED
    BY <2>1, <1>1, <1>2, OnesStart
<1>7. Pow(0) - 1 = 0 /\ 0 < Pow(0) /\ 0 \in Nat /\ 0 \in 0 .. 8
  BY PowerTable
<1>8. Starts(v, Len(data), iv)
  BY <1>6, <1>7, BinsStart
<1> QED
  BY <1>5, <1>8 DEF ones, x, max

(* decodeRemAbsEP.                                                         *)
LEMMA DecodeRemAbsEPReads ==
  ASSUME NEW d, NEW v, NEW iv, Reading(d, v, iv),
         NEW rice, NEW cutoff, NEW maxLog2, RemArgs(rice, cutoff, maxLog2), NEW val \in Nat, val <= Pow(maxLog2),
         Starts(v, Len(d.data), AfterRem(iv, val, rice, cutoff, maxLog2))
  PROVE  Reads(Dec!DecodeRemAbsEP(d, rice, cutoff, maxLog2), d, v,
               AfterRem(iv, val, rice, cutoff, maxLog2), val)
<1> DEFINE max   == 32 - maxLog2
           x     == Ones(val, rice, cutoff, maxLog2)
           o     == OffsetOf(x, rice, cutoff)
           n     == LengthOf(x, rice, cutoff, maxLog2)
           ones  == AfterOnes(iv, x, max)
           read  == Dec!AfterPrefix(d, max)
           rest  == Dec!DecodeBinsEP(read.regs, n)
           after == AfterRem(iv, val, rice, cutoff, maxLog2)
<1>1. maxLog2 \in 15 .. 22 /\ max \in 1 .. 31 /\ max \in 0 .. 31
  BY DEF RemArgs
<1>2. x \in 0 .. max /\ n \in 0 .. 22 /\ val - o \in Nat /\ val - o < Pow(n) /\ n \in 0 .. 31
  <2>1. x \in 0 .. max /\ n \in 0 .. 22 /\ val - o \in Nat /\ val - o < Pow(n)
    BY RemNumbers
  <2> HIDE DEF n
  <2>2. n \in 0 .. 31
    BY <2>1
  <2> QED
    BY <2>1, <2>2
<1>3. after = Bins(ones, val - o, n)
  BY DEF AfterRem
<1>4. Dec!DecodeRemAbsEP(d, rice, cutoff, maxLog2)
        = LET prefix == read.prefix
              last   == Dec!DecodeBinsEP(read.regs, LengthOf(prefix, rice, cutoff, maxLog2))
          IN [last EXCEPT !.result = last.result + OffsetOf(prefix, rice, cutoff)]
  BY Zenon DEF Dec!DecodeRemAbsEP, OffsetOf, LengthOf, Pow
<1>5. iv \in Spans /\ d.data \in Seq(Bytes) /\ Numbers(v, d.data)
  BY DEF Reading, At, Decoders
<1> HIDE DEF max, x, o, n, ones, read, after
<1>7. Starts(v, Len(d.data), ones)
  BY <1>5, RemStarts, SMTT(30) DEF after, ones, x, max
<1>8. read.prefix = x /\ \E bin \in Bit : Reads(read.regs, d, v, ones, bin)
  BY <1>1, <1>2, <1>7, AfterPrefixReads DEF ones, read
<1>9. Reading(read.regs, v, ones) /\ read.regs.data = d.data
  BY <1>8 DEF Reads
<1> HIDE DEF rest
<1>10. Reads(rest, d, v, after, val - o)
  <2> DEFINE regs == read.regs
             low  == val - o
  <2>1. Reading(regs, v, ones) /\ regs.data = d.data /\ low \in Nat /\ low < Pow(n)
        /\ Starts(v, Len(regs.data), Bins(ones, low, n))
    BY <1>2, <1>3, <1>9 DEF after
  <2>2. rest = Dec!DecodeBinsEP(regs, n)
    BY DEF rest
  <2> HIDE DEF regs, low
  <2>3. Reads(rest, regs, v, Bins(ones, low, n), low)
    BY <2>1, <2>2, <1>2, DecodeBinsEPReads
  <2>4. Reads(rest, d, v, Bins(ones, low, n), low)
    BY <2>1, <2>3 DEF Reads
  <2> QED
    BY <2>4, <1>3 DEF low
<1>11. Dec!DecodeRemAbsEP(d, rice, cutoff, maxLog2) = [rest EXCEPT !.result = rest.result + o]
  BY <1>4, <1>8 DEF rest, o, n
<1>12. rest.result + o = val
  <2>1. o \in Int
    <3>1. x < cutoff \/ ~(x < cutoff)
      OBVIOUS
    <3>2. Pow(rice) \in Nat /\ cutoff \in Nat /\ x \in Nat
      <4>1. rice \in 0 .. 32 /\ cutoff \in Nat /\ x \in Nat
        BY <1>1, <1>2 DEF RemArgs
      <4> QED
        BY <4>1, PowerNat
    <3>3. CASE x < cutoff
      BY <3>2, <3>3 DEF o, OffsetOf
    <3>4. CASE ~(x < cutoff)
      <4>1. Pow(x - cutoff) \in Nat
        <5>1. x - cutoff \in 0 .. 32
          BY <1>1, <1>2, <3>2, <3>4
        <5> QED
          BY <5>1, PowerNat
      <4>2. o = (Pow(x - cutoff) + cutoff - 1) * Pow(rice)
        BY <3>4 DEF o, OffsetOf
      <4> DEFINE y == Pow(x - cutoff)
                 z == Pow(rice)
      <4> HIDE DEF y, z
      <4>3. (y + cutoff - 1) * z \in Int
        BY <3>2, <4>1 DEF y, z
      <4> QED
        BY <4>2, <4>3 DEF y, z
    <3> QED
      BY <3>3, <3>4
  <2>2. rest.result = val - o
    BY <1>10 DEF Reads
  <2> QED
    BY <2>1, <2>2
<1>13. Reads([rest EXCEPT !.result = val], d, v, after, val)
  <2>1. val \in Int
    OBVIOUS
  <2> QED
    BY <2>1, <1>10, ResultReads
<1> QED
  BY <1>11, <1>12, <1>13 DEF after

----------------------------------------------------------------------------
(* A symbol, read back.                                                    *)

(* The bytes of a symbol say what comes before it.                         *)
LEMMA AfterStarts ==
  ASSUME NEW iv \in Spans, iv.range \in Ranges, NEW data \in Seq(Bytes), NEW v, Numbers(v, data),
         NEW models \in [DOMAIN Inistate -> Models], NEW s, IsSymbol(s),
         Starts(v, Len(data), After(iv, models, s))
  PROVE  Starts(v, Len(data), iv)
<1> DEFINE r == iv.range
<1>1. r \in Nat /\ r >= 256 /\ r <= 510
  BY DEF Ranges
<1>2. Pow(1) = 2 /\ Pow(0) = 1 /\ 1 \in 0 .. 8 /\ 0 \in 0 .. 8 /\ 0 \in Nat
  BY PowerTable
<1>3. CASE s.kind = "ctx" /\ s.arg[1] \in DOMAIN Inistate /\ s.val \in Bit
  <2> DEFINE m   == models[s.arg[1]]
             lps == GetLPS(m, r)
             mps == r - lps
             n   == RenormBitsLPS(lps)
  <2>1. m \in Models
    BY <1>3, SMTT(30)
  <2>2. lps \in 4 .. 236 /\ mps \in 128 .. 506
    BY <2>1, LpsOk
  <2>3. n \in 1 .. 6
    BY <2>2, RenormOk
  <2>4. After(iv, models, s)
          = IF s.val # Mps(m) THEN Part(iv, n, mps * Pow(n), lps * Pow(n))
            ELSE IF mps < 256 THEN Part(iv, 1, 0, mps * Pow(1))
            ELSE Part(iv, 0, 0, mps)
    BY <1>3 DEF After, AfterBin
  <2>5. lps \in Nat /\ mps \in Nat /\ mps + lps = r /\ mps <= r
    <3>1. mps = r - lps
      OBVIOUS
    <3> HIDE DEF mps, lps, r
    <3> QED
      BY <3>1, <2>2, <1>1
  <2> HIDE DEF m, lps, mps, n, r
  <2>6. CASE s.val # Mps(m)
    <3> DEFINE p == Pow(n)
               a == mps * p
               b == lps * p
    <3>1. p \in Nat
      <4>1. n \in 0 .. 32
        BY <2>3
      <4> QED
        BY <4>1, PowerNat
    <3>2. a + b = (mps + lps) * p /\ a \in Nat /\ b \in Nat
      <4> HIDE DEF p
      <4> QED
        BY <2>5, <3>1
    <3>3. a + b <= iv.range * p
      <4>1. a + b = iv.range * p
        BY <3>2, <2>5 DEF r
      <4> HIDE DEF a, b, p
      <4>2. a + b \in Nat
        BY <3>2
      <4> QED
        BY <4>1, <4>2
    <3>4. Starts(v, Len(data), Part(iv, n, a, b)) /\ n \in 0 .. 8
      BY <2>3, <2>4, <2>6
    <3> HIDE DEF a, b
    <3> QED
      BY <3>2, <3>3, <3>4, WholeStarts DEF p
  <2>7. CASE s.val = Mps(m) /\ mps < 256
    <3> DEFINE b == mps * Pow(1)
    <3>1. b \in Nat /\ 0 + b <= iv.range * Pow(1) /\ Starts(v, Len(data), Part(iv, 1, 0, b))
      BY <1>1, <1>2, <2>4, <2>5, <2>7 DEF r
    <3> HIDE DEF b
    <3> QED
      BY <3>1, <1>2, WholeStarts
  <2>8. CASE s.val = Mps(m) /\ ~(mps < 256)
    <3>1. 0 + mps <= iv.range * Pow(0) /\ Starts(v, Len(data), Part(iv, 0, 0, mps))
      BY <1>1, <1>2, <2>4, <2>5, <2>8 DEF r
    <3> QED
      BY <3>1, <1>2, <2>5, WholeStarts
  <2> QED
    BY <2>6, <2>7, <2>8
<1>4. CASE s.kind = "ep" /\ s.val \in Bit
  <2>1. After(iv, models, s) = Bins(iv, s.val, 1)
    BY <1>4 DEF After
  <2>2. s.val \in Nat /\ s.val < Pow(1)
    BY <1>2, <1>4 DEF Bit
  <2> QED
    BY <2>1, <2>2, <1>2, BinsStart
<1>5. CASE s.kind = "eps" /\ s.arg[1] \in 1 .. 30 /\ s.val \in Nat /\ s.val < Pow(s.arg[1])
  <2>1. After(iv, models, s) = Bins(iv, s.val, s.arg[1])
    BY <1>5 DEF After
  <2>2. s.arg[1] \in 0 .. 31
    BY <1>5
  <2> DEFINE k    == s.arg[1]
             bins == s.val
  <2>3. k \in 0 .. 31 /\ bins \in Nat /\ bins < Pow(k) /\ Starts(v, Len(data), Bins(iv, bins, k))
    BY <2>1, <2>2, <1>5
  <2> HIDE DEF k, bins
  <2> QED
    BY <2>3, BytesStart
<1>6. CASE /\ s.kind = "rem" /\ RemArgs(s.arg[1], s.arg[2], s.arg[3])
           /\ s.val \in Nat /\ s.val <= Pow(s.arg[3])
  <2>1. After(iv, models, s) = AfterRem(iv, s.val, s.arg[1], s.arg[2], s.arg[3])
    BY <1>6 DEF After
  <2> QED
    BY <2>1, <1>6, RemStarts
<1>7. CASE s.kind = "trm" /\ s.val = 0
  <2> DEFINE rest == r - 2
  <2>1. After(iv, models, s) = IF rest >= 256 THEN Part(iv, 0, 0, rest) ELSE Part(iv, 1, 0, rest * Pow(1))
    BY <1>7 DEF After, AfterTrm
  <2>2. rest \in Nat /\ rest <= r /\ rest * Pow(1) \in Nat
    BY <1>1, <1>2
  <2> HIDE DEF rest, r
  <2>3. CASE rest >= 256
    <3>1. 0 + rest <= iv.range * Pow(0)
      BY <1>1, <1>2, <2>2 DEF r
    <3> QED
      BY <3>1, <1>2, <2>1, <2>2, <2>3, WholeStarts
  <2>4. CASE ~(rest >= 256)
    <3>1. 0 + rest * Pow(1) <= iv.range * Pow(1)
      BY <1>1, <1>2, <2>2 DEF r
    <3> DEFINE b == rest * Pow(1)
    <3>2. b \in Nat /\ 0 + b <= iv.range * Pow(1) /\ Starts(v, Len(data), Part(iv, 1, 0, b))
      BY <3>1, <2>1, <2>2, <2>4
    <3> HIDE DEF b
    <3> QED
      BY <3>2, <1>2, WholeStarts
  <2> QED
    BY <2>3, <2>4
<1> QED
  BY <1>3, <1>4, <1>5, <1>6, <1>7, SymbolKinds

(* Each symbol is read as it was coded.                                    *)
LEMMA DecodedReads ==
  ASSUME NEW v, NEW iv, Reading(dec, v, iv), decModels \in [DOMAIN Inistate -> Models], NEW s, IsSymbol(s),
         Starts(v, Len(dec.data), After(iv, decModels, s))
  PROVE  Reads(Decoded(s.kind, s.arg), dec, v, After(iv, decModels, s), s.val)
<1>1. CASE s.kind = "ctx" /\ s.arg[1] \in DOMAIN Inistate /\ s.val \in Bit
  <2>1. decModels[s.arg[1]] \in Models
    BY <1>1
  <2>2. /\ Decoded(s.kind, s.arg) = Dec!DecodeBin(dec, decModels[s.arg[1]])
        /\ After(iv, decModels, s) = AfterBin(iv, decModels[s.arg[1]], s.val)
    BY <1>1 DEF Decoded, After
  <2> QED
    BY <1>1, <2>1, <2>2, DecodeBinReads
<1>2. CASE s.kind = "ep" /\ s.val \in Bit
  <2>1. Decoded(s.kind, s.arg) = Dec!DecodeBinEP(dec) /\ After(iv, decModels, s) = Bins(iv, s.val, 1)
    BY <1>2 DEF Decoded, After
  <2> QED
    BY <1>2, <2>1, DecodeBinEPReads
<1>3. CASE s.kind = "eps" /\ s.arg[1] \in 1 .. 30 /\ s.val \in Nat /\ s.val < Pow(s.arg[1])
  <2>1. /\ Decoded(s.kind, s.arg) = Dec!DecodeBinsEP(dec, s.arg[1])
        /\ After(iv, decModels, s) = Bins(iv, s.val, s.arg[1])
    BY <1>3 DEF Decoded, After
  <2>2. s.arg[1] \in 0 .. 31
    BY <1>3
  <2> QED
    BY <1>3, <2>1, <2>2, DecodeBinsEPReads
<1>4. CASE /\ s.kind = "rem" /\ RemArgs(s.arg[1], s.arg[2], s.arg[3])
           /\ s.val \in Nat /\ s.val <= Pow(s.arg[3])
  <2>1. /\ Decoded(s.kind, s.arg) = Dec!DecodeRemAbsEP(dec, s.arg[1], s.arg[2], s.arg[3])
        /\ After(iv, decModels, s) = AfterRem(iv, s.val, s.arg[1], s.arg[2], s.arg[3])
    BY <1>4 DEF Decoded, After
  <2> QED
    BY <1>4, <2>1, DecodeRemAbsEPReads
<1>5. CASE s.kind = "trm" /\ s.val = 0
  <2>1. Decoded(s.kind, s.arg) = Dec!DecodeBinTrm(dec) /\ After(iv, decModels, s) = AfterTrm(iv)
    BY <1>5 DEF Decoded, After
  <2> QED
    BY <1>5, <2>1, DecodeBinTrmReads
<1> QED
  BY <1>1, <1>2, <1>3, <1>4, <1>5, SymbolKinds

(* The contexts stay contexts.                                             *)
LEMMA LearnOk ==
  ASSUME NEW models \in [DOMAIN Inistate -> Models], NEW s, IsSymbol(s)
  PROVE  Learn(models, s.kind, s.arg, s.val) \in [DOMAIN Inistate -> Models]
<1>1. CASE s.kind = "ctx"
  <2>1. s.arg[1] \in DOMAIN Inistate /\ s.val \in Bit
    BY <1>1, SymbolKinds
  <2>2. Update(models[s.arg[1]], s.val) \in Models
    BY <2>1, UpdateOk
  <2>3. Learn(models, s.kind, s.arg, s.val) = [models EXCEPT ![s.arg[1]] = Update(models[s.arg[1]], s.val)]
    BY <1>1 DEF Learn
  <2> QED
    BY <2>2, <2>3
<1>2. CASE s.kind # "ctx"
  BY <1>2 DEF Learn
<1> QED
  BY <1>1, <1>2

----------------------------------------------------------------------------
(* A whole substream.                                                      *)

Intervals == {iv \in Spans : iv.range \in Ranges}

\* the interval and the contexts before each symbol and after the last
IsHistory(h, g, list) ==
  /\ h \in [0 .. Len(list) -> Intervals] /\ h[0] = Whole
  /\ g \in [0 .. Len(list) -> [DOMAIN Inistate -> Models]] /\ g[0] = InitModels
  /\ \A i \in 1 .. Len(list) : /\ h[i] = After(h[i - 1], g[i - 1], list[i])
                               /\ g[i] = Learn(g[i - 1], list[i].kind, list[i].arg, list[i].val)

\* the encoder has come to the last interval
Coding(h, g) ==
  Codes(enc, h[Len(coded)]) /\ got = << >> /\ decModels = InitModels

\* the decoder has come to one of them, and the bytes lie in all
Decoding(h, g) ==
  /\ \E v : /\ Numbers(v, dec.data) /\ Ends(v, Len(dec.data), h[Len(coded)])
            /\ \A i \in 0 .. Len(coded) : Starts(v, Len(dec.data), h[i])
            /\ Reading(dec, v, h[Len(got)])
  /\ decModels = g[Len(got)]

RoundTripInv ==
  /\ symbols \in Alphabets /\ coded \in Seq(symbols)
  /\ phase \in {"encode", "decode", "done"} /\ Finished(enc)
  /\ got \in Seq(Int) /\ Len(got) <= Len(coded)
  /\ \A i \in 1 .. Len(got) : got[i] = coded[i].val
  /\ \E h, g : /\ IsHistory(h, g, coded) /\ encModels = g[Len(coded)]
               /\ phase = "encode" => Coding(h, g)
               /\ phase = "decode" => Decoding(h, g)
  /\ phase = "done" => /\ dec.result = 1 /\ Dec!StopPattern(dec) /\ dec.pos = Len(dec.data)
                       /\ ~dec.exceeded /\ decModels = encModels

(* What the encoder has come to are sound registers.                       *)
LEMMA CodesInterval ==
  ASSUME NEW e, NEW iv, Codes(e, iv)
  PROVE  iv \in Intervals /\ Finished(e)
<1>1. e \in Encoders /\ e.bitsLeft \in 4 .. 23 /\ e.bitsLeft >= 12 /\ e.range \in Ranges
      /\ iv.range = e.range /\ iv \in Spans
  BY DEF Codes, EncoderOk, Sound, Encoders, Represents
<1>2. e.bitsLeft \in 12 .. 23
  BY <1>1
<1> QED
  BY <1>1, <1>2 DEF Finished, Intervals

(* Before anything is coded.                                               *)
LEMMA StartCodes == Codes(EncoderStart, Whole)
<1> DEFINE e == EncoderStart
           v == [k \in 0 .. 0 |-> 0]
<1>1. e \in Encoders /\ e.bitsLeft = 23 /\ e.low = 0 /\ e.range = 510 /\ e.numBufferedBytes = 0 /\ e.fits
      /\ e.bytes = << >>
  BY DEF EncoderStart, Encoders, Ranges, Bytes
<1> HIDE DEF e
<1>2. CarryOut(e) = 512
  BY <1>1, PowerTable DEF CarryOut
<1>3. EncoderOk(e)
  BY <1>1, <1>2 DEF EncoderOk, Sound, InWindow
<1>4. Len(e.bytes) = 0 /\ Given(e) = 0
  BY <1>1 DEF Given
<1>5. v \in [0 .. 0 -> Nat] /\ v[0] = 0
  OBVIOUS
<1> HIDE DEF v
<1>6. Stands(v, e)
  BY <1>1, <1>4, <1>5 DEF Stands
<1>7. Represents(e, v, Whole)
  BY <1>1, <1>2, <1>4, <1>5, <1>6 DEF Represents, Whole
<1>8. Whole \in Spans
  BY DEF Whole, Spans
<1> QED
  BY <1>3, <1>7, <1>8 DEF Codes, e

(* The first two bytes are read.                                           *)
LEMMA StartReads ==
  ASSUME NEW data \in Seq(Bytes), NEW v, Numbers(v, data), Starts(v, Len(data), Whole)
  PROVE  Reading(Dec!DecoderStart(data), v, Whole) /\ Dec!DecoderStart(data).data = data
<1> DEFINE d0 == [value |-> 0, range |-> 510, bitsNeeded |-> -8, pos |-> 0,
                  data |-> data, exceeded |-> FALSE, result |-> 0]
           w  == data[1] * 256
           y  == data[1] * 256 + data[2]
           d1 == [d0 EXCEPT !.value = w, !.pos = 1]
           d2 == [d1 EXCEPT !.value = y, !.pos = 2]
<1>1. BytesFor(9) = 2 /\ Ahead(9) = 7 /\ Pow(7 - 7) = 1
  BY PowerTable DEF BytesFor, Ahead
<1>2. Len(data) \in Nat /\ Len(data) >= 2
  BY <1>1 DEF Starts, Whole
<1>3. data[1] \in Nat /\ data[2] \in Nat
  <2>1. data[1] \in Bytes /\ data[2] \in Bytes
    BY <1>2
  <2> QED
    BY <2>1 DEF Bytes
<1>4. v[2] = data[1] * 256 + data[2]
  <2>1. 0 \in 0 .. Len(data) - 1 /\ 1 \in 0 .. Len(data) - 1
    BY <1>2
  <2>2. v[0] = 0 /\ v[0 + 1] = 256 * v[0] + data[0 + 1] /\ v[1 + 1] = 256 * v[1] + data[1 + 1]
    BY <2>1 DEF Numbers
  <2> QED
    BY <2>2, <1>3
<1>5. Dec!ReadByte(d0, 8) = d1
  <2>1. d0.pos < Len(d0.data)
    BY <1>2
  <2>2. Dec!ReadByte(d0, 8) = [d0 EXCEPT !.value = d0.value + d0.data[d0.pos + 1] * Pow(8), !.pos = d0.pos + 1]
    BY <2>1, Zenon DEF Dec!ReadByte, Pow
  <2>3. d0.value + d0.data[d0.pos + 1] * Pow(8) = data[1] * 256 /\ d0.pos + 1 = 1
    <3>1. d0.value = 0 /\ d0.data = data /\ d0.pos = 0
      OBVIOUS
    <3>2. Pow(8) = 256
      BY PowerTable
    <3> HIDE DEF d0
    <3> QED
      BY <1>3, <3>1, <3>2
  <2> HIDE DEF d0
  <2> QED
    BY <2>2, <2>3
<1>6. Dec!ReadByte(d1, 0) = d2
  <2>1. d1.pos < Len(d1.data) /\ d1.value = data[1] * 256 /\ d1.pos = 1 /\ d1.data = data
    BY <1>2
  <2>2. Dec!ReadByte(d1, 0) = [d1 EXCEPT !.value = d1.value + d1.data[d1.pos + 1] * Pow(0), !.pos = d1.pos + 1]
    BY <2>1, Zenon DEF Dec!ReadByte, Pow
  <2> HIDE DEF d1
  <2>3. d1.value + d1.data[d1.pos + 1] * Pow(0) = data[1] * 256 + data[2] /\ d1.pos + 1 = 2
    <3>1. Pow(0) = 1
      BY PowerTable
    <3> QED
      BY <2>1, <1>3, <3>1
  <2> QED
    BY <2>2, <2>3
<1>7. Dec!DecoderStart(data) = d2
  BY <1>5, <1>6 DEF Dec!DecoderStart
<1>8. /\ d2.value = v[2] /\ d2.range = 510 /\ d2.bitsNeeded = -8 /\ d2.pos = 2 /\ d2.data = data
      /\ ~d2.exceeded /\ d2 \in Decoders
  <2> DEFINE b == -8
  <2>1. w \in Int /\ y \in Int /\ y = v[2] /\ b \in Int /\ b = -8 /\ 1 \in Nat /\ 2 \in Nat /\ 510 \in Nat
    BY <1>3, <1>4
  <2>2. /\ d0 \in Decoders /\ d0.range = 510 /\ d0.bitsNeeded = b /\ d0.data = data /\ ~d0.exceeded
    <3> HIDE DEF b
    <3>1. d0 = [value |-> 0, range |-> 510, bitsNeeded |-> b, pos |-> 0,
                data |-> data, exceeded |-> FALSE, result |-> 0]
      BY <2>1
    <3> HIDE DEF d0
    <3> QED
      BY <2>1, <3>1 DEF Decoders
  <2>3. d1 = [d0 EXCEPT !.value = w, !.pos = 1] /\ d2 = [d1 EXCEPT !.value = y, !.pos = 2]
    OBVIOUS
  <2> HIDE DEF d0, w, y, b
  <2>4. /\ d1 \in Decoders /\ d1.range = d0.range /\ d1.bitsNeeded = d0.bitsNeeded /\ d1.data = d0.data
        /\ d1.exceeded = d0.exceeded
    BY <2>1, <2>2 DEF Decoders
  <2> HIDE DEF d1
  <2>5. /\ d2 \in Decoders /\ d2.range = d1.range /\ d2.bitsNeeded = d1.bitsNeeded /\ d2.data = d1.data
        /\ d2.exceeded = d1.exceeded /\ d2.value = y /\ d2.pos = 2
    <3>1. d2 = [d1 EXCEPT !.value = y, !.pos = 2]
      BY <2>3
    <3>2. d1 \in Decoders /\ y \in Int /\ 2 \in Nat
      BY <2>1, <2>4
    <3> HIDE DEF d2
    <3> QED
      BY <3>1, <3>2 DEF Decoders
  <2> QED
    BY <2>1, <2>2, <2>4, <2>5
<1> HIDE DEF d2
<1>9. v[2] \in Nat
  BY <1>3, <1>4
<1>10. At(d2, v, Whole)
  <2>1. v[2] = v[2] * 1 - 128 * 0 /\ -8 = -1 - 7
    BY <1>9
  <2> QED
    BY <2>1, <1>1, <1>2, <1>8 DEF At, Whole
<1>11. Whole \in Spans /\ Whole.range = 510 /\ 510 \in Ranges
  BY DEF Whole, Spans, Ranges
<1> QED
  BY <1>7, <1>8, <1>10, <1>11 DEF Reading

(* The terminating bin's part is a part of the last interval.              *)
LEMMA EndsStarts ==
  ASSUME NEW iv \in Intervals, NEW v, NEW size, Ends(v, size, iv)
  PROVE  Starts(v, size, iv)
<1> DEFINE l == iv.low
           r == iv.range
           p == Pow(Ahead(iv.bits))
<1>1. l \in Nat /\ r \in Nat /\ r >= 256 /\ iv.bits \in Nat
  BY DEF Intervals, Spans, Ranges
<1>2. p \in Nat /\ p >= 1
  <2>1. Ahead(iv.bits) \in 0 .. 32
    BY <1>1, BytesNext
  <2> QED
    BY <2>1, PowerNat, Zenon
<1>3. PICK k \in Nat : 2 * k <= l + r - 2 /\ l + r - 2 <= 2 * k + 1 /\ v[size] = (2 * k + 1) * p
  BY DEF Ends
<1>4. BytesFor(iv.bits) = size /\ size \in Nat
  BY <1>1, BytesNext DEF Ends
<1> HIDE DEF l, r, p
<1> DEFINE x == 2 * k + 1
           z == l + r
<1>5. x \in Nat /\ z \in Nat /\ l <= x /\ x + 1 <= z
  BY <1>1, <1>3
<1> HIDE DEF x, z
<1>6. l * p <= x * p /\ (x + 1) * p <= z * p /\ (x + 1) * p = x * p + p /\ x * p \in Nat /\ z * p \in Nat
  BY <1>1, <1>2, <1>5
<1>7. l * p <= v[size] /\ v[size] < z * p
  <2>1. v[size] = x * p
    BY <1>3 DEF x
  <2> QED
    BY <2>1, <1>2, <1>6
<1> QED
  BY <1>4, <1>7 DEF Starts, l, r, p, z

(* The bytes lie in every interval before.                                 *)
LEMMA HistoryStarts ==
  ASSUME NEW list, Len(list) \in Nat, \A i \in 1 .. Len(list) : IsSymbol(list[i]), NEW h, NEW g, IsHistory(h, g, list),
         NEW data \in Seq(Bytes), NEW v, Numbers(v, data), Ends(v, Len(data), h[Len(list)])
  PROVE  \A i \in 0 .. Len(list) : Starts(v, Len(data), h[i])
<1> DEFINE n == Len(list)
           S == {k \in Nat : k <= n => Starts(v, Len(data), h[n - k])}
<1>1. n \in Nat
  OBVIOUS
<1>2. /\ \A i \in 0 .. n : h[i] \in Intervals /\ g[i] \in [DOMAIN Inistate -> Models]
      /\ \A i \in 1 .. n : h[i] = After(h[i - 1], g[i - 1], list[i]) /\ IsSymbol(list[i])
  BY DEF IsHistory
<1>3. Ends(v, Len(data), h[n])
  OBVIOUS
<1> HIDE DEF n
<1>4. 0 \in S
  <2>1. n - 0 = n /\ n \in 0 .. n
    BY <1>1
  <2>2. Starts(v, Len(data), h[n])
    BY <2>1, <1>2, <1>3, EndsStarts
  <2> QED
    BY <2>1, <2>2
<1>5. ASSUME NEW k \in S
      PROVE  k + 1 \in S
  <2>1. k \in Nat
    OBVIOUS
  <2>2. CASE k + 1 <= n
    <3> DEFINE i == n - k
    <3>1. i \in 1 .. n /\ i - 1 = n - (k + 1) /\ i - 1 \in 0 .. n /\ k <= n
      BY <1>1, <2>1, <2>2
    <3>2. Starts(v, Len(data), h[i])
      BY <3>1
    <3> HIDE DEF i
    <3>3. /\ h[i - 1] \in Spans /\ h[i - 1].range \in Ranges /\ g[i - 1] \in [DOMAIN Inistate -> Models]
          /\ IsSymbol(list[i]) /\ h[i] = After(h[i - 1], g[i - 1], list[i])
      BY <1>2, <3>1 DEF Intervals
    <3>4. Starts(v, Len(data), h[i - 1])
      BY <3>2, <3>3, AfterStarts
    <3> QED
      BY <2>1, <3>1, <3>4
  <2>3. CASE ~(k + 1 <= n)
    BY <1>1, <2>1, <2>3
  <2> QED
    BY <2>2, <2>3
<1>6. S = Nat
  <2> HIDE DEF S
  <2>1. S \in SUBSET Nat
    BY DEF S
  <2> QED
    BY <1>4, <1>5, <2>1, Induction
<1>7. ASSUME NEW i \in 0 .. n
      PROVE  Starts(v, Len(data), h[i])
  <2>1. n - i \in Nat /\ n - i <= n /\ n - (n - i) = i
    BY <1>1
  <2> QED
    BY <1>6, <2>1
<1> QED
  BY <1>7 DEF n

(* One symbol more.                                                        *)
LEMMA HistoryNext ==
  ASSUME NEW T, NEW list \in Seq(T), NEW s \in T, NEW h, NEW g, IsHistory(h, g, list),
         After(h[Len(list)], g[Len(list)], s) \in Intervals,
         Learn(g[Len(list)], s.kind, s.arg, s.val) \in [DOMAIN Inistate -> Models]
  PROVE  \E h2, g2 : /\ IsHistory(h2, g2, Append(list, s))
                     /\ h2[Len(Append(list, s))] = After(h[Len(list)], g[Len(list)], s)
                     /\ g2[Len(Append(list, s))] = Learn(g[Len(list)], s.kind, s.arg, s.val)
<1> DEFINE n   == Len(list)
           all == Append(list, s)
           iv  == After(h[n], g[n], s)
           m   == Learn(g[n], s.kind, s.arg, s.val)
           C   == [DOMAIN Inistate -> Models]
           h2  == [i \in 0 .. n + 1 |-> IF i <= n THEN h[i] ELSE iv]
           g2  == [i \in 0 .. n + 1 |-> IF i <= n THEN g[i] ELSE m]
<1>1. n \in Nat /\ Len(all) = n + 1 /\ all[n + 1] = s /\ \A i \in 1 .. n : all[i] = list[i]
  OBVIOUS
<1>2. /\ h \in [0 .. n -> Intervals] /\ h[0] = Whole /\ g \in [0 .. n -> C] /\ g[0] = InitModels
      /\ \A i \in 1 .. n : /\ h[i] = After(h[i - 1], g[i - 1], list[i])
                           /\ g[i] = Learn(g[i - 1], list[i].kind, list[i].arg, list[i].val)
      /\ iv \in Intervals /\ m \in C
  BY DEF IsHistory
<1>3. iv = After(h[n], g[n], s) /\ m = Learn(g[n], s.kind, s.arg, s.val)
  OBVIOUS
<1> HIDE DEF n, all, iv, m, C
<1>4. /\ h2 \in [0 .. n + 1 -> Intervals] /\ g2 \in [0 .. n + 1 -> C]
      /\ h2[n + 1] = iv /\ g2[n + 1] = m /\ \A i \in 0 .. n : h2[i] = h[i] /\ g2[i] = g[i]
  BY <1>1, <1>2
<1> HIDE DEF h2, g2
<1>5. ASSUME NEW i \in 1 .. n + 1
      PROVE  h2[i] = After(h2[i - 1], g2[i - 1], all[i]) /\ g2[i] = Learn(g2[i - 1], all[i].kind, all[i].arg, all[i].val)
  <2>1. CASE i = n + 1
    <3>1. i - 1 = n /\ n \in 0 .. n
      BY <1>1, <2>1
    <3> QED
      BY <3>1, <2>1, <1>1, <1>3, <1>4
  <2>2. CASE i # n + 1
    <3>1. i \in 1 .. n /\ i \in 0 .. n /\ i - 1 \in 0 .. n
      BY <1>1, <2>2
    <3> QED
      BY <3>1, <1>1, <1>2, <1>4
  <2> QED
    BY <2>1, <2>2
<1>6. h2[0] = Whole /\ g2[0] = InitModels
  <2>1. 0 \in 0 .. n
    BY <1>1
  <2> QED
    BY <2>1, <1>2, <1>4
<1>7. IsHistory(h2, g2, all)
  BY <1>1, <1>4, <1>5, <1>6 DEF IsHistory, C
<1> QED
  BY <1>1, <1>3, <1>4, <1>7 DEF n, all

----------------------------------------------------------------------------
(* Every step keeps the intervals of both sides.                           *)

(* Nothing is coded at first.                                              *)
LEMMA RoundTripInit == Init => RoundTripInv
<1> SUFFICES ASSUME Init PROVE RoundTripInv
  OBVIOUS
<1> DEFINE h == [i \in 0 .. 0 |-> Whole]
           g == [i \in 0 .. 0 |-> InitModels]
<1>1. /\ symbols \in Alphabets /\ phase = "encode" /\ enc = EncoderStart /\ encModels = InitModels
      /\ coded = << >> /\ decModels = InitModels /\ got = << >>
  BY DEF Init
<1>2. Len(coded) = 0 /\ coded \in Seq(symbols) /\ Len(got) = 0 /\ got \in Seq(Int)
  BY <1>1
<1>3. Whole \in Intervals /\ Finished(enc) /\ Codes(enc, Whole)
  BY <1>1, StartCodes, CodesInterval
<1>4. /\ h \in [0 .. 0 -> Intervals] /\ h[0] = Whole
      /\ g \in [0 .. 0 -> [DOMAIN Inistate -> Models]] /\ g[0] = InitModels
  BY <1>3, InitModelsOk
<1> HIDE DEF h, g
<1>5. IsHistory(h, g, coded)
  BY <1>2, <1>4 DEF IsHistory
<1>6. Coding(h, g) /\ encModels = g[Len(coded)]
  BY <1>1, <1>2, <1>3, <1>4 DEF Coding
<1>7. \A i \in 1 .. Len(got) : got[i] = coded[i].val
  BY <1>2
<1> QED
  BY <1>1, <1>2, <1>3, <1>5, <1>6, <1>7 DEF RoundTripInv

(* A symbol is coded.                                                      *)
LEMMA RoundTripEncode ==
  ASSUME RoundTripInv, Encode
  PROVE  RoundTripInv'
<1>1. PICK s \in symbols : /\ enc' = Encoded(s)
                           /\ encModels' = Learn(encModels, s.kind, s.arg, s.val)
                           /\ coded' = Append(coded, s)
  BY DEF Encode
<1>2. phase = "encode" /\ UNCHANGED <<symbols, phase, dec, decModels, got>>
  BY DEF Encode
<1>3. symbols \in Alphabets /\ coded \in Seq(symbols) /\ IsSymbol(s)
  BY SymbolsAssumption DEF RoundTripInv
<1>4. PICK h, g : IsHistory(h, g, coded) /\ encModels = g[Len(coded)] /\ Coding(h, g)
  BY <1>2 DEF RoundTripInv
<1>5. Codes(enc, h[Len(coded)]) /\ got = << >> /\ decModels = InitModels
  BY <1>4 DEF Coding
<1>6. Len(coded) \in Nat /\ encModels \in [DOMAIN Inistate -> Models]
  <2>1. Len(coded) \in Nat
    BY <1>3
  <2>2. Len(coded) \in 0 .. Len(coded)
    BY <2>1
  <2> QED
    BY <2>1, <2>2, <1>4 DEF IsHistory
<1>7. Codes(enc', After(h[Len(coded)], encModels, s))
  BY <1>1, <1>3, <1>5, <1>6, EncodedKeeps
<1>8. After(h[Len(coded)], encModels, s) \in Intervals /\ Finished(enc')
  BY <1>7, CodesInterval
<1>9. Learn(encModels, s.kind, s.arg, s.val) \in [DOMAIN Inistate -> Models]
  BY <1>3, <1>6, LearnOk
<1>10. PICK h2, g2 : /\ IsHistory(h2, g2, coded')
                     /\ h2[Len(coded')] = After(h[Len(coded)], encModels, s)
                     /\ g2[Len(coded')] = encModels'
  BY <1>1, <1>3, <1>4, <1>8, <1>9, HistoryNext
<1>11. Coding(h2, g2)'
  BY <1>2, <1>5, <1>7, <1>10 DEF Coding
<1>12. coded' \in Seq(symbols') /\ symbols' \in Alphabets
  BY <1>1, <1>2, <1>3
<1>13. got' \in Seq(Int) /\ Len(got') <= Len(coded') /\ \A i \in 1 .. Len(got') : got'[i] = (coded[i].val)'
  <2>1. Len(got') = 0 /\ Len(coded') \in Nat /\ got' \in Seq(Int)
    BY <1>2, <1>5, <1>12
  <2> QED
    BY <2>1
<1> QED
  BY <1>2, <1>8, <1>10, <1>11, <1>12, <1>13 DEF RoundTripInv

(* The substream ends, and the decoder starts on its bytes.                *)
LEMMA RoundTripClose ==
  ASSUME RoundTripInv, Close
  PROVE  RoundTripInv'
<1>1. /\ phase = "encode" /\ phase' = "decode" /\ enc' = EndOfSlice(enc)
      /\ dec' = Dec!DecoderStart(enc'.bytes) /\ UNCHANGED <<symbols, encModels, coded, decModels, got>>
  BY DEF Close
<1>2. /\ symbols \in Alphabets /\ coded \in Seq(symbols) /\ Len(coded) \in Nat
      /\ \A i \in 1 .. Len(coded) : IsSymbol(coded[i])
  <2>1. symbols \in Alphabets /\ coded \in Seq(symbols)
    BY DEF RoundTripInv
  <2>2. \A i \in 1 .. Len(coded) : coded[i] \in symbols
    BY <2>1
  <2> QED
    BY <2>1, <2>2, SymbolsAssumption
<1>3. PICK h, g : IsHistory(h, g, coded) /\ encModels = g[Len(coded)] /\ Coding(h, g)
  BY <1>1 DEF RoundTripInv
<1>4. Codes(enc, h[Len(coded)]) /\ got = << >> /\ decModels = InitModels
  BY <1>3 DEF Coding
<1> DEFINE data == enc'.bytes
<1>5. Finished(enc') /\ data \in Seq(Bytes) /\ \E v : Numbers(v, data) /\ Ends(v, Len(data), h[Len(coded)])
  BY <1>1, <1>4, EndOfSliceKeeps
<1> HIDE DEF data
<1>6. PICK v : Numbers(v, data) /\ Ends(v, Len(data), h[Len(coded)])
  BY <1>5
<1>7. \A i \in 0 .. Len(coded) : Starts(v, Len(data), h[i])
  BY <1>2, <1>3, <1>5, <1>6, HistoryStarts
<1>8. h[0] = Whole /\ g[0] = InitModels /\ 0 \in 0 .. Len(coded)
  BY <1>2, <1>3 DEF IsHistory
<1>9. Reading(dec', v, h[0]) /\ dec'.data = data
  <2>1. Starts(v, Len(data), Whole)
    BY <1>7, <1>8
  <2> QED
    BY <2>1, <1>1, <1>5, <1>6, <1>8, StartReads DEF data
<1>10. Len(got') = 0 /\ got' \in Seq(Int)
  BY <1>1, <1>4
<1>11. Decoding(h, g)'
  BY <1>1, <1>4, <1>6, <1>7, <1>8, <1>9, <1>10 DEF Decoding
<1>12. Len(got') <= Len(coded') /\ \A i \in 1 .. Len(got') : got'[i] = (coded[i].val)'
  BY <1>1, <1>2, <1>10
<1> QED
  BY <1>1, <1>2, <1>3, <1>5, <1>10, <1>11, <1>12 DEF RoundTripInv

(* A symbol is decoded.                                                    *)
LEMMA RoundTripDecode ==
  ASSUME RoundTripInv, Decode
  PROVE  RoundTripInv'
<1> DEFINE n == Len(coded)
           k == Len(got)
           s == coded[k + 1]
<1>1. /\ phase = "decode" /\ k < n /\ dec' = Decoded(s.kind, s.arg)
      /\ decModels' = Learn(decModels, s.kind, s.arg, dec'.result)
      /\ got' = Append(got, dec'.result) /\ UNCHANGED <<symbols, phase, enc, encModels, coded>>
  BY DEF Decode
<1>2. /\ symbols \in Alphabets /\ coded \in Seq(symbols) /\ got \in Seq(Int) /\ Finished(enc)
      /\ \A i \in 1 .. k : got[i] = coded[i].val
  BY DEF RoundTripInv
<1>3. n \in Nat /\ k \in Nat /\ k + 1 \in 1 .. n /\ k \in 0 .. n /\ k + 1 \in 0 .. n /\ (k + 1) - 1 = k
  <2>1. n \in Nat /\ k \in Nat /\ k < n
    BY <1>1, <1>2
  <2> HIDE DEF n, k
  <2> QED
    BY <2>1
<1>4. IsSymbol(s) /\ s.val \in Int
  <2>1. s \in symbols
    BY <1>2, <1>3
  <2>2. IsSymbol(s)
    BY <2>1, <1>2, SymbolsAssumption
  <2> HIDE DEF s
  <2> QED
    BY <2>2, SymbolKinds DEF Bit
<1>5. PICK h, g : IsHistory(h, g, coded) /\ encModels = g[n] /\ Decoding(h, g)
  BY <1>1 DEF RoundTripInv
<1>6. PICK v : /\ Numbers(v, dec.data) /\ Ends(v, Len(dec.data), h[n])
               /\ \A i \in 0 .. n : Starts(v, Len(dec.data), h[i])
               /\ Reading(dec, v, h[k])
  BY <1>5 DEF Decoding
<1>7. decModels = g[k]
  BY <1>5 DEF Decoding
<1>8. /\ decModels \in [DOMAIN Inistate -> Models]
      /\ h[k + 1] = After(h[k], decModels, s) /\ g[k + 1] = Learn(decModels, s.kind, s.arg, s.val)
  <2>1. /\ g \in [0 .. n -> [DOMAIN Inistate -> Models]]
        /\ \A i \in 1 .. n : /\ h[i] = After(h[i - 1], g[i - 1], coded[i])
                             /\ g[i] = Learn(g[i - 1], coded[i].kind, coded[i].arg, coded[i].val)
    BY <1>5 DEF IsHistory
  <2> HIDE DEF n, k
  <2> QED
    BY <2>1, <1>3, <1>7
<1> HIDE DEF s
<1>9. Reads(dec', dec, v, h[k + 1], s.val)
  <2>1. Starts(v, Len(dec.data), After(h[k], decModels, s))
    BY <1>3, <1>6, <1>8
  <2> QED
    BY <2>1, <1>1, <1>4, <1>6, <1>8, DecodedReads
<1>10. Reading(dec', v, h[k + 1]) /\ dec'.result = s.val /\ dec'.data = dec.data
  BY <1>9 DEF Reads
<1>11. /\ got' \in Seq(Int) /\ Len(got') = k + 1 /\ got'[k + 1] = s.val
       /\ \A i \in 1 .. k : got'[i] = got[i]
  BY <1>1, <1>2, <1>4, <1>10
<1>12. \A i \in 1 .. Len(got') : got'[i] = (coded[i].val)'
  <2>1. ASSUME NEW i \in 1 .. k + 1
        PROVE  got'[i] = coded[i].val
    <3>1. CASE i = k + 1
      BY <3>1, <1>11 DEF s
    <3>2. CASE i # k + 1
      <4>1. i \in 1 .. k
        BY <3>2, <1>3
      <4> QED
        BY <4>1, <1>2, <1>11
    <3> QED
      BY <3>1, <3>2
  <2> QED
    BY <2>1, <1>1, <1>11
<1>13. Decoding(h, g)'
  BY <1>1, <1>6, <1>8, <1>10, <1>11 DEF Decoding
<1>14. Len(got') <= Len(coded')
  BY <1>1, <1>3, <1>11
<1> QED
  BY <1>1, <1>2, <1>5, <1>11, <1>12, <1>13, <1>14 DEF RoundTripInv

(* The terminating bin is read.                                            *)
LEMMA RoundTripTerminate ==
  ASSUME RoundTripInv, Terminate
  PROVE  RoundTripInv'
<1>1. /\ phase = "decode" /\ Len(got) = Len(coded) /\ phase' = "done" /\ dec' = Dec!DecodeBinTrm(dec)
      /\ UNCHANGED <<symbols, enc, encModels, coded, decModels, got>>
  BY DEF Terminate
<1>2. PICK h, g : IsHistory(h, g, coded) /\ encModels = g[Len(coded)] /\ Decoding(h, g)
  BY <1>1 DEF RoundTripInv
<1>3. PICK v : Ends(v, Len(dec.data), h[Len(coded)]) /\ Reading(dec, v, h[Len(coded)])
  BY <1>1, <1>2 DEF Decoding
<1>4. /\ dec'.result = 1 /\ Dec!StopPattern(dec') /\ dec'.pos = Len(dec'.data) /\ ~dec'.exceeded
  BY <1>1, <1>3, TerminateReads
<1>5. decModels' = encModels'
  BY <1>1, <1>2 DEF Decoding
<1>6. Dec!StopPattern(dec)'
  BY <1>4 DEF Dec!StopPattern
<1> QED
  BY <1>1, <1>2, <1>4, <1>5, <1>6 DEF RoundTripInv

(* So does every step.                                                     *)
LEMMA RoundTripStep ==
  ASSUME RoundTripInv, [Next]_vars
  PROVE  RoundTripInv'
<1>1. CASE UNCHANGED vars
  <2>1. UNCHANGED <<symbols, phase, enc, encModels, coded, dec, decModels, got>>
    BY <1>1 DEF vars
  <2> QED
    BY <2>1 DEF RoundTripInv, Coding, Decoding, Dec!StopPattern
<1> QED
  BY <1>1, RoundTripEncode, RoundTripClose, RoundTripDecode, RoundTripTerminate DEF Next

(* Contexts have estimates that fit.                                       *)
LEMMA ModelsFit ==
  ASSUME NEW m \in [DOMAIN Inistate -> Models]
  PROVE  EstimatesFit(m)
<1>1. ASSUME NEW c \in DOMAIN Inistate
      PROVE  m[c].s0 \in Estimates /\ m[c].s1 \in Estimates
  BY DEF Models
<1> QED
  BY <1>1 DEF EstimatesFit, Estimates

(* From the intervals to the registers.                                    *)
LEMMA RoundTripImplies == RoundTripInv => TypeOK /\ DecodedAsCoded /\ EndsExactly
<1> SUFFICES ASSUME RoundTripInv PROVE TypeOK /\ DecodedAsCoded /\ EndsExactly
  OBVIOUS
<1>1. /\ coded \in Seq(symbols) /\ phase \in {"encode", "decode", "done"} /\ Finished(enc)
      /\ got \in Seq(Int) /\ Len(got) <= Len(coded) /\ \A i \in 1 .. Len(got) : got[i] = coded[i].val
  BY DEF RoundTripInv
<1>2. DecodedAsCoded
  <2>1. DOMAIN got = 1 .. Len(got)
    BY <1>1
  <2> QED
    BY <2>1, <1>1 DEF DecodedAsCoded
<1>3. ASSUME phase = "decode"
      PROVE  /\ dec.range \in 256 .. 510 /\ dec.bitsNeeded \in -8 .. -1
             /\ dec.value \in 0 .. dec.range * 128 - 1 /\ ~dec.exceeded
  <2>1. PICK h, g : Decoding(h, g)
    BY <1>3 DEF RoundTripInv
  <2>2. PICK v : Reading(dec, v, h[Len(got)]) /\ \A i \in 0 .. Len(coded) : Starts(v, Len(dec.data), h[i])
    BY <2>1 DEF Decoding
  <2> DEFINE iv == h[Len(got)]
  <2>3. Starts(v, Len(dec.data), iv) /\ Reading(dec, v, iv)
    <3>1. Len(got) \in 0 .. Len(coded)
      BY <1>1
    <3> QED
      BY <2>2, <3>1
  <2> HIDE DEF iv
  <2>4. /\ At(dec, v, iv) /\ iv \in Spans /\ iv.range = dec.range /\ dec.range \in Nat
        /\ 256 <= dec.range /\ dec.range <= 510 /\ dec.value \in Int /\ ~dec.exceeded
    BY <2>3 DEF Reading, At, Ranges, Decoders
  <2>5. Part(iv, 0, 0, iv.range) = iv
    <3>1. Part(iv, 0, 0, iv.range) = [low |-> iv.low + 0, range |-> iv.range, bits |-> iv.bits]
      BY <2>4, SamePart
    <3> QED
      BY <3>1, <2>4 DEF Spans
  <2>6. 128 * 0 <= dec.value /\ dec.value < 128 * (0 + dec.range)
    <3>1. Starts(v, Len(dec.data), Part(iv, 0, 0, dec.range)) /\ 0 \in Nat
      BY <2>3, <2>4, <2>5
    <3> QED
      BY <3>1, <2>4, Within
  <2>7. dec.bitsNeeded = -1 - Ahead(iv.bits) /\ Ahead(iv.bits) \in 0 .. 7
    <3>1. Ahead(iv.bits) \in 0 .. 7
      BY <2>4, AtNumbers
    <3> QED
      BY <3>1, <2>4 DEF At
  <2>8. dec.bitsNeeded \in -8 .. -1
    BY <2>7
  <2>9. dec.value \in 0 .. dec.range * 128 - 1
    <3> DEFINE x == dec.value
               r == dec.range
    <3>1. x \in Int /\ r \in Nat /\ 128 * 0 <= x /\ x < 128 * (0 + r)
      BY <2>4, <2>6
    <3> HIDE DEF x, r
    <3>2. x \in 0 .. r * 128 - 1
      BY <3>1
    <3> QED
      BY <3>2 DEF x, r
  <2>10. dec.range \in 256 .. 510
    BY <2>4
  <2> QED
    BY <2>4, <2>8, <2>9, <2>10
<1>4. /\ enc.range \in 256 .. 510 /\ enc.bitsLeft \in 12 .. 23 /\ enc.low \in Nat
      /\ enc.bufferedByte \in 0 .. 255 /\ enc.numBufferedBytes \in Nat
  <2>1. enc.range \in Ranges /\ enc.bufferedByte \in Bytes /\ enc.low \in Nat /\ enc.numBufferedBytes \in Nat
        /\ enc.bitsLeft \in 12 .. 23
    BY <1>1 DEF Finished, Encoders
  <2> QED
    BY <2>1 DEF Ranges, Bytes
<1>5. EstimatesFit(encModels) /\ EstimatesFit(decModels)
  <2>1. PICK h, g : /\ IsHistory(h, g, coded) /\ encModels = g[Len(coded)]
                    /\ phase = "encode" => Coding(h, g)
                    /\ phase = "decode" => Decoding(h, g)
    BY DEF RoundTripInv
  <2>2. \A i \in 0 .. Len(coded) : g[i] \in [DOMAIN Inistate -> Models]
    BY <2>1 DEF IsHistory
  <2>3. Len(coded) \in Nat /\ Len(got) \in Nat
    BY <1>1
  <2>4. encModels \in [DOMAIN Inistate -> Models]
    BY <2>1, <2>2, <2>3
  <2>5. decModels \in [DOMAIN Inistate -> Models]
    <3>1. CASE phase = "encode"
      BY <2>1, <3>1, InitModelsOk DEF Coding
    <3>2. CASE phase = "decode"
      <4>1. decModels = g[Len(got)] /\ Len(got) \in 0 .. Len(coded)
        BY <1>1, <2>1, <2>3, <3>2 DEF Decoding
      <4> QED
        BY <2>2, <4>1
    <3>3. CASE phase = "done"
      <4>1. phase = "done" => decModels = encModels
        BY DEF RoundTripInv
      <4> QED
        BY <2>4, <3>3, <4>1
    <3> QED
      BY <1>1, <3>1, <3>2, <3>3
  <2> QED
    BY <2>4, <2>5, ModelsFit
<1>6. TypeOK
  BY <1>1, <1>3, <1>4, <1>5 DEF TypeOK
<1>7. EndsExactly
  BY <1>1, <1>3 DEF RoundTripInv, EndsExactly
<1> QED
  BY <1>2, <1>6, <1>7

(* The registers of both sides and the estimates of all their contexts     *)
(* stay in their bounds, between all calls.                                *)
THEOREM TypeOKAlways == Spec => []TypeOK
<1>1. Spec => []RoundTripInv
  BY RoundTripInit, RoundTripStep, PTL DEF Spec
<1> QED
  BY <1>1, RoundTripImplies, PTL

(* What is decoded is what was coded, for any contexts, any calls and any  *)
(* values of them.                                                         *)
THEOREM DecodedAsCodedAlways == Spec => []DecodedAsCoded
<1>1. Spec => []RoundTripInv
  BY RoundTripInit, RoundTripStep, PTL DEF Spec
<1> QED
  BY <1>1, RoundTripImplies, PTL

(* The decoder ends where the encoder ended: at the stop bit of the last   *)
(* byte, with the encoder's contexts, and without reading beyond.          *)
THEOREM EndsExactlyAlways == Spec => []EndsExactly
<1>1. Spec => []RoundTripInv
  BY RoundTripInit, RoundTripStep, PTL DEF Spec
<1> QED
  BY <1>1, RoundTripImplies, PTL
=============================================================================
