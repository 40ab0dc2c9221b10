------------------------------ MODULE MCCodec ------------------------------
(***************************************************************************)
(* Instances of the codec: all small GOP structures EncAppCfg accepts out  *)
(* of a family of reference lists, and the structures of the repository's  *)
(* own configuration files.                                                *)
(***************************************************************************)
EXTENDS Codec

E(poc, tid, active0, l0, active1, l1) ==
  [poc |-> poc, tid |-> tid,
   rpl |-> <<[delta |-> l0, active |-> active0], [delta |-> l1, active |-> active1]>>]

\* encoder_randomaccess_vtm.cfg
Gop16 == <<
  E(16, 0, 2, <<16, 32, 24>>, 2, <<16, 32>>), E(8, 1, 2, <<8, 16>>, 2, <<-8, 8>>),
  E(4, 2, 2, <<4, 12>>, 2, <<-4, -12>>), E(2, 3, 2, <<2, 10>>, 2, <<-2, -6, -14>>),
  E(1, 4, 2, <<1, -1>>, 2, <<-1, -3, -7, -15>>), E(3, 4, 2, <<1, 3>>, 2, <<-1, -5, -13>>),
  E(6, 3, 2, <<2, 6>>, 2, <<-2, -10>>), E(5, 4, 2, <<1, 5>>, 2, <<-1, -3, -11>>),
  E(7, 4, 2, <<1, 3, 7>>, 2, <<-1, -9>>), E(12, 2, 2, <<4, 12>>, 2, <<-4, 4>>),
  E(10, 3, 2, <<2, 10>>, 2, <<-2, -6>>), E(9, 4, 2, <<1, 9>>, 2, <<-1, -3, -7>>),
  E(11, 4, 2, <<1, 3, 11>>, 2, <<-1, -5>>), E(14, 3, 2, <<2, 6, 14>>, 2, <<-2, 2>>),
  E(13, 4, 2, <<1, 5, 13>>, 2, <<-1, -3>>), E(15, 4, 2, <<1, 3, 7, 15>>, 2, <<-1, 1>>) >>

\* encoder_randomaccess_vtm_gop32.cfg, the one the batches use
Gop32 == <<
  E(32, 0, 2, <<32, 48, 64>>, 2, <<32, 48>>), E(16, 1, 2, <<16, 32>>, 2, <<-16, 16>>),
  E(8, 2, 2, <<8, 24>>, 2, <<-8, -24>>), E(4, 3, 2, <<4, 20>>, 2, <<-4, -12, -28>>),
  E(2, 4, 2, <<2, 18>>, 2, <<-2, -6, -14, -30>>), E(1, 5, 2, <<1, -1>>, 2, <<-1, -3, -7, -15, -31>>),
  E(3, 5, 2, <<1, 3>>, 2, <<-1, -5, -13, -29>>), E(6, 4, 2, <<2, 6>>, 2, <<-2, -10, -26>>),
  E(5, 5, 2, <<1, 5>>, 2, <<-1, -3, -11, -27>>), E(7, 5, 2, <<1, 3, 7>>, 2, <<-1, -9, -25>>),
  E(12, 3, 2, <<4, 12>>, 2, <<-4, -20>>), E(10, 4, 2, <<2, 10>>, 2, <<-2, -6, -22>>),
  E(9, 5, 2, <<1, 9>>, 2, <<-1, -3, -7, -23>>), E(11, 5, 2, <<1, 3, 11>>, 2, <<-1, -5, -21>>),
  E(14, 4, 2, <<2, 6, 14>>, 2, <<-2, -18>>), E(13, 5, 2, <<1, 5, 13>>, 2, <<-1, -3, -19>>),
  E(15, 5, 2, <<1, 3, 7, 15>>, 2, <<-1, -17>>), E(24, 2, 2, <<8, 24>>, 2, <<-8, 8>>),
  E(20, 3, 2, <<4, 20>>, 2, <<-4, -12>>), E(18, 4, 2, <<2, 18>>, 2, <<-2, -6, -14>>),
  E(17, 5, 2, <<1, 17>>, 2, <<-1, -3, -7, -15>>), E(19, 5, 2, <<1, 3, 19>>, 2, <<-1, -5, -13>>),
  E(22, 4, 2, <<2, 6, 22>>, 2, <<-2, -10>>), E(21, 5, 2, <<1, 5, 21>>, 2, <<-1, -3, -11>>),
  E(23, 5, 2, <<1, 3, 7, 23>>, 2, <<-1, -9>>), E(28, 3, 2, <<4, 12, 28>>, 2, <<-4, 4>>),
  E(26, 4, 2, <<2, 10, 26>>, 2, <<-2, -6>>), E(25, 5, 2, <<1, 9, 25>>, 2, <<-1, -3, -7>>),
  E(27, 5, 2, <<1, 3, 11, 27>>, 2, <<-1, -5>>), E(30, 4, 2, <<2, 14, 30>>, 2, <<-2, 2>>),
  E(29, 5, 2, <<1, 13, 29>>, 2, <<-1, -3>>), E(31, 5, 2, <<1, 3, 15, 31>>, 2, <<-1, 1>>) >>

\* encoder_lowdelay_vtm.cfg
GopLowDelay == <<
  E(1, 0, 4, <<1, 9, 17, 25>>, 4, <<1, 9, 17, 25>>), E(2, 0, 4, <<1, 2, 10, 18>>, 4, <<1, 2, 10, 18>>),
  E(3, 0, 4, <<1, 3, 11, 19>>, 4, <<1, 3, 11, 19>>), E(4, 0, 4, <<1, 4, 12, 20>>, 4, <<1, 4, 12, 20>>),
  E(5, 0, 4, <<1, 5, 13, 21>>, 4, <<1, 5, 13, 21>>), E(6, 0, 4, <<1, 6, 14, 22>>, 4, <<1, 6, 14, 22>>),
  E(7, 0, 4, <<1, 7, 15, 23>>, 4, <<1, 7, 15, 23>>), E(8, 0, 4, <<1, 8, 16, 24>>, 4, <<1, 8, 16, 24>>) >>

\* Pairs: the later picture first or second, the other between its references.
\* With <<2, 3>> as list 1 a picture behind an IDR asks for a picture that leads
\* it: VerifyGop repairs such entries of list 0 only.
Pairs ==
  {<<E(2, 0, a, l0, 1, l1), E(1, t, 1, m0, 1, m1)>> :
     a \in 1 .. 2, l0 \in {<<2>>, <<2, 4>>, <<2, 3>>}, l1 \in {<<2>>, <<2, 4>>, <<2, 3>>}, t \in 0 .. 1,
     m0 \in {<<1>>, <<1, 3>>, <<-1>>}, m1 \in {<<-1>>, <<-1, 1>>, <<1>>, <<-1, 3>>}}
  \cup
  {<<E(1, 0, 1, m0, 1, <<1>>), E(2, 0, 1, l0, 1, <<2>>)>> :
     m0 \in {<<1>>, <<1, 2>>, <<1, 3>>}, l0 \in {<<2>>, <<2, 4>>, <<1, 2>>}}

\* A dyadic hierarchy of four, with more or fewer references kept
Fours ==
  {<<E(4, 0, 1, l0, 1, <<4>>), E(2, 1, 1, m0, 1, m1),
     E(1, 2, 1, <<1>>, 1, n1), E(3, t, 1, <<1>>, 1, p1)>> :
     l0 \in {<<4>>, <<4, 8>>, <<4, 6>>}, m0 \in {<<2>>, <<2, 6>>}, m1 \in {<<-2>>, <<-2, 2>>},
     n1 \in {<<-1, -3>>, <<-1>>}, p1 \in {<<-1>>, <<-1, 3>>}, t \in 1 .. 2}

HighestLayer(gop) == Max({gop[i].tid : i \in DOMAIN gop})

\* no picture refers to one of a higher layer
LayersKept(gop) ==
  \A n \in DOMAIN gop : \A x \in 1 .. 2 : \A d \in Range(gop[n].rpl[x].delta) :
    LET r == (gop[n].poc - d) % Len(gop)
    IN r # 0 => \E m \in DOMAIN gop : gop[m].poc = r /\ gop[m].tid <= gop[n].tid

\* an entry's lists keep every picture of the GOP that waits for it
KeepsWaiting(gop) ==
  \A n \in DOMAIN gop : \A m \in 1 .. n - 1 :
    gop[m].poc > gop[n].poc =>
      \E x \in 1 .. 2 : gop[n].poc - gop[m].poc \in Range(gop[n].rpl[x].delta)

\* and each of them keeps a reference no older than the picture before the GOP,
\* so that no slice is left without a reference behind a random access point
KeepsRecent(gop) ==
  \A n \in DOMAIN gop : \E x \in 1 .. 2 : \E d \in Range(gop[n].rpl[x].delta) :
    d > 0 /\ d <= gop[n].poc

ActiveInList(gop) == \A n \in DOMAIN gop : gop[n].rpl[1].active <= Len(gop[n].rpl[1].delta)

Usable(gops) ==
  {g \in gops : ActiveInList(g) /\ KeepsWaiting(g) /\ KeepsRecent(g) /\ AcceptedGop(g) /\ LayersKept(g)}

\* The GOPs coded, and how many pictures the decoder's option -s skips where it
\* works, which is access at an IDR picture
GopsCoded(gop) == IF Len(gop) = 2 THEN 4 ELSE 3
Skips(gop) == IF Len(gop) = 2 THEN {1, 3} ELSE {2}

\* every refresh type and period EncAppCfg allows up to two GOPs, videos that
\* end within a GOP, and every highest layer
Streams(c) ==
  LET size == Len(c.gop)
  IN {[c EXCEPT !.period = p * size, !.refresh = r, !.frames = f, !.skip = k, !.maxTid = t] :
        <<p, r, f, k, t>> \in
          {x \in (1 .. 2) \X (1 .. 2)
                 \X (size * (GopsCoded(c.gop) - 1) + 1 .. size * GopsCoded(c.gop) + 1)
                 \X ({0} \cup Skips(c.gop)) \X (-1 .. HighestLayer(c.gop)) :
             /\ x[2] = 2 => x[1] > 1
             /\ x[4] > 0 => x[2] = 2 /\ x[5] = -1}}

Small == UNION {Streams(Configured(g, Len(g), 1, 1, 0, -1)) : g \in Usable(Pairs \cup Fours)}
Shipped ==
  {Configured(x[1], 32, x[2], x[3], 0, x[4]) :
     x \in {Gop16} \X (1 .. 2) \X {17, 40, 65} \X {-1, 2} \cup {Gop32} \X {1} \X {64, 65} \X {-1}}
ConfigurationsVal == Small \cup Shipped

\* access at a CRA picture
RandomAccessVal ==
  {Configured(g, 4, 1, 13, k, -1) : g \in {h \in Usable(Fours) : h[4].tid = 2}, k \in {1, 5}}
=============================================================================
