--------------------------- MODULE GopStructure ---------------------------
(***************************************************************************)
(* The GOP structure of the encoder's configuration, as EncAppCfg checks   *)
(* it and completes it.  A structure is the sequence of its entries in     *)
(* coding order, [poc, tid, rpl]; rpl is the two reference picture lists,  *)
(* each [delta, active]: the POC distances back to the references and how  *)
(* many of them are active.                                                *)
(*                                                                         *)
(* The lists of an entry may reach back before the first picture.          *)
(* xCheckParameter therefore walks over the pictures in coding order,      *)
(* keeps the list of those that are still available and adds to the lists  *)
(* of the sequence a repaired entry for every picture whose own lists      *)
(* reach too far.                                                          *)
(***************************************************************************)
EXTENDS Integers, FiniteSetsExt, SequencesExt

MAX_NUM_REF_PICS == 29
MAX_TLAYER == 7

\* the n-th picture coded after the first one
EntryOf(gop, n) == gop[((n - 1) % Len(gop)) + 1]
PocOf(gop, n) == ((n - 1) \div Len(gop)) * Len(gop) + EntryOf(gop, n).poc

FromThePast(rpl, poc) == SelectSeq(rpl.delta, LAMBDA d : poc - d >= 0)

\* Going back in coding order, pictures of the layers the entry may use that
\* were in the list of available pictures join the list, until it has its
\* active references.  others is the length the other list has by now: as many
\* places of refList are searched as both lists have entries together, refList
\* holding what earlier pictures left behind its end.
\* One picture further back: the m-th, d before the n-th.
SteppedBack(acc, gop, n, m, d, others, refList) ==
  LET isNew == /\ EntryOf(gop, m).tid <= EntryOf(gop, n).tid
               /\ \E i \in 0 .. Len(acc.delta) + others - 1 : refList[i] = PocOf(gop, m)
               /\ ~Contains(acc.delta, d)
      after == {j \in DOMAIN acc.delta : acc.delta[j] > d /\ d > 0}
      at    == Min(after \cup {Len(acc.delta) + 1})
  IN IF isNew THEN InsertAt(acc.delta, at, d) ELSE acc.delta

Filled(gop, n, kept, active, others, refList) ==
  LET back(acc, m) ==
        IF acc.full THEN acc
        ELSE LET delta == SteppedBack(acc, gop, n, m, PocOf(gop, n) - PocOf(gop, m), others, refList)
             IN [delta |-> delta, full |-> Len(delta) >= active]
  IN FoldLeft(back, [delta |-> kept, full |-> FALSE], [k \in 1 .. n - 1 |-> n - k]).delta

\* m_RPLList0/1[m_iGOPSize + extraRPLs] for the n-th picture; it keeps the POC
\* of the GOP entry it replaces
WithLists(e, l0, l1) ==
  LET list(l, x) == [delta |-> l, active |-> Min({Len(l), e.rpl[x].active})]
  IN [e EXCEPT !.rpl = <<list(l0, 1), list(l1, 2)>>]

\* list 1 is filled with list 0 known
WithList0(gop, n, refList, e, kept1, l0) ==
  WithLists(e, l0, Filled(gop, n, kept1, e.rpl[2].active, Len(l0), refList))

ExtraEntry(gop, n, refList, e, kept0, kept1) ==
  WithList0(gop, n, refList, e, kept1,
            Filled(gop, n, kept0, e.rpl[1].active, Len(kept1), refList))

\* The pictures an entry keeps, each once, and the picture itself
Available(rpl, poc) ==
  LET pocs(x) == LET l == FromThePast(rpl[x], poc) IN [i \in DOMAIN l |-> poc - l[i]]
  IN FoldLeft(LAMBDA acc, p : IF Contains(acc, p) THEN acc ELSE Append(acc, p),
              pocs(1), pocs(2)) \o <<poc>>

\* One round of the loop: only list 0 is tested against the available pictures
Checked(gop, s, n, e, poc, extra) ==
  LET refs    == {poc - d : d \in Range(e.rpl[1].delta)}
      found(p) == \E i \in 0 .. s.numRefs - 1 : s.refList[i] = p
      beforeI == \E p \in refs : p < 0
      known   == Available(IF beforeI THEN extra.rpl ELSE e.rpl, poc)
  IN [s EXCEPT !.error   = \E p \in refs : p >= 0 /\ ~found(p),
               !.ok      = IF beforeI THEN @ ELSE @ \cup {((n - 1) % Len(gop)) + 1},
               !.extra   = IF beforeI THEN Append(@, extra) ELSE @,
               !.numRefs = Len(known),
               !.refList = [i \in DOMAIN @ |-> IF i < Len(known) THEN known[i + 1] ELSE @[i]]]

CheckPicture(gop, s, n) ==
  LET e   == EntryOf(gop, n)
      poc == PocOf(gop, n)
  IN IF s.error \/ s.ok = DOMAIN gop THEN s
     ELSE Checked(gop, s, n, e, poc,
                  ExtraEntry(gop, n, s.refList, e,
                             FromThePast(e.rpl[1], poc), FromThePast(e.rpl[2], poc)))

\* An entry is checked for good in the first GOP in which all references of its
\* list 0 lie behind the first picture
MaxChecks(gop) ==
  LET waits(i) == {(d - gop[i].poc + Len(gop) - 1) \div Len(gop) : d \in Range(gop[i].rpl[1].delta)}
  IN Len(gop) * (1 + Max({0} \cup UNION {waits(i) : i \in DOMAIN gop}))

VerifyGop(gop) ==
  FoldLeft(LAMBDA s, n : CheckPicture(gop, s, n),
           [error |-> FALSE, ok |-> {}, extra |-> <<>>, numRefs |-> 1,
            refList |-> [i \in 0 .. MAX_NUM_REF_PICS |-> 0]],
           [n \in 1 .. MaxChecks(gop) |-> n])

\* The GOP structures xCheckParameter lets pass
AcceptedGop(gop) ==
  /\ \A i \in DOMAIN gop : gop[i].poc = Len(gop) => gop[i].tid = 0
  /\ ~VerifyGop(gop).error

\* The lists the SPS carries: those of the entries, then the repaired ones
SpsLists(gop) == gop \o VerifyGop(gop).extra

MaxTempLayer(gop) == Max({1} \cup {gop[i].tid + 1 : i \in DOMAIN gop})

(***************************************************************************)
(* The picture buffer and the reordering each temporal layer needs, as     *)
(* counted from the entries of the GOP.                                    *)
(***************************************************************************)
\* mutant: the references of list 0 only
NumRefPicsList0(e) == Len(e.rpl[1].delta)

NumRefPics(e) ==
  Len(e.rpl[1].delta) + Len(SelectSeq(e.rpl[2].delta, LAMBDA d : ~Contains(e.rpl[1].delta, d)))

NumReorder(gop, i) ==
  LET highest == Max({j \in DOMAIN gop : gop[j].poc <= gop[i].poc})
  IN Cardinality({j \in 1 .. highest - 1 : gop[j].tid <= gop[i].tid /\ gop[j].poc > gop[i].poc})

OfLayer(gop, t) == {i \in DOMAIN gop : gop[i].tid = t}

\* m_numReorderPics and m_maxDecPicBuffering, raised so that a higher layer has
\* no less than a lower one
BufferSizes(gop) ==
  LET layers == 0 .. MAX_TLAYER - 1
      s0 == [reorder |-> [t \in layers |-> Max({0} \cup {NumReorder(gop, i) : i \in OfLayer(gop, t)})],
             dec     |-> [t \in layers |-> Max({1} \cup {NumRefPics(gop[i]) + 1 : i \in OfLayer(gop, t)})]]
      raise(s, t) ==
        LET dec == Max({s.dec[t], s.reorder[t] + 1})
        IN [reorder |-> [s.reorder EXCEPT ![t + 1] = Max({@, s.reorder[t]})],
            dec     |-> [s.dec EXCEPT ![t] = dec, ![t + 1] = Max({@, dec})]]
      s == FoldLeft(raise, s0, [t \in 1 .. MAX_TLAYER - 1 |-> t - 1])
      top == MAX_TLAYER - 1
  IN [s EXCEPT !.dec[top] = Max({@, s.reorder[top] + 1})]

(***************************************************************************)
(* xInitRPL: do all active entries of a list go the same way?  The first   *)
(* entry of every list 0 but the very first is compared with the word      *)
(* before the array of its identifiers, which is 0 (m_isLongtermRefPic).   *)
(***************************************************************************)
Rises(rpl, j) == rpl.delta[j] <= (IF j = 1 THEN 0 ELSE rpl.delta[j - 1])
Signs(rpl) == {Rises(rpl, j) : j \in 1 .. rpl.active}

AllActiveRplEntriesHasSameSign(lists) ==
  /\ Cardinality(UNION {Signs(lists[i].rpl[1]) : i \in DOMAIN lists}) <= 1
  /\ \/ \A i \in DOMAIN lists : lists[i].rpl[1].delta = lists[i].rpl[2].delta
     \/ \A i \in DOMAIN lists : Cardinality(Signs(lists[i].rpl[2])) <= 1

(***************************************************************************)
(* selectReferencePictureList: a repaired entry takes the place of the GOP *)
(* entry at the POC it was made for, in every intra period.  After a hit   *)
(* the loop steps on twice.                                                *)
(***************************************************************************)
SelectedList(lists, gopSize, poc, gopId, period) ==
  LET index == IF poc % period = 0 THEN period ELSE poc % period
      look(acc, k) ==
        IF acc.skip THEN [acc EXCEPT !.skip = FALSE]
        ELSE IF lists[k].poc = index THEN [id |-> k, skip |-> TRUE] ELSE acc
  IN lists[FoldLeft(look, [id |-> gopId, skip |-> FALSE],
                    [k \in 1 .. Len(lists) - gopSize |-> gopSize + k]).id]
=============================================================================
