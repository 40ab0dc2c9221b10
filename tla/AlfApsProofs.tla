---------------------------- MODULE AlfApsProofs ----------------------------
(* For every number of identifiers, layers and components: the sets are       *)
(* written as the encoder's checks ask, and the decoder finds every filter    *)
(* that a slice it decodes names.                                             *)
(*                                                                            *)
(* The invariant: except right after it started at a CRA, the decoder has      *)
(* every set of its layers that the encoder has not just changed (Synced);    *)
(* what a picture names holds the filter and, where earlier sets are out of   *)
(* bounds, is new (Chosen); and a decoder that just started decodes only      *)
(* pictures for which they are (Started).                                     *)
EXTENDS AlfAps, FiniteSetTheorems, TLAPS

Names(i, part) == /\ part \in enc[i].has /\ enc[i].tid <= slice.tid
                  /\ slice.restricted => i \in changed

NoneNamed == /\ slice.chroma = -1
             /\ slice.cc = [c \in CcComps |-> -1]

Phased ==
  /\ phase \in {"idle", "luma", "decoded"} => changed = {}
  /\ phase = "luma" => NoneNamed /\ slice.luma = {} /\ ~slice.on /\ ~slice.newLuma
  /\ phase = "chroma" =>
       /\ NoneNamed /\ slice.on
       /\ IF slice.newLuma THEN slice.ccId \in slice.luma /\ changed = {slice.ccId}
                           ELSE slice.luma # Ids /\ changed = {}
  /\ phase = "cc" => /\ slice.on /\ slice.cc = [c \in CcComps |-> -1]
                     /\ changed \subseteq slice.luma \cup {slice.chroma}
  /\ phase = "write" /\ ~slice.on => changed = {}

Chosen ==
  phase \in {"chroma", "cc", "write"} =>
    /\ \A i \in slice.luma : Names(i, "luma")
    /\ slice.chroma >= 0 => Names(slice.chroma, "chroma")
    /\ \A c \in CcComps : slice.cc[c] >= 0 => Names(slice.cc[c], c)
    /\ \A i \in changed : enc[i].tid = slice.tid /\ i \in Named

Synced ==
  ~joining => \A i \in Ids \ changed :
                enc[i].has # {} /\ enc[i].tid <= target => i \in held

Started ==
  joining => /\ awaiting
             /\ phase \in {"luma", "chroma", "cc", "write"} /\ ~slice.leading
                  => slice.restricted

IInv == TypeOK /\ Phased /\ Chosen /\ Synced /\ Started /\ NamedFiltersArrive

USE NumberAssumption, LayerAssumption, CcAssumption

-----------------------------------------------------------------------------
LEMMA CardIds == IsFiniteSet(Ids) /\ Cardinality(Ids) = N
BY FS_Interval DEF Ids

LEMMA EmptyTyped == EmptyMap \in [Ids -> APS]
BY DEF EmptyMap, NoAPS, APS, Tids

LEMMA IdleTyped == IdleSlice \in Slice
<1>1. [c \in CcComps |-> -1] \in [CcComps -> -1 .. N - 1]
  OBVIOUS
<1> QED BY <1>1 DEF IdleSlice, Slice, Ids, Tids

LEMMA InitIInv == Init => IInv
<1> SUFFICES ASSUME Init PROVE IInv
  OBVIOUS
<1>1. TypeOK
  <2>1. N \in 0 .. N
    OBVIOUS
  <2> QED BY EmptyTyped, IdleTyped, <2>1 DEF Init, TypeOK
<1>2. Phased /\ Chosen /\ Started /\ NamedFiltersArrive
  BY DEF Init, Phased, Chosen, Started, NamedFiltersArrive, IsDecoded
<1>3. Synced
  BY DEF Init, Synced, EmptyMap, NoAPS
<1> QED BY <1>1, <1>2, <1>3 DEF IInv

LEMMA NewPictureKeeps ==
  ASSUME IInv, NEW k \in Kinds, NEW intra \in BOOLEAN, NEW t \in Tids,
         NEW join \in BOOLEAN, NewPicture(k, intra, t, join)
  PROVE  IInv'
<1> USE DEF IInv, NewPicture
<1>1. TypeOK'
  <2>1. slice' \in Slice
    <3>1. \A b, q \in BOOLEAN :
            [IdleSlice EXCEPT !.leading = b, !.tid = t, !.restricted = q] \in Slice
      BY IdleTyped DEF Slice
    <3> QED BY <3>1
  <2>2. enc' \in [Ids -> APS]
    BY EmptyTyped DEF TypeOK
  <2>3. start' \in 0 .. N /\ changed' \subseteq Ids /\ held' \subseteq Ids
    BY DEF TypeOK
  <2> QED BY <2>1, <2>2, <2>3 DEF TypeOK, Irap
<1>2. Phased'
  BY DEF Phased, IdleSlice, NoneNamed
<1>3. Chosen' /\ NamedFiltersArrive'
  BY DEF Chosen, NamedFiltersArrive, IsDecoded
<1>4. Started'
  BY DEF Started, IdleSlice, TypeOK, Irap
<1>5. Synced'
  <2> SUFFICES ASSUME ~joining',
                      NEW i \in Ids, enc'[i].has # {}, enc'[i].tid <= target
               PROVE  i \in held'
    BY DEF Synced
  <2>1. ~((awaiting /\ k # "LEADING") \/ k = "IDR")
    BY DEF EmptyMap, NoAPS
  <2>2. ~join
    BY <2>1 DEF Irap, Kinds
  <2>3. ~joining
    BY <2>1 DEF Started
  <2> QED BY <2>1, <2>2, <2>3 DEF Synced, Phased
<1> QED BY <1>1, <1>2, <1>3, <1>4, <1>5

-----------------------------------------------------------------------------
LEMMA LumaOffKeeps == ASSUME IInv, LumaOff PROVE IInv'
BY DEF IInv, LumaOff, decVars, TypeOK, Phased, Chosen, Synced, Started,
       NamedFiltersArrive, IsDecoded, NoneNamed, Named, Names

LEMMA LumaReuseKeeps ==
  ASSUME IInv, NEW n \in 0 .. N, LumaReuse(n) PROVE IInv'
<1> DEFINE used == Oldest(AvailableLuma, n)
<1> USE DEF IInv, LumaReuse, decVars
<1>1. /\ used \subseteq Ids /\ used # Ids
      /\ \A i \in used : /\ "luma" \in enc[i].has /\ enc[i].tid <= slice.tid
                         /\ ~slice.restricted
  BY CardIds DEF Oldest, AvailableLuma, Available
<1>2. NewApsId \in Ids
  BY DEF NewApsId, Ids, TypeOK
<1> HIDE DEF used
<1>3. slice' = [slice EXCEPT !.on = TRUE, !.luma = used, !.ccId = NewApsId]
  BY DEF used
<1>4. TypeOK'
  BY <1>1, <1>2, <1>3, ZenonT(40) DEF TypeOK, Slice
<1>5. Phased'
  BY <1>1, <1>3 DEF Phased, NoneNamed, TypeOK, Slice
<1>6. Chosen'
  <2>1. /\ changed' = {} /\ slice'.chroma = -1 /\ slice'.luma = used
        /\ slice'.cc = [c \in CcComps |-> -1]
        /\ slice'.tid = slice.tid /\ slice'.restricted = slice.restricted
    BY <1>3 DEF Phased, NoneNamed, TypeOK, Slice
  <2> QED BY <1>1, <2>1 DEF Chosen, Names
<1>7. Synced' /\ Started' /\ NamedFiltersArrive'
  BY <1>3 DEF Synced, Started, NamedFiltersArrive, IsDecoded, TypeOK, Slice
<1> QED BY <1>4, <1>5, <1>6, <1>7

LEMMA LumaNewKeeps ==
  ASSUME IInv, NEW n \in 0 .. N, LumaNew(n) PROVE IInv'
<1> DEFINE used == Oldest(AvailableLuma, n)
           id   == NewApsId
           has  == (enc[id].has \ {"chroma"}) \cup {"luma"}
<1> USE DEF IInv, LumaNew, decVars
<1>1. /\ used \subseteq Ids /\ id \notin used
      /\ \A i \in used : /\ "luma" \in enc[i].has /\ enc[i].tid <= slice.tid
                         /\ ~slice.restricted
  BY DEF Oldest, AvailableLuma, Available
<1>2. id \in Ids
  BY DEF NewApsId, Ids, TypeOK
<1>3. enc[id] \in APS /\ has \subseteq Parts /\ "luma" \in has
  BY <1>2 DEF TypeOK, APS, Parts
<1>4. /\ enc' = [enc EXCEPT ![id] = [has |-> has, tid |-> slice.tid]]
      /\ held' = held \ {id} /\ changed' = changed \cup {id}
      /\ start' = id
      /\ slice' = [slice EXCEPT !.on = TRUE, !.newLuma = TRUE,
                                !.luma = used \cup {id}, !.ccId = id]
      /\ phase = "luma" /\ phase' = "chroma"
  BY DEF Put
<1> HIDE DEF used, id, has
<1>5. TypeOK'
  <2>1. slice.tid \in Tids BY DEF TypeOK, Slice
  <2>2. enc' \in [Ids -> APS] BY <1>2, <1>3, <1>4, <2>1 DEF TypeOK, APS
  <2>3. used \cup {id} \subseteq Ids BY <1>1, <1>2
  <2>4. slice' \in Slice BY <1>2, <1>4, <2>3, ZenonT(40) DEF TypeOK, Slice
  <2>5. start' \in 0 .. N BY <1>2, <1>4 DEF Ids
  <2> QED BY <1>2, <1>4, <2>2, <2>4, <2>5 DEF TypeOK
<1>6. Phased'
  BY <1>2, <1>4 DEF Phased, NoneNamed, TypeOK, Slice
<1>7. Chosen'
  <2>1. slice'.cc = [c \in CcComps |-> -1] /\ slice'.chroma = -1
    BY <1>4 DEF Phased, NoneNamed, TypeOK, Slice
  <2>2. /\ changed' = {id} /\ slice'.luma = used \cup {id}
        /\ slice'.tid = slice.tid /\ slice'.restricted = slice.restricted
        /\ slice.tid \in Int
    <3>1. slice \in Slice /\ changed = {} BY <1>4 DEF TypeOK, Phased
    <3>2. slice.tid \in Int BY <3>1 DEF Slice, Tids
    <3> QED BY <1>4, <3>1, <3>2 DEF Slice
  <2>3. \A i \in slice'.luma : Names(i, "luma")'
    BY <1>1, <1>2, <1>3, <1>4, <2>2 DEF Names, TypeOK
  <2>4. \A i \in changed' : enc'[i].tid = slice'.tid /\ i \in Named'
    BY <1>2, <1>4, <2>2 DEF Named, TypeOK
  <2> QED BY <2>1, <2>3, <2>4 DEF Chosen
<1>8. Synced'
  BY <1>2, <1>4 DEF Synced, TypeOK
<1>9. Started' /\ NamedFiltersArrive'
  BY <1>4 DEF Started, NamedFiltersArrive, IsDecoded, TypeOK, Slice
<1> QED BY <1>5, <1>6, <1>7, <1>8, <1>9

-----------------------------------------------------------------------------
LEMMA NewChromaIdsTyped ==
  ASSUME IInv, phase = "chroma", NEW new \in NewChromaIds
  PROVE  /\ new \in -1 .. N - 1 /\ CcDefault(new) \in Ids
         /\ new >= 0 => /\ new \in Ids
                        /\ IF slice.newLuma THEN new = slice.ccId
                                            ELSE new \notin slice.luma
<1>1. slice.ccId \in Ids
  BY DEF IInv, TypeOK, Slice
<1>2. CASE slice.newLuma
  BY <1>1, <1>2 DEF NewChromaIds, CcDefault, Ids
<1>3. CASE ~slice.newLuma
  BY <1>1, <1>3 DEF NewChromaIds, CcDefault, Ids
<1> QED BY <1>2, <1>3

LEMMA ChromaOffKeeps ==
  ASSUME IInv, NEW new \in NewChromaIds, ChromaOff(new) PROVE IInv'
<1> USE DEF IInv, ChromaOff, decVars
<1>1. CcDefault(new) \in Ids
  BY NewChromaIdsTyped
<1> DEFINE id == CcDefault(new)
<1>2. slice' = [slice EXCEPT !.ccId = id]
  OBVIOUS
<1> HIDE DEF id
<1>3. TypeOK'
  BY <1>1, <1>2 DEF TypeOK, Slice, id
<1>4. Phased'
  BY <1>2 DEF Phased, NoneNamed, TypeOK, Slice
<1>5. Chosen'
  BY <1>2 DEF Chosen, Names, Named, TypeOK, Slice
<1>6. Synced' /\ Started' /\ NamedFiltersArrive'
  BY <1>2 DEF Synced, Started, NamedFiltersArrive, IsDecoded, TypeOK, Slice
<1> QED BY <1>3, <1>4, <1>5, <1>6

LEMMA ChromaReuseKeeps ==
  ASSUME IInv, NEW new \in NewChromaIds, NEW z \in Ids, ChromaReuse(new, z)
  PROVE  IInv'
<1> USE DEF IInv, ChromaReuse, decVars
<1>1. CcDefault(new) \in Ids
  BY NewChromaIdsTyped
<1> DEFINE id == CcDefault(new)
<1>2. slice' = [slice EXCEPT !.chroma = z, !.ccId = id]
  OBVIOUS
<1> HIDE DEF id
<1>3. TypeOK'
  <2>1. id \in Ids /\ z \in -1 .. N - 1 BY <1>1 DEF Ids, id
  <2>2. slice' \in Slice BY <1>2, <2>1 DEF TypeOK, Slice
  <2> QED BY <2>2 DEF TypeOK
<1>4. Phased'
  BY <1>2 DEF Phased, NoneNamed, TypeOK, Slice
<1>5. Chosen'
  <2>1. "chroma" \in enc[z].has /\ enc[z].tid <= slice.tid /\ ~slice.restricted
    BY DEF Available
  <2>2. slice.chroma = -1 /\ slice.cc = [c \in CcComps |-> -1]
    BY DEF Phased, NoneNamed
  <2>3. \A i \in changed : i \in Named'
    BY <1>2, <2>2 DEF Chosen, Named, TypeOK, Slice, Ids
  <2> QED BY <1>2, <2>1, <2>2, <2>3 DEF Chosen, Names, TypeOK, Slice
<1>6. Synced' /\ Started' /\ NamedFiltersArrive'
  BY <1>2 DEF Synced, Started, NamedFiltersArrive, IsDecoded, TypeOK, Slice
<1> QED BY <1>3, <1>4, <1>5, <1>6

LEMMA ChromaNewKeeps ==
  ASSUME IInv, NEW new \in NewChromaIds, ChromaNew(new) PROVE IInv'
<1> DEFINE has == (IF slice.newLuma THEN enc[new].has ELSE enc[new].has \ {"luma"})
                  \cup {"chroma"}
<1> USE DEF IInv, ChromaNew, decVars
<1>1. /\ new \in Ids
      /\ IF slice.newLuma THEN new = slice.ccId ELSE new \notin slice.luma
  BY NewChromaIdsTyped
<1>2. /\ enc[new] \in APS /\ has \subseteq Parts /\ "chroma" \in has
      /\ slice.newLuma /\ "luma" \in enc[new].has => "luma" \in has
  BY <1>1 DEF TypeOK, APS, Parts
<1>3. /\ enc' = [enc EXCEPT ![new] = [has |-> has, tid |-> slice.tid]]
      /\ held' = held \ {new} /\ changed' = changed \cup {new}
      /\ start' = new
      /\ slice' = [slice EXCEPT !.chroma = new, !.ccId = new]
      /\ phase = "chroma" /\ phase' = "cc"
  BY DEF Put
<1> HIDE DEF has
<1>4. slice.tid \in Tids /\ slice.tid \in Int
  BY DEF TypeOK, Slice, Tids
<1>5. TypeOK'
  <2>1. enc' \in [Ids -> APS] BY <1>1, <1>2, <1>3, <1>4 DEF TypeOK, APS
  <2>2. new \in -1 .. N - 1 /\ new \in 0 .. N BY <1>1 DEF Ids
  <2>3. slice' \in Slice BY <1>1, <1>3, <2>2 DEF TypeOK, Slice
  <2> QED BY <1>1, <1>3, <2>1, <2>2, <2>3 DEF TypeOK
<1>6. Phased'
  BY <1>1, <1>3 DEF Phased, NoneNamed, TypeOK, Slice
<1>7. Chosen'
  <2>1. /\ slice'.luma = slice.luma /\ slice'.chroma = new /\ slice'.tid = slice.tid
        /\ slice'.restricted = slice.restricted
        /\ slice'.cc = [c \in CcComps |-> -1]
    BY <1>3 DEF Phased, NoneNamed, TypeOK, Slice
  <2>2. ASSUME NEW i \in slice.luma PROVE Names(i, "luma")'
    <3>1. i \in Ids /\ Names(i, "luma")
      BY <1>3 DEF TypeOK, Slice, Chosen
    <3>2. CASE i = new
      BY <1>1, <1>2, <1>3, <1>4, <2>1, <3>1, <3>2 DEF Names, TypeOK
    <3>3. CASE i # new
      BY <1>1, <1>3, <2>1, <3>1, <3>3 DEF Names, TypeOK
    <3> QED BY <3>2, <3>3
  <2>3. Names(new, "chroma")'
    BY <1>1, <1>2, <1>3, <1>4, <2>1 DEF Names, TypeOK
  <2>4. ASSUME NEW i \in changed' PROVE enc'[i].tid = slice'.tid /\ i \in Named'
    <3>1. i = new \/ (i \in changed /\ i \in slice.luma)
      BY <1>3 DEF Phased
    <3>2. i \in Ids
      BY <1>1, <3>1 DEF TypeOK
    <3> QED BY <1>1, <1>3, <2>1, <3>1, <3>2 DEF Named, Chosen, TypeOK
  <2> QED BY <2>1, <2>2, <2>3, <2>4 DEF Chosen
<1>8. Synced'
  BY <1>1, <1>3 DEF Synced, TypeOK
<1>9. Started' /\ NamedFiltersArrive'
  BY <1>3 DEF Started, NamedFiltersArrive, IsDecoded, TypeOK, Slice
<1> QED BY <1>5, <1>6, <1>7, <1>8, <1>9

-----------------------------------------------------------------------------
LEMMA ClearedSets ==
  ASSUME IInv, phase = "cc", NEW i \in Ids
  PROVE  /\ Cleared[i] \in APS /\ Cleared[i].tid = enc[i].tid
         /\ Cleared[i].has \ CcComps = enc[i].has \ CcComps
         /\ i \notin changed => Cleared[i] = enc[i]
<1>1. enc[i] \in APS
  BY DEF IInv, TypeOK
<1>2. CASE i \in changed /\ i \in slice.luma \cup {slice.chroma}
  <2>1. Cleared[i] = [enc[i] EXCEPT !.has = enc[i].has \ CcComps]
    BY <1>2 DEF Cleared
  <2> QED BY <1>1, <1>2, <2>1 DEF APS
<1>3. CASE ~(i \in changed /\ i \in slice.luma \cup {slice.chroma})
  <2>1. Cleared[i] = enc[i]
    BY <1>3 DEF Cleared
  <2> QED BY <1>1, <2>1
<1> QED BY <1>2, <1>3

LEMMA DeriveCcKeeps ==
  ASSUME IInv, NEW new \in SUBSET CcComps,
         NEW reuse \in [CcComps -> -1 .. N - 1], DeriveCc(new, reuse)
  PROVE  IInv'
<1> DEFINE setUp == IF new = {} THEN {} ELSE {slice.ccId}
           cc    == [c \in CcComps |-> IF c \in new THEN slice.ccId ELSE reuse[c]]
<1> USE DEF IInv
<1>1. /\ phase = "cc" /\ phase' = "write"
      /\ slice' = [slice EXCEPT !.cc = cc]
      /\ \A i \in Ids : enc'[i] =
           IF i \in setUp THEN [has |-> Cleared[i].has \cup new, tid |-> slice.tid]
                          ELSE Cleared[i]
      /\ enc' = [i \in Ids |-> enc'[i]]
      /\ changed' = changed \cup setUp /\ held' = held \ setUp
      /\ UNCHANGED <<start, awaiting, joining, target>>
  BY DEF DeriveCc, decVars
<1>2. slice \in Slice /\ slice.ccId \in Ids /\ slice.tid \in Tids
      /\ slice.tid \in Int /\ slice.luma \subseteq Ids
  BY DEF TypeOK, Slice, Tids
<1>3. /\ setUp \subseteq Ids /\ cc \in [CcComps -> -1 .. N - 1]
      /\ \A c \in new : cc[c] \in setUp
  BY <1>2 DEF Ids
<1>4. ASSUME NEW c \in CcComps \ new, cc[c] >= 0
      PROVE  /\ cc[c] \in Ids /\ ~slice.restricted
             /\ c \in Cleared[cc[c]].has /\ Cleared[cc[c]].tid <= slice.tid
  <2>1. cc[c] \in AvailableCc(c)
    BY <1>4 DEF DeriveCc
  <2> QED BY <2>1 DEF AvailableCc, Available
<1>5. /\ slice'.luma = slice.luma /\ slice'.chroma = slice.chroma
      /\ slice'.cc = cc /\ slice'.tid = slice.tid
      /\ slice'.restricted = slice.restricted /\ slice'.on = slice.on
      /\ slice'.leading = slice.leading
  BY <1>1, <1>2 DEF Slice
<1> HIDE DEF setUp, cc
\* A part the set keeps, and a layer no higher than the picture's.
<1>6. ASSUME NEW i \in Ids, NEW part, part \in Cleared[i].has,
             Cleared[i].tid <= slice.tid
      PROVE  part \in enc'[i].has /\ enc'[i].tid <= slice'.tid
  BY <1>1, <1>2, <1>5, <1>6
<1>7. TypeOK'
  <2>1. ASSUME NEW i \in Ids PROVE enc'[i] \in APS
    <3>1. Cleared[i] \in APS BY <1>1, ClearedSets
    <3>2. new \subseteq Parts BY DEF Parts
    <3> QED BY <1>1, <1>2, <3>1, <3>2 DEF APS
  <2>2. slice' \in Slice BY <1>1, <1>2, <1>3 DEF Slice
  <2> QED BY <1>1, <1>3, <2>1, <2>2 DEF TypeOK
<1>8. Phased'
  BY <1>1, <1>5 DEF Phased
<1>9. Chosen'
  <2>1. ASSUME NEW i \in slice.luma PROVE Names(i, "luma")'
    <3>1. i \in Ids /\ Names(i, "luma") BY <1>1, <1>2 DEF Chosen
    <3>2. "luma" \in Cleared[i].has /\ Cleared[i].tid <= slice.tid
      BY <1>1, <3>1, ClearedSets DEF Names
    <3> QED BY <1>1, <1>5, <1>6, <3>1, <3>2 DEF Names
  <2>2. ASSUME slice.chroma >= 0 PROVE Names(slice.chroma, "chroma")'
    <3>1. slice.chroma \in Ids /\ Names(slice.chroma, "chroma")
      BY <1>1, <1>2, <2>2 DEF Chosen, Slice, Ids
    <3>2. "chroma" \in Cleared[slice.chroma].has
          /\ Cleared[slice.chroma].tid <= slice.tid
      BY <1>1, <3>1, ClearedSets DEF Names
    <3> QED BY <1>1, <1>5, <1>6, <3>1, <3>2 DEF Names
  <2>3. ASSUME NEW c \in CcComps, NEW i \in Int, i = cc[c], i >= 0
        PROVE  Names(i, c)'
    <3>1. CASE c \in new
      <4>1. i \in setUp /\ i \in Ids BY <1>3, <2>3, <3>1
      <4>2. enc'[i] = [has |-> Cleared[i].has \cup new, tid |-> slice.tid]
        BY <1>1, <4>1
      <4>3. c \in enc'[i].has /\ enc'[i].tid <= slice'.tid
        BY <1>2, <1>5, <3>1, <4>2
      <4> QED BY <1>1, <4>1, <4>3 DEF Names
    <3>2. CASE c \notin new
      <4>1. /\ i \in Ids /\ ~slice.restricted
            /\ c \in Cleared[i].has /\ Cleared[i].tid <= slice.tid
        BY <1>4, <2>3, <3>2
      <4> QED BY <1>5, <1>6, <4>1 DEF Names
    <3> QED BY <3>1, <3>2
  <2>4. ASSUME NEW i \in changed' PROVE enc'[i].tid = slice'.tid /\ i \in Named'
    <3>1. CASE i \in setUp
      <4>1. PICK c \in CcComps : cc[c] = i BY <1>2, <3>1 DEF setUp, cc
      <4> QED BY <1>1, <1>3, <1>5, <3>1, <4>1 DEF Named
    <3>2. CASE i \notin setUp
      <4>1. i \in changed /\ i \in Ids BY <1>1, <3>2 DEF TypeOK
      <4>2. enc'[i].tid = slice.tid
        BY <1>1, <3>2, <4>1, ClearedSets DEF Chosen
      <4>3. i \in slice.luma \cup {slice.chroma} BY <1>1, <4>1 DEF Phased
      <4> QED BY <1>5, <4>2, <4>3 DEF Named
    <3> QED BY <3>1, <3>2
  <2>5. (\A c \in CcComps : slice.cc[c] >= 0 => Names(slice.cc[c], c))'
    <3> SUFFICES ASSUME NEW c \in CcComps, slice'.cc[c] >= 0
                 PROVE  (Names(slice.cc[c], c))'
      OBVIOUS
    <3>1. slice'.cc[c] = cc[c] /\ cc[c] \in Int BY <1>3, <1>5
    <3>2. \A i \in Int : i = cc[c] => Names(i, c)' BY <2>3, <3>1
    <3> QED BY <3>1, <3>2 DEF Names
  <2> QED BY <1>5, <2>1, <2>2, <2>4, <2>5 DEF Chosen
<1>10. Synced'
  <2> SUFFICES ASSUME ~joining', NEW i \in Ids \ changed',
                      enc'[i].has # {}, enc'[i].tid <= target'
               PROVE  i \in held'
    BY DEF Synced
  <2>1. i \notin setUp /\ i \notin changed BY <1>1
  <2>2. enc'[i] = enc[i] BY <1>1, <2>1, ClearedSets
  <2> QED BY <1>1, <2>1, <2>2 DEF Synced
<1>11. Started' /\ NamedFiltersArrive'
  BY <1>1, <1>5 DEF Started, NamedFiltersArrive, IsDecoded
<1> QED BY <1>7, <1>8, <1>9, <1>10, <1>11

-----------------------------------------------------------------------------
LEMMA TransmitKeeps == ASSUME IInv, Transmit PROVE IInv'
<1> USE DEF IInv
<1>1. /\ phase = "write" /\ phase' = "decoded"
      /\ changed' = {}
      /\ held' = held \cup {i \in changed : enc[i].tid <= target}
      /\ UNCHANGED <<enc, start, slice, awaiting, joining, target>>
  BY DEF Transmit, Phased
<1>2. TypeOK' /\ Phased' /\ Chosen' /\ Started'
  BY <1>1 DEF TypeOK, Phased, Chosen, Started
<1>3. Synced'
  BY <1>1 DEF Synced, TypeOK
<1>4. NamedFiltersArrive'
  <2> SUFFICES ASSUME IsDecoded' PROVE NamedFiltersArrive'
    BY DEF NamedFiltersArrive
  <2>1. slice.tid <= target /\ slice.tid \in Int /\ target \in Int
    BY <1>1 DEF IsDecoded, TypeOK, Slice, Tids
  <2>2. ~slice.restricted => ~joining
    BY <1>1 DEF IsDecoded, Started
  <2>3. ASSUME NEW i \in Ids, NEW part, Names(i, part) PROVE Arrived(i, part)'
    <3>1. enc[i].tid \in Int /\ enc[i].tid <= target
      BY <2>1, <2>3 DEF Names, TypeOK, APS, Tids
    <3>2. CASE i \in changed
      BY <1>1, <2>3, <3>1, <3>2 DEF Names, Arrived
    <3>3. CASE i \notin changed
      BY <1>1, <2>2, <2>3, <3>1, <3>3 DEF Names, Arrived, Synced
    <3> QED BY <3>2, <3>3
  <2>4. ASSUME NEW i \in slice.luma PROVE Arrived(i, "luma")'
    BY <1>1, <2>3 DEF Chosen, TypeOK, Slice
  <2>5. ASSUME slice.chroma >= 0 PROVE Arrived(slice.chroma, "chroma")'
    <3>1. slice.chroma \in Ids BY <2>5 DEF TypeOK, Slice, Ids
    <3> QED BY <1>1, <2>3, <2>5, <3>1 DEF Chosen
  <2>6. ASSUME NEW c \in CcComps, slice.cc[c] >= 0 PROVE Arrived(slice.cc[c], c)'
    <3>1. slice.cc[c] \in Ids BY <2>6 DEF TypeOK, Slice, Ids
    <3> QED BY <1>1, <2>3, <2>6, <3>1 DEF Chosen
  <2> QED BY <1>1, <2>4, <2>5, <2>6 DEF NamedFiltersArrive
<1> QED BY <1>1, <1>2, <1>3, <1>4

-----------------------------------------------------------------------------
LEMMA IInvWritesAreSound == IInv => WritesAreSound
<1> SUFFICES ASSUME IInv PROVE WritesAreSound
  OBVIOUS
<1>1. ASSUME phase = "write", NEW i \in changed
      PROVE  enc[i].tid = slice.tid /\ enc[i].has # {} /\ i \in Named
  <2>1. enc[i].tid = slice.tid /\ i \in Named /\ i \in Ids
    BY <1>1 DEF IInv, Chosen, TypeOK
  <2>2. CASE i \in slice.luma
    BY <1>1, <2>1, <2>2 DEF IInv, Chosen, Names
  <2>3. CASE i = slice.chroma
    BY <1>1, <2>1, <2>3 DEF IInv, Chosen, Names, Ids
  <2>4. CASE \E c \in CcComps : i = slice.cc[c]
    BY <1>1, <2>1, <2>4 DEF IInv, Chosen, Names, Ids
  <2> QED BY <2>1, <2>2, <2>3, <2>4 DEF Named
<1>2. phase = "chroma" /\ ~slice.newLuma => slice.luma # Ids
  BY DEF IInv, Phased
<1> QED BY <1>1, <1>2 DEF WritesAreSound

LEMMA StepKeeps == IInv /\ [Next]_vars => IInv'
<1> SUFFICES ASSUME IInv, [Next]_vars PROVE IInv'
  OBVIOUS
<1>1. CASE Next
  BY <1>1, NewPictureKeeps, LumaOffKeeps, LumaReuseKeeps, LumaNewKeeps,
     ChromaOffKeeps, ChromaReuseKeeps, ChromaNewKeeps, DeriveCcKeeps,
     TransmitKeeps DEF Next, Tids
<1>2. CASE UNCHANGED vars
  BY <1>2 DEF vars, IInv, TypeOK, Phased, NoneNamed, Chosen, Names, Named, Synced,
     Started, NamedFiltersArrive, IsDecoded, Arrived
<1> QED BY <1>1, <1>2

\* The invariant holds in every state, for every number of identifiers, layers
\* and components.
THEOREM Invariant == Spec => []IInv
BY InitIInv, StepKeeps, PTL DEF Spec

\* The variables stay in their types: no identifier outside the eight, in
\* particular, comes from the searches that count downward and wrap around.
THEOREM TypeCorrect == Spec => []TypeOK
<1>1. IInv => TypeOK BY DEF IInv
<1> QED BY Invariant, <1>1, PTL

\* Every decoder, of any layers and started at any IRAP, finds what the slices
\* it decodes name.
THEOREM FiltersArrive == Spec => []NamedFiltersArrive
<1>1. IInv => NamedFiltersArrive BY DEF IInv
<1> QED BY Invariant, <1>1, PTL

\* The checks in front of writing a set never fire.
THEOREM WritesSound == Spec => []WritesAreSound
BY Invariant, IInvWritesAreSound, PTL

=============================================================================
