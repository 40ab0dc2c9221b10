------------------------------- MODULE AlfAps -------------------------------
(* Adaptation parameter sets of the adaptive loop filter: how the encoder    *)
(* hands out the identifiers, and what a decoder finds under them.           *)
(*                                                                           *)
(* A set holds up to four filters under one identifier: luma, chroma and one *)
(* cross-component filter per chroma component.  The encoder decides them    *)
(* one after the other in each picture (ALFProcess), writes the sets that    *)
(* changed in front of the slice and keeps its own copy, from which later    *)
(* pictures reuse filters by naming an identifier.  The decoder of the model *)
(* may decode only the lower temporal layers, and may be a new one that      *)
(* starts at any random access point.  Nothing flows back from the decoder,  *)
(* so it is stepped with the encoder: the order of the byte stream is kept.  *)
(*                                                                           *)
(* The filters themselves are not in the model: has names the filters a set   *)
(* signals, and held the identifiers under which the decoder has the          *)
(* encoder's present set.  A set without a filter and one that was never      *)
(* allocated are the same value: no code tells them apart once all signalling *)
(* flags are false.                                                           *)
EXTENDS Integers, FiniteSets

CONSTANTS N,        \* ALF_CTB_MAX_NUM_APS, the number of identifiers
          MaxTid,   \* the highest temporal layer
          CcComps   \* the components with a cross-component filter

ASSUME NumberAssumption == N \in Nat \ {0}
ASSUME LayerAssumption  == MaxTid \in Nat
ASSUME CcAssumption     == CcComps \cap {"luma", "chroma"} = {}

Ids   == 0 .. N - 1
Tids  == 0 .. MaxTid
Parts == {"luma", "chroma"} \cup CcComps
APS   == [has : SUBSET Parts, tid : Tids]
NoAPS == [has |-> {}, tid |-> 0]
EmptyMap == [i \in Ids |-> NoAPS]

Irap  == {"IDR", "CRA"}
Kinds == Irap \cup {"LEADING", "TRAIL"}

\* A picture's choices; -1 where the code has a flag that is off.
Slice == [leading : BOOLEAN, tid : Tids, restricted : BOOLEAN, on : BOOLEAN,
          newLuma : BOOLEAN, luma : SUBSET Ids, chroma : -1 .. N - 1,
          ccId : Ids, cc : [CcComps -> -1 .. N - 1]]

VARIABLES enc,       \* the encoder's map, m_apsMap
          start,     \* m_apsIdStart; N when no filter was made since the reset
          changed,   \* the identifiers whose changed flag is set
          slice,     \* the picture in hand
          phase,     \* how far it is
          awaiting,  \* m_lastRasPoc is set: no trailing picture since the IRAP
          held,      \* the identifiers whose set the decoder has as it is now
          joining,   \* the decoder started at the last IRAP, a CRA
          target     \* the highest temporal layer the decoder decodes

vars == <<enc, start, changed, slice, phase, awaiting, held, joining, target>>
decVars == <<joining, target>>

IdleSlice == [leading |-> FALSE, tid |-> 0, restricted |-> TRUE, on |-> FALSE,
              newLuma |-> FALSE, luma |-> {}, chroma |-> -1, ccId |-> 0,
              cc |-> [c \in CcComps |-> -1]]

Init == /\ enc = EmptyMap /\ start = N /\ changed = {}
        /\ slice = IdleSlice /\ phase = "idle" /\ awaiting = FALSE
        /\ held = {} /\ joining = FALSE /\ target \in Tids

\* Faulty: the set keeps the temporal layer of its earlier life.
PutKeepingLayer(i, has) ==
  /\ enc' = [enc EXCEPT ![i].has = has]
  /\ held' = held \ {i}
  /\ changed' = changed \cup {i}

\* The encoder replaces the set under identifier i.  What the decoder has under
\* it is then another set.
Put(i, has) ==
  /\ enc' = [enc EXCEPT ![i] = [has |-> has, tid |-> slice.tid]]
  /\ held' = held \ {i}
  /\ changed' = changed \cup {i}

-----------------------------------------------------------------------------
\* A picture begins: setPendingRasInit, then the reset at the head of
\* ALFProcess.  A leading picture precedes the IRAP in output order, so it
\* does not end the wait.  "join" starts a new decoder at this picture.
NewPicture(k, intra, t, join) ==
  /\ phase \in {"idle", "decoded"}
  /\ k \in Irap => intra /\ t = 0
  /\ phase = "idle" => k \in Irap
  /\ k = "LEADING" => awaiting /\ ~intra
  /\ join => k \in Irap
  /\ LET rasInit == awaiting /\ k # "LEADING"
         reset   == rasInit \/ k = "IDR"
     IN /\ slice' = [IdleSlice EXCEPT !.leading = (k = "LEADING"), !.tid = t,
                         !.restricted = intra \/ rasInit \/ k = "IDR"]
        /\ enc' = IF reset THEN EmptyMap ELSE enc
        /\ start' = IF reset THEN N ELSE start
        /\ changed' = IF reset THEN {} ELSE changed
        /\ held' = IF reset \/ join THEN {} ELSE held
  /\ awaiting' = (k \in Irap \/ (awaiting /\ k = "LEADING"))
  /\ joining' = (IF k = "LEADING" THEN joining ELSE join /\ k = "CRA")
  /\ phase' = "luma"
  /\ UNCHANGED target

\* Faulty: sets of higher temporal layers are taken too.
AvailableAnyLayer(part, map) ==
  IF slice.restricted THEN {} ELSE {i \in Ids : part \in map[i].has}

\* The sets a later picture may take a filter from: none for an intra slice
\* or after a reset.
Available(part, map) ==
  IF slice.restricted THEN {}
  ELSE {i \in Ids : part \in map[i].has /\ map[i].tid <= slice.tid}

-----------------------------------------------------------------------------
(* Luma, the first half of alfEncoderCtb. *)

\* getAvaiApsIdsLuma
AvailableLuma == IF start = N THEN {} ELSE Available("luma", enc)

NewApsId == IF start = 0 THEN N - 1 ELSE start - 1

\* The candidates are listed from start on, cyclically; the first of them are used.
Oldest(S, n) == {i \in S : (i - start) % N < n}

\* The unfiltered picture costs least: ALF is off, and the chroma half and the
\* cross-component filters are skipped.
LumaOff ==
  /\ phase = "luma"
  /\ phase' = "write"
  /\ UNCHANGED <<enc, start, changed, slice, awaiting, held, decVars>>

\* Fixed filters and those of n listed sets.
LumaReuse(n) ==
  /\ phase = "luma"
  /\ LET used == Oldest(AvailableLuma, n)
     IN /\ Cardinality(used) < N
        /\ slice' = [slice EXCEPT !.on = TRUE, !.luma = used, !.ccId = NewApsId]
  /\ phase' = "chroma"
  /\ UNCHANGED <<enc, start, changed, awaiting, held, decVars>>

\* A new filter set besides: setAlfAPSParam replaces luma and chroma.
LumaNew(n) ==
  /\ phase = "luma"
  /\ LET used == Oldest(AvailableLuma, n)
         id   == NewApsId
     IN /\ Cardinality(used) + 1 < N
        /\ id \notin used
        /\ slice' = [slice EXCEPT !.on = TRUE, !.newLuma = TRUE,
                                  !.luma = used \cup {id}, !.ccId = id]
        /\ Put(id, (enc[id].has \ {"chroma"}) \cup {"luma"})
        /\ start' = id
  /\ phase' = "chroma"
  /\ UNCHANGED <<awaiting, decVars>>

-----------------------------------------------------------------------------
(* Chroma, the second half of alfEncoderCtb. *)

\* newApsIdChroma: -1 when no chroma filter was derived; the set of the new
\* luma filter; else the first below start that no luma block names.
NewChromaIds ==
  {-1} \cup
  IF slice.newLuma THEN {slice.ccId}
  ELSE {c \in Ids \ slice.luma :
          \A d \in Ids \ slice.luma : (start - 1 - c) % N <= (start - 1 - d) % N}

CcDefault(new) == IF new >= 0 THEN new ELSE slice.ccId

ChromaOff(new) ==
  /\ phase = "chroma"
  /\ slice' = [slice EXCEPT !.ccId = CcDefault(new)]
  /\ phase' = "cc"
  /\ UNCHANGED <<enc, start, changed, awaiting, held, decVars>>

ChromaReuse(new, z) ==
  /\ phase = "chroma"
  /\ z \in Available("chroma", enc) \ {new}
  /\ slice' = [slice EXCEPT !.chroma = z, !.ccId = CcDefault(new)]
  /\ phase' = "cc"
  /\ UNCHANGED <<enc, start, changed, awaiting, held, decVars>>

ChromaNew(new) ==
  /\ phase = "chroma"
  /\ new >= 0
  /\ slice' = [slice EXCEPT !.chroma = new, !.ccId = new]
  /\ Put(new, (IF slice.newLuma THEN enc[new].has ELSE enc[new].has \ {"luma"})
              \cup {"chroma"})
  /\ start' = new
  /\ phase' = "cc"
  /\ UNCHANGED <<awaiting, decVars>>

-----------------------------------------------------------------------------
(* Cross-component filters: the end of ALFProcess, deriveCcAlfFilter and      *)
(* xSetupCcAlfAPS.                                                            *)

\* "Do not transmit CC ALF if it is unchanged": a set that is written for a
\* new luma or chroma filter loses the cross-component filters of its earlier life.
Cleared ==
  [i \in Ids |-> IF i \in changed /\ i \in slice.luma \cup {slice.chroma}
                 THEN [enc[i] EXCEPT !.has = @ \ CcComps] ELSE enc[i]]

\* getAvailableCcAlfApsIds
AvailableCc(c) == IF start = N THEN {} ELSE Available(c, Cleared)

\* The components of "new" put a filter into the slice's set, which takes the
\* picture's layer; the others name the set of an earlier picture, or none.
DeriveCc(new, reuse) ==
  /\ phase = "cc"
  /\ \A c \in CcComps \ new : reuse[c] \in AvailableCc(c) \cup {-1}
  /\ slice' = [slice EXCEPT
                 !.cc = [c \in CcComps |-> IF c \in new THEN slice.ccId
                                           ELSE reuse[c]]]
  /\ LET setUp == IF new = {} THEN {} ELSE {slice.ccId}
     IN /\ enc' = [i \in Ids |->
                     IF i \in setUp
                     THEN [has |-> Cleared[i].has \cup new, tid |-> slice.tid]
                     ELSE Cleared[i]]
        /\ changed' = changed \cup setUp
        /\ held' = held \ setUp
  /\ phase' = "write"
  /\ UNCHANGED <<start, awaiting, decVars>>

-----------------------------------------------------------------------------
\* Every changed set goes in front of the slice and its flag is cleared; the
\* decoder stores those of the layers it decodes, of skipped pictures too.
Transmit ==
  /\ phase = "write"
  /\ LET sent == IF slice.on THEN changed ELSE {}
     IN /\ changed' = changed \ sent
        /\ held' = held \cup {i \in sent : enc[i].tid <= target}
  /\ phase' = "decoded"
  /\ UNCHANGED <<enc, start, slice, awaiting, joining, target>>

Next == \/ \E k \in Kinds, intra \in BOOLEAN, t \in Tids, join \in BOOLEAN :
              NewPicture(k, intra, t, join)
        \/ LumaOff
        \/ \E n \in 0 .. N : LumaReuse(n)
        \/ \E n \in 0 .. N : LumaNew(n)
        \/ \E new \in NewChromaIds : ChromaOff(new)
        \/ \E new \in NewChromaIds, z \in Ids : ChromaReuse(new, z)
        \/ \E new \in NewChromaIds : ChromaNew(new)
        \/ \E new \in SUBSET CcComps, reuse \in [CcComps -> -1 .. N - 1] :
              DeriveCc(new, reuse)
        \/ Transmit

Spec == Init /\ [][Next]_vars

-----------------------------------------------------------------------------
\* The values the variables take.
TypeOK == /\ enc \in [Ids -> APS] /\ held \subseteq Ids
          /\ start \in 0 .. N /\ changed \subseteq Ids
          /\ slice \in Slice
          /\ phase \in {"idle", "luma", "chroma", "cc", "write", "decoded"}
          /\ awaiting \in BOOLEAN /\ joining \in BOOLEAN /\ target \in Tids

\* The slice was decoded: its layer is, and it is no leading picture of a CRA
\* the decoder started at.
IsDecoded == /\ phase = "decoded" /\ slice.on /\ slice.tid <= target
             /\ ~(joining /\ slice.leading)

\* The decoder has the encoder's set under i, with the filter the slice wants
\* of it, in a layer the slice may refer to.
Arrived(i, part) == /\ i \in held /\ part \in enc[i].has
                    /\ enc[i].tid <= slice.tid

\* Whatever temporal layers it decodes and wherever it started, the decoder
\* finds every filter a slice names: no "referenced APS not found", no signalling
\* flag that is off, no "CC ALF APS not available", no TemporalId above the
\* slice's, and no old filter under an identifier that was used again
\* (VLCReader.cpp:3885-3912, DecLib.cpp:1307-1418).
NamedFiltersArrive ==
  IsDecoded =>
    /\ \A i \in slice.luma : Arrived(i, "luma")
    /\ slice.chroma >= 0 => Arrived(slice.chroma, "chroma")
    /\ \A c \in CcComps : slice.cc[c] >= 0 => Arrived(slice.cc[c], c)

\* The identifiers the slice names.
Named == slice.luma \cup {slice.chroma} \cup {slice.cc[c] : c \in CcComps}

\* What the encoder itself checks when it writes the sets, and the reader when it
\* parses them: a set is written in the layer of its picture, is one the slice
\* names, and signals a filter; and the search for a free chroma set ends,
\* since the luma choice leaves one
\* (EncGOP.cpp:362, 3282; VLCReader.cpp:1022; EncAdaptiveLoopFilter.cpp:2944).
WritesAreSound ==
  /\ phase = "write" => \A i \in changed : /\ enc[i].tid = slice.tid
                                           /\ enc[i].has # {}
                                           /\ i \in Named
  /\ phase = "chroma" /\ ~slice.newLuma => slice.luma # Ids
=============================================================================
