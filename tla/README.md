# A TLA+ verification project for MFLCNN-for-VVC

MFLCNN-for-VVC is VTM 10.0, the VVC reference encoder and decoder
(`src/source_forder/VTM10.0_fast`), in which a CNN (`net_lib_v2`) tells the
encoder which splits of a coding unit are worth testing, and a Python manager
(`src/run`) that runs the 300 encodes of the experiments. This directory holds
TLA+ models of its control logic, the configurations that check them with TLC,
and proofs checked by TLAPS. `PROJECT.json` maps every definition to the lines
it models and lists runs, mutants, findings, hazards and theorems.

File names below are short: `Lib/...` and `App/...` are under
`src/source_forder/VTM10.0_fast/source`.

## 1. Inventory

Components with control logic of their own, in the order in which data passes
through them.

| Component | State | Operations | Interacts with | What is hard |
|---|---|---|---|---|
| **Batch manager** `run/Thread_Mgr.py`, scripts of `run/gen_sh.py` | `thread_list`, `max_thread`, one thread per started command, one log per command, `Thread_Cfg.json` | main loop (read, wait, start, pause, drain, exit), `thread_cmd`, script | operator, memory, operating system, encoder processes | unlocked read of a shared list, late registration, edits while reading, machine stops |
| **Mode control and CU search** `Lib/EncoderLib/EncModeCtrl.cpp`, `EncCu.cpp` | stack of test modes, flags about what was tried, best coding | `initCULevel`, `tryMode`, `nextMode`, `xCompressCU`, `useModeResult` | partitioner (which splits), network (which to skip), searches (costs) | many rules that refuse a mode depend on what earlier modes did; a test may deliver nothing; the pruning was added from outside |
| **CNN interface** `App/EncoderApp/fast_code/Fast_Tool.hpp`, `net_lib_v2` | one output buffer for the life of the process, size tables | `Get_Mode`, `Run`, `Get_External_Mode` | CU search, ONNX library | two copies of the size table; a buffer that is never cleared |
| **Partitioner** `Lib/CommonLib/UnitPartitioner.cpp` | stack of levels, eight depth counters, quantization-group position, cached implicit split | `initCtu`, `splitCurrArea`, `nextPart`, `exitCurrSplit`, `canSplit`, `getImplicitSplit`, tilings | CU search (encoder), slice data reader (decoder) | counters undone by recomputation; splits abandoned midway; picture boundary; local dual tree |
| **Slice loops** `EncSlice.cpp`, `DecSlice.cpp`, slice maps in `Slice.cpp` | CTU address, context states kept for the row below, substream, previous QP | `compressSlice`, `encodeSlice`, `decompressSlice`, `setNumEntryPoints`, `initRasterSliceMap`, `initRectSliceMap` | CABAC, parameter sets, slice header | two programs that must cut a slice in the same places by different tests |
| **CABAC engine** `BinEncoder.cpp`, `BinDecoder.cpp`, `Contexts.h`, `BitStream.cpp` | low, range, held byte, run of 0xff; value, bits needed; adaptive contexts | encode and decode of every kind of bin, finish, terminating bin | slice data syntax | carry into bytes already produced, prefetch at the end of a substream |
| **Decoder library** `DecLib.cpp`, `Picture.cpp`, marking in `Slice.cpp` | list of picture buffers, marks, POC of random access | `decode`, `xGetNewPicBuffer`, `applyReferencePictureListBasedMarking`, lost pictures | application, parameter sets | buffers reused while needed, missing references |
| **Decoder application** `DecApp.cpp`, `AnnexBread.cpp` | file position, last POC displayed | main loop, `xWriteOutput`, `xFlushOutput` | decoder library | lookahead to the next picture and back, output order |
| **NAL units** `NALread.cpp`, `NALwrite.cpp` | none | emulation prevention, headers, entry point correction | slice loops, byte stream | counting of escaped bytes at the border of substreams |
| **Parameter sets** `ParameterSetManager.h`, `VLCReader.cpp`, `VLCWriter.cpp`; filters of the loop filter, `EncAdaptiveLoopFilter.cpp` | map of sets, change flags, last active set; next free identifier | `storePS`, `activate`; choose, reuse and send filters | encoder control, decoder library | a set replaced while pictures still name it |
| **Encoder control** `EncAppCfg.cpp`, `EncGOP.cpp`, `EncLib.cpp` | GOP table and its added entries, picture list, marks, POC of the last CRA and IDR | `xCheckParameter`, `compressGOP`, `createExplicitReferencePictureSetFromReference` | everything above | lists that reach before a random access point; a buffer size counted from the table alone |
| **HMVP and reuse caches** `CodingStructure.cpp`, `EncModeCtrl.cpp` | motion history, cached codings | `addMiToLut`, save, restore, `setFromCs`, `isValid` | CU search, decoder's `DecCu` | state that must be undone when a split is dropped; validity of a cached result |
| **Rate control** `RateCtrl.cpp` | bits left, frames left | init, update | encoder control | floating point; divisions at the end of a GOP |

Everything else (prediction, transforms, loop filters, SEI, the analyser
libraries, stream tools, option parsing, caches that only count) is listed in
`PROJECT.json` with the reason it is left out: mostly sample arithmetic without
control state, or programs apart from the codec.

What makes each component correct:

- *Manager*: never starts more than it may; loses no job; an exit leaves no script
  behind; every job is eventually run, as long as the main thread lives.
- *CU search*: the network is asked only when its inputs exist, its answer is
  obeyed, and neither the answer nor the heuristics leave a block without a
  coding; the search ends.
- *CNN interface*: a decision depends only on what the network said about this
  CU, and covers every split that is possible there.
- *Partitioner*: a split that is over has left no trace; parts tile their area;
  no permitted split ends in a CHECK.
- *Slice loops*: encoder and decoder agree on substreams, contexts and QPs.
- *CABAC*: what is coded is decoded; no carry is lost; no byte is missing.
- *Codec as a whole*: the decoder accepts what the encoder writes; no picture is
  overwritten while it is referenced or waits; output is in order, and every
  picture is shown once.
- *Byte stream and NAL units*: units and substreams come back as they were, and
  the look-ahead finds every border between pictures.
- *Adaptive loop filter sets*: what a slice names is what the decoder holds,
  whatever layers it decodes and wherever it starts.
- *HMVP and reuse*: encoder and decoder derive motion from equal histories; a
  coding taken from the cache is what it was when it was found.

## 2. Modules

```
JobPool  <--refined by--  ThreadMgr  <-- ThreadMgrProofs
NetSizes (UnitPartitioner, NetModes, FastTool)  <-- MCUnitPartitioner, UnitPartitionerProofs
CompressCU  <-- MCCompressCU, CompressCUProofs
CuTree  <-- MCCuTree, CuTreeProofs
BinProb <-- BinEncoder, BinDecoder <-- Cabac <-- MCCabac, CabacProofs
SliceMap <-- SliceCoding <-- MCSliceCoding, SliceCodingProofs
GopStructure <-- CodedStream <-- EncGop, Dpb <-- DecApp
PictureOutput  <--refined by--  Codec (EncGop, DecApp)  <-- MCCodec
AlfAps  <-- AlfApsProofs
ByteStream  <-- MCByteStream, ByteStreamProofs
```

### ThreadMgr, JobPool

The program counter `pc` has one value for each place in the main loop at
which another thread or the environment can come between: reading the
configuration, testing `len(thread_list)`, testing memory, starting, choosing
the pause by a second look at the list, pausing, draining, joining. A thread
goes through `spawned` (started, not yet registered), `script` (registered),
`encoding`, `ended`, `done`; its two critical sections are `Register` and
`Unregister`. A script's log is `absent`, `partial` or `finished`, and greps
and truncates as the generated shell script does. The environment edits the
configuration (a reader may find it truncated, `Torn`, and dies of the
exception), swings memory, fails encodes and stops the machine.

`JobPool` says what `src/README.md` promises: a job starts only while fewer than
the limit are running, up to `Slack`. A started thread that is still not
registered when the pause of 0.02 s ends is late; the environment may delay
`MaxLates` of them. `ThreadMgr` implements the pool with `Slack = MaxLates`
(`ImplementsPool`): every late start costs one job above the limit and no more.
With slack 0, the promise as worded, it does not, which run `mgr_overshoot` shows.

### UnitPartitioner

`stack` is `m_partStack`, `curr` the depth counters of the partitioner; `frames`
keeps what `xCheckModeSplit` and its callers hold on their own stacks, with a
copy of the counters for the properties. `Split` is `splitCurrArea` as
`xCheckModeSplit` calls it, with the mode type of the parts; `SplitTu` the same
for transform units; `NextPart`, `ExitCurrSplit` and `Abort` (a part that found
no coding, or an intra region that is already too expensive) walk and leave.
`EnterLocalChroma` and `CodeLocalChroma` are the chroma pass of the local dual
tree. `coded` counts samples, so that tilings can be compared with the visible
area. `canSplit` is `Permitted`, `getImplicitSplit` is `ComputeImplicitSplit`
with its cache in the level.

### NetModes, FastTool, NetSizes

`NetModes` holds the tables of `Fast_Tool.hpp`, of the encoder (`Sorted`) and of
the library (`Written`). `FastTool` is one call of `Get_Mode` as a relation of the
buffer before it, the network's outputs and the modes forbidden (a set, since ties
of the sort may fall either way). `NetSizes` puts both against the partitioner:
whichever CU the walk reaches, its size is known, every split permitted has a place
among the outputs, and what the call decides does not depend on what earlier calls
left in the buffer.

At 128x128 the tables disagree: the library's network writes two values and the
encoder sorts four. `DecidedByThisCall` leaves that size out, and says so; the
code does not satisfy it there. Nothing in the repository states otherwise, so it
is a hazard and not a finding.

### CompressCU

One level of `xCompressCU`. `cu` is what the levels above, the partitioner and
the neighbours make of the CU (`Legal` bounds it), `todo` the stack of test
modes with `Rank` for their order, `feature` the flags of `ComprCUCtx`, `best`
what `bestCS` holds, `fast` the locals of the pruning. `Refuse` and `Accept` are
`nextMode` with `tryMode`; `Ask` is `Get_Mode`, `PassOver` the `continue` of a
forbidden split, `TestUnsplit` and `TestSplit` the tests with any cost or none,
`QuadPartFails` the CHECK on a quad split. The recursion below a split is
abstracted to its result: none, or a coding with any cost and the depth and skip
facts the rules read.

### CuTree

The recursion that `CompressCU` abstracts, as far as it moves the motion history
(`motionLut`) and `BestEncInfoCache`. `levels` is the stack of calls of
`xCompressCU`, each with its best and temporary structure and `oldLut`, the copy
`xCheckModeSplit` keeps; `cache` is `m_bestEncInfo`. Costs are left out: any test may
win. `Decode` is the decoder's single pass over the coding chosen. Content gives
each area the result of its search, a motion of its own or a merge index counted from
1; the history decides what motion an index stands for. `CtusAssumption` says that a
CTU's sides are powers of two up to 128, that its history fits, and that its content
has every area that splits can reach. One QP: a skipped CU whose QP was
set to the predicted one could otherwise be reused under another QP's history, which
costs quality only, because its motion is derived anew. The early return of an intra
region that is too expensive (`EncCu.cpp:1464`) restores the history as an
abandoned split does.

### BinProb, BinEncoder, BinDecoder, Cabac

The registers of both engines as integers with the arithmetic of the code:
shifts are products and quotients by powers of two, `% 2^w` where a width
matters. `BinEncoder.fits` turns false when `OutputBitstream::write` would
reject a value. `Cabac` composes them: any sequence of calls is encoded, closed
as `end_of_slice` and `writeByteAlignment` close it, and decoded with the same
sequence of calls.

### SliceMap, SliceCoding

`SliceMap` builds tiles and slices as the PPS does. `SliceCoding` has three
loops over the CTUs of each slice, `CompressCtu`, `EncodeCtu`, `DecodeCtu`, each
with its own tests: `EndsSubstream` (on the next CTU), `ExpectsEnd` (on the
position in the tile), `SetUp` (contexts), `NumEntryPoints` (header),
`NumSubstreams` (allocation). A context state is the sequence of CTUs it has
learnt from, so two states are equal exactly when the two coders agree for every
content; a substream is a sequence of symbols and its size a number of symbols.
A CTU is one coding unit and one quantization group.
`PicturesAssumption` says what the PPS makes of a picture, whatever its size: bounds
of tiles (`IsGrid`), and slices that are complete tiles, or complete rows of one tile,
taken row by row (`IsSlice`, `Follows`), each CTU in one of them (`CheckSliceMap`).
TLC evaluates it for the pictures of the runs, which `RasterSlices`, `ColumnSlices`
and `RowSlices` build as the PPS does.

### GopStructure, CodedStream, EncGop, Dpb, DecApp, PictureOutput, Codec

Encoder and decoder end to end, a picture being its header. `GopStructure` is
`EncAppCfg::xCheckParameter` on the GOP table: the walk that adds repaired entries
for pictures whose lists reach before the start, the counts of reordered pictures
and of the buffer. `EncGop` is `compressGOP`: NAL unit types, marking around
random access points, the lists a slice carries. The option
`EfficientFieldIRAPEnabled`, on by default for frames as well, marks once more at
the first picture behind an IDR: the pictures that lead it go there. `CodedStream` is what is
written. `Dpb` has the operations of `DecLib` and `Slice` on the picture list
(buffers, marking, the checks that throw, the look-ups that may run off the list)
and `DecApp` the main loop, header handling, bumping and flushing. `PictureOutput`
is what a decoder promises of its output; `Codec` composes the two programs and
implements it (`ImplementsOutput`).

### AlfAps

The adaptation parameter sets of the loop filter. `enc` is the encoder's
`ParameterSetMap`, `start` the last identifier handed out, `changed` the change flags.
A picture goes through the decisions of `ALFProcess` in their order: luma (`LumaOff`,
`LumaReuse`, `LumaNew`), chroma (`ChromaOff`, `ChromaReuse`, `ChromaNew`) and the
cross-component filters (`DeriveCc`); `Transmit` writes the sets that changed
in front of the slice. `NewPicture` resets the map at random access points. The
decoder decodes any highest layer and may be a new one that starts at any random
access point; `held` says under which identifiers it has the encoder's present set.
`NamedFiltersArrive` compares what a slice names with what the decoder has;
`WritesAreSound` holds the CHECKs of the writer. One slice per picture; LMCS and
scaling list sets are not here.

### ByteStream

`WriteSlice` and `WriteOther` are `NALwrite` and `AnnexBwrite`: escapes,
`cabac_zero_words`, start codes, entry points counted with escapes. `NextUnit` is
`AnnexBread` with the bytes it holds back, `Converted` and `Substreamed` are
`NALread` and the slice header's correction of entry points. `Read` is a round of
`DecApp`'s main loop: it takes a unit (`TakeUnit`) or, when the look-ahead
`IsNewPicture` says so, finishes the picture (`NewPicture`); either way the file was put
back three bytes before where it was.
`WrittenTypes` are the types `compressGOP` and what it calls write, and
`TypesAssumption` keeps to them: a suffix APS or an end of sequence, which the decoder
would understand, is written nowhere. `PicturesDelimited` compares the borders found with those
written. A zero byte before a start code that was held back is lost, which nothing
needs; the shift by three bytes could add up only if the flag of the first slice
stayed unset, which does not happen.

## 3. Runs

| Run | Checks | Bounds |
|---|---|---|
| `mgr` | `ImplementsPool`, `ExitLeavesNothingBehind`, `Terminates` | 3 commands, limits 0..2, 2 edits, 1 late start, 1 memory swing, 1 failure, 2 stops |
| `mgr_overshoot` | violation: more than `max_thread` scripts run | 2 commands, limit 1, 1 late start |
| `partition` | seven invariants and two step properties of the partitioner, the size table and the network's buffer | 26 configurations, CTUs of 32, 64, 128; outputs of two values |
| `cu_search` | six invariants and `EveryLevelEnds` | 52 kinds of CU, costs 1..2, binary depth up to 3 |
| `cu_tree` | `MotionsAgree`, `ReusedAsFound` | a square and a row of four units, 364 contents, a history of two |
| `cabac` | decoding, carry, end of substream | up to 6 single bins, 5 run-makers, 2 escape codes |
| `slice` | `SubstreamsAgree`, `SubstreamsFit`, `QpArrives` | every tile grid of 3x3, 2x4 and 1x2 CTUs, WPP and entry points on and off; QPs -12 and 63 in 3x2 and 2x3 |
| `slice_tiles_qp` | violation: QP of a slice with several tiles | 2x2 |
| `codec` | `AcceptsStream`, `BufferBounded`, `EverythingShown`, `ImplementsOutput` | GOPs of 2 and 4, three or four GOPs long, periods of one or two GOPs; the shipped GOP 16 and GOP 32 |
| `codec_random_access` | violation: access at a CRA picture | GOPs of 4, 1 or 5 pictures skipped |
| `alf_aps` | `NamedFiltersArrive`, `WritesAreSound` | 3 identifiers, 2 layers, 1 cross-component filter; any number of pictures |
| `byte_stream` | `UnitsArrive`, `SubstreamsArrive`, `PicturesDelimited`, `LoopAdvances` | 5 units of 5 types, one of them with rich contents |

Why the bounds are enough for the interesting cases:

- *Manager.* The window between `start()` and registration needs two commands;
  with three, one thread is registered, one is not and one is still to start.
  Limit 0 makes the main loop wait for an edit. Two stops give a command that
  was partial, then finished, then found finished.
- *Partitioner.* Every counter rule depends on the kind of split, the part and
  whether the split was implicit; depth two of the multi-type tree below a
  quad split and a boundary in both directions reach each combination, ternary
  middle parts and the 2xN cases of the local dual tree included. The 128 CTU
  adds the maximal transform splits and the sizes only it has. The counters and
  the quantization group are proved for all depths (section 5).
- *Network buffer.* What a cell of the buffer holds is compared only with other
  cells, so two values suffice to tell greater, smaller and equal; the theorems hold
  for any.
- *CU search.* The rules compare the new cost with the best only, so two costs
  give all three results; each heuristic has a CU in `MCCompressCU` in which it
  applies and one in which it does not.
- *CU tree.* Four units are the least in which a CU is reached by different splits
  both where its neighbourhood is the same (first unit, first half) and where it is
  not; a ternary split and two binary ones give different ancestors for the same
  area. A history of two makes the third motion drop the oldest, so an index can
  lead to a candidate, past the end, or to another candidate after a drop.
- *CABAC.* `RunSymbols` were chosen so that within four symbols a carry ripples
  through two held 0xff bytes, a carry comes at `finish`, and the range is 256
  when equiprobable bins are coded (the special path); `RemSymbols` has values on
  both sides of every boundary of the escape code, longest prefix included.
- *Slices.* Three rows and columns allow first, middle and last tiles; the row
  above may be in another slice, in another tile or outside the picture. -12
  and 63 are the ends of the QP range, which alone make the difference wrap.
- *Codec.* The lists of the small GOPs reach one, two or no picture before the GOP;
  three GOPs with a random access point in them let a picture refer across it, into
  it and behind it. Some ask behind an IDR picture, in list 1, for a picture that
  leads it: only the second marking keeps it off that list. Videos end at every
  place within a GOP. `MCCodec` names the
  conditions a table has to meet that `xCheckParameter` does not check
  (`KeepsWaiting`, `KeepsRecent`, `LayersKept`): a table without them makes the
  encoder itself fail, as the next section says.
- *Filter sets.* The state repeats, so pictures have no bound. With three identifiers
  a picture can name a new set and two old ones; the code has eight.
- *Byte stream.* Five units allow two pictures with a unit between, or one of several
  slices with units around it. The rich contents put an escape at the start, in
  the middle and at the end of a substream and of a header; one slice of a file has
  them, in any place. The file and its units are read by the loop one step at a
  time. `LoopAdvances` says that every step of the loop consumes or finishes
  something, in place of a liveness property (ENABLED of this relation is too slow
  to evaluate).

Deadlock is checked in `partition`, `codec` (whose ends stutter, so that a codec that
gets stuck is found), `alf_aps` and `byte_stream`; the other systems end.

Findings (violation runs):

1. *`max_thread` is not the maximum of scripts that run* (`mgr_overshoot`).
   `src/README.md:50` says it is. The test counts registered threads, and a
   thread registers itself.
2. *Wrong QP in slices of several tiles* (`slice_tiles_qp`). `encodeSlice` does not
   reset `m_prevQP` at a tile's first CTU; `compressSlice` and
   `decompressSlice` do.
3. *Random access at a CRA picture* (`codec_random_access`). With option `-s`, a CRA
   picture whose slices still list the pictures skipped is looked up past the end of
   the picture list, before any code that could replace what is missing.

Met while modelling, and not a run: `Read_Cfg` does not catch what `json.loads` raises
on a `Thread_Cfg.json` met between an editor's truncation and its write; the main
thread ends and the scripts not yet started never are (`Terminates` names this end
beside the regular one, and is about everything else that could hold the manager
up). The picture boundary forces a quad split below
MinQT when there is no multi-type tree (`UnitPartitioner.cpp:547`, against
`doc/software-manual.tex:1645`). `Get_Level` throws at a POC that is a multiple of 32
outside intra pictures (`Fast_Tool.hpp:226`). Insertion of a lost picture calls
members of a picture that is not in the list (`DecLib.cpp:2327`).
The loop that copies list 0 of an explicit
reference structure stops at once when the list is empty (`EncGOP.cpp:5602`), and
`EncLib.cpp:2067` may read entry -1 of a list. When the stream ends in RASL pictures
that were skipped, the last picture is finished a second time and marked for output
again. The buffer size of `EncAppCfg.cpp:3380` counts references and leaves out
pictures that only wait, so `BufferBounded` allows one more. `doc/software-manual.tex:2411` says entry
points are always present for slices of several tiles, while
`setNumEntryPoints` (`Slice.cpp:297`) gives none when the SPS flag is off.
`DID_HORZ_SPLIT` and `DID_VERT_SPLIT` stay set for a split the loop passes over
at the network's word, so that a quad split the network permits can be refused
though no binary split was tested; `QtGivenUpAfterBinary` states exactly what
holds and does not guard against this. At 128x128 the encoder sorts four values where
the library's own list has two, so the decision there may use what an earlier CU left
in the buffer; `DecidedByThisCall` is stated for the other sizes. No sentence of the
repository promises otherwise in either case, so neither is a run.

## 4. Fairness

Two passing runs check liveness.

- `mgr`: weak fairness of the main thread and of every job's thread. The
  operating system schedules both, sleeps end, and an encoder that runs ends or
  fails. None of the environment is fair: no edit ever need come. `Terminates`
  therefore assumes that configuration, memory and machine are favourable from
  some time on, and admits the end the code really has when it reads a
  half-written file.
- `cu_search`: weak fairness of the next step; the search is one thread's
  straight code.

The other runs check safety only. `codec` finds a decoder that gets stuck as a
deadlock: both programs only go forward, and what ends may only stutter.

## 5. Proofs

All proofs hold for every value of the constants that satisfies the named
ASSUMEs, which bound the constants as the code does: `Legal` configurations for
the partitioner (what `EncAppCfg` accepts; without a multi-type tree, its largest
blocks are those of `minQt`), `Legal` CUs for the search, `PicturesAssumption` for the
slice loops.

**ThreadMgrProofs** (any number of commands, any limits, any budgets).
`Inv` adds to the types that exactly the commands below `cmd` were started, that
every ended thread left a finished log or a recorded failure, and that the
process has exited only with no live thread. `ListCorrect` and `ExitCorrect`
follow with no assumption on timing. `StartsCorrect` bounds what a
late registration does: when a thread starts, the live threads are fewer than the
limit plus the starts that were late so far. The refinement `PoolImplemented` rests on
it: initial states map to initial states, a step of a thread's start or end to
`PoolStart` or `PoolFinish`, a reading of the configuration to `PoolLimit`, a stop to
`PoolCrash`, any other to a stutter.

**UnitPartitionerProofs** (any legal configurations, any depth).
`ExitRestoresCounters` is not inductive: it compares the counters after an exit
with those before the split, and the exit recomputes them. `IInv` says of every
level on the stack how the counters inside it differ from those below it
(`CountAt`, by kind of split and part reached), where the walk may stand in it
(`PlaceAt`), and which level opened the quantization group (`QgAt`). The
frames' copies of the counters are the link between a level and the one below.
From it follow `TypeCorrect` (unsigned counters never pass below zero),
`CountersRestored` and `QgStarts`; `TreeRestored` needs only its types.
`CacheCurrent` needs more: `CacheInv` says of every level, not only the top one, that
the implicit split it has cached is the one prescribed for its part with its
counters. A step into a split hides those counters and a pop brings them back, which
is where `CountersRestored`'s lemma (`PopGivesBack`) is used again.

Its second half is about areas, with three more invariants, each
resting on the ones before. `TreeInv` says with which channel, tree and mode type
every open level is walked. `GeoInv` says of every open level what its area can be
(`SizeOk`: sides, what is square, what is large enough for its chroma; `EdgeOk`: an
area across the picture's boundary was reached by implicit splits only and lies on its
own grid), which split it takes, and that its parts are that split's, apart and inside
the area. The heart is `PartsSizeOk`: the parts of a split that `canSplit` permits have
sizes of the same kind, with the mode type they are walked in. From it follow
`NeverThrows` and `EveryBlockCodable`. `SumInv` compares the samples coded with those
of the picture, part by part (`SplitTiles`: the parts of a split have together what the
area has, also where the picture cuts it), and gives `EverySampleOnce`. The quantities
are products of variables, which the provers do not multiply out, so those lemmas are
stated for one split at a time. `CacheInvariance` is used for the
implicit split a level has cached.

Its last part is about `NetSizes` (the same constants, and any values of the network). `GeoInv`
bounds the sizes at which the search asks, `Permitted` the splits; table and outputs
are then compared size by size (`CoversSplit`). `DecidedFresh` shows that a decision
reads outputs this call has written, everywhere but at 128x128.

**CompressCUProofs** (any set of legal CUs, any bound on costs). The invariant
`IInv` adds to the properties what the marks of binary splits mean (`Marks`,
for `QtGivenUpLate`) and three facts. `Order`: a split comes up only
after every unsplit mode. `Delivered`: while an inter CU may stay unsplit, the mode
that always delivers is still listed or has left a coding. `OnlySplitsLeft`: where
only splits are left, no unsplit mode is ever in the loop's body, hence the
network is never asked. They give `AskedUnsplit`, `Obeyed`, `ForcedKept`,
`Encoded`, `Faultless` and `QtGivenUpLate`.

`CusAssumption` holds what one level cannot know: that a block below the QT
depth rule's least depth has no reusable coding (the comment at `Legal` says why;
`EncModeCtrl.cpp:1448` accepts a cached coding before it looks at that rule), and
that a CU on the boundary has a split.

**AlfApsProofs** (any number of identifiers and of layers, any cross-component
filters). `NamedFiltersArrive` needs to know what the encoder's map and the decoder's
have in common while sets of higher layers are not decoded and the decoder may start
late: the invariant relates them set by set, and says which sets a later picture may
still take. `FiltersArrive` and `WritesSound` follow.

**CuTreeProofs** (CTUs of any size up to 128 and any content, histories of any length). Neither
property is inductive: `MotionsAgree` speaks of the end only, and what makes a cached
coding valid is an argument about the whole search. `IInv` has three parts.

- `LevelOk`, of every open level: its best coding is none, one CU whose motion comes
  from the history the level began with, or several that the decoder goes through
  (`Decodes`) from that history to the coding's own; its temporary coding likewise, as
  far as it goes; outside a split the temporary history is the one to start from.
- `Linked` and `Nested`, of two open levels: the lower one is the part the upper one
  is at and began with its temporary history; where both have the same corner, they
  began with the same history, because no part came before.
- `FoundIn`, of every cached coding and every open level: if it was found below this
  level's call, then in a split the call has tried and a part it has reached (so a
  level just entered has none, `FoundEnter` and `FoundNext`), and, at the level's
  corner, with the history the level began with.

`isTheSameNbHood` looks for the deepest level that both positions have in common and
compares corners; `FoundIn` for that level and `Nested` give equal histories
(`ValidFound`). `ReusedAlways` follows. For `MotionsAgreeAlways`, `DecodeAgrees`
shows that the decoder's recursive pass gives what `Decodes` describes. It is an
induction over the CUs of a coding; `Induction` proves what it needs for sets of
natural numbers, which have no operator parameter.

**CabacProofs** (any contexts whose rates the code accepts, any sequence of calls of
any length, levels of 15 bits or of extended precision). That a carry finds a byte is
not inductive: `m_Low` knows neither what was written nor what will be added.
`InWindow` bounds the upper end of the interval, `low + range`, by the window. While
no byte is held it is at most 510 / 512 of the window, since the range starts at 510
and the interval only shrinks: so the first byte is never 0xff and never needs a
carry. Afterwards it may pass the window, but by no more than 510 / 8192 of it, the
range against the least window `writeOut` leaves (13 bits, as `m_bitsLeft` is at
most 11 before it); so at most one carry comes, and what is held next is not 0xff.
`ShiftOk` shows that a call that takes a part of the interval and sees it n bits finer
keeps the bound, for n up to 8; `LpsOk` and `RenormOk` that the parts fit, from the
models' estimates (`UpdateOk`; that all of them stay below 2^15 is part of `TypeOK`,
by `ModelsFit`) and the renormalisation table; `WriteOutOk` and
`FinishOk` that the bound is what the bytes need. The provers know no power with a
variable exponent: `Pow` hides it behind a table of 33 (`PowerTable`, `PowerSum`).

The round trip is the rest of the module: `TypeOKAlways`, `DecodedAsCodedAlways` and
`EndsExactlyAlways`, from `RoundTripInv`. Nothing in the state links the two programs:
the encoder's registers are gone when the decoder starts, and what `m_Value` has to be
depends on all that will still be read. What they share is a chain of intervals of
binary fractions, which no variable holds. The invariant says that one exists
(`IsHistory`), together with the contexts before each symbol.

- *An interval* has a lower end, a range and a number of bits (`Spans`), so that all
  of it are natural numbers. `Whole` is the first one; `After` is what a symbol leaves
  of it, written once, for both sides: a bin of a context, the terminating bin, n
  equiprobable bins, the prefix and suffix of an escape code.
- *The encoder* stands for the last one (`Represents`): written bytes, held byte,
  counted 0xff bytes and window are one number, the lower end. A carry changes the bytes
  and not the number (`WriteOutKeeps`, `SettledKeeps`). Each call leads to `After`
  (`EncodedKeeps`), the path for a range of 256 included.
- *The end.* `Ends`: the bytes that `finish`, the stop bit and the alignment produce
  are a number in the part of the terminating bin (`EndOfSliceKeeps`).
- *All at once.* A number that begins in `After` of an interval begins in the
  interval (`AfterStarts`), and so in every one before (`HistoryStarts`). Here the
  order of time is turned round: what the decoder reads first follows from what the
  encoder wrote last.
- *The decoder* is at one of them (`At`): `m_Value` is the distance of the bytes read
  so far from the lower end, seven bits finer, and `m_bitsNeeded` says how many bits of
  the last byte are still to come. As the substream's number is in the part that the
  symbol coded takes, the comparison with the range goes the coder's way
  (`DecodeBinReads`, `DecodedReads`), and no byte is asked for that is not there.
- *Escape codes.* `decodeRemAbsEP` counts ones in a loop, a recursive function of the
  model, which the provers know only by its equation. `PrefixExists` shows with the
  induction of `Induction` that the function is what the equation says, `OnesStart` that
  the loop stops where the encoder's prefix does; `RemNumbers` compares the two ways in
  which prefix and suffix lengths are computed, for every boundary at once.

When the symbols are through, the terminating bin is decoded as set, and the bits left
in the last byte are the stop bit and zeros (`TerminateReads`).

**SliceCodingProofs** (any pictures, grids of tiles and slices, any QP range).
`SubstreamsAgree`, `SubstreamsFit` and `QpArrives` compare three loops that share no
variable, so `Inv` names what they have in common.

- *The history* of a slice (`History`) is a mark after every CTU: the contexts, those
  kept for the row below, the substream and the place in it. It depends on the picture
  alone and on the contexts kept from the slice before, so there is one
  (`HistoryExists`). All four tests are compared with one notion, `Cut`: `CutTests`
  shows, from the geometry of tiles, that the decoder's test on the position of a CTU,
  the encoder's on the next CTU, the context set-up's on the next CTU's tile and row,
  and `setNumEntryPoints`' come out alike.
- *The encoder* is at its mark (`EncAt`), and every symbol so far is in the place the
  marks give it (`Coded`, `Writes`, `Encodes`).
- *In between*, entry points take the slice data apart again (`ExtractedEach`), or it
  stays one stream (`ExtractedOne`). `Layout` says where the decoder finds each CTU in
  either, and `LayoutExists` that there always is a layout. The sizes in the header are
  as many as the substreams because both count cuts (`CutsCounted`,
  `EntryPointsCounted`).
- *The decoder* is at the same mark and has left what the layout says (`DecAt`,
  `Reads`), hence `SubstreamsAgree`. Between two slices the contexts kept for the row
  below are the only thing that goes on, and both have the same.
- *Allocation.* A cut begins a tile or, with WPP, a row of a tile in a column of tiles;
  no two begin the same one, so a slice has no more substreams than `compressGOP`
  counts (`CutsFit`). A slice that begins inside a tile is in that tile only, without
  WPP has no cut, and with WPP has as many as rows.
- *QPs.* A difference taken around the QP range and put back gives the QP (`RoundTrip`).
  In a slice of one tile CTUs come row by row (`RowByRow`), so the CTU above the
  start of a row has been taken before it (`RowAbove`), and none is above the first
  (`NoneAboveFirst`): whatever a loop keeps as the QP before, and wherever it resets
  it, its prediction is the same (`Predicted`). `QpArrivesAlways` has that
  condition on the slices of the picture, and none on constants; for slices of several
  tiles the code does otherwise (`slice_tiles_qp`).

Sequences of sequences are flattened and taken apart with numbers that say where each
begins (`Offsets`, `FlattenIs`, `Flattened`), which stand in for the recursion of
`FlattenSeq`.

**ByteStreamProofs** (units of any number, with any contents that do not end in a zero
byte, of the types that are written; files cut nowhere). All four properties of the run
are proved. `Inv` has four parts.

- *What a unit is in the file.* `Good` and `Coded`: between its start code and the next
  there is no start code, no place where two zeros stand before a byte below 3, and the
  bytes convert to those it was made of, padding included; so none of the CHECKs of
  `convertPayloadToRBSP` fires. `Framed`: there are places `b`, one for each unit
  (`Laid`), and the reader has taken the start code of the next unit or has been put back
  to it (`Ahead`). A long start code, read a byte late, is a short one: a unit is read whole
  from its place or a byte behind it (`Near`, `NextUnitHere`), which is why putting the
  file back by three bytes does no harm.
- *The order of the units* (`Ordered`), as `Placed` lets them in. The look-ahead is a
  recursion over positions (`Look`, taken by its equation); `LookSays` shows, from the
  last unit to the first, that in front of slices and suffix SEI it answers by that unit,
  and that units before a picture always lead to one.
- *The flags* (`Flags`, `Inside`): while `m_bFirstSliceInPicture` is unset, the last unit
  taken was a slice of the target layers or an SEI behind one, nothing was skipped since,
  and the sequence has begun. Without it the loop could put the file back for ever:
  `LoopAdvancesAlways` needs it, and so does the step that takes a unit, since the unit
  that follows must not begin another picture.
- *The pictures* (`Borders`, for `PicturesDelimitedAlways`): the main loop is through
  with an access unit, has met none of its picture yet, or is amid it with exactly
  the units taken of it so far (`Through`, `Before`, `Amid`). Suffix SEI is decoded only
  behind a slice that was (`ReadyNoSuffix`), and behind a picture a unit begins another
  access unit exactly when the look-ahead takes it for the beginning of a picture
  (`StartsFirst`).

For `SubstreamsArriveAlways` the offsets in the slice header are compared with places
in the escaped unit: byte j of the contents is behind the header, the bytes before it and
the escapes before it (`Spread`). The end of the header, which the decoder finds by a
search over escapes, is the place of the last header byte (`EndOfHeaderIs`); the escapes
between two borders are those `countStartCodeEmulations` counts in a substream by itself,
because no substream ends in a zero byte (`EscapesWithinIs`, `CountIsPut`); so the pieces
are the substreams (`CutAsPut`). Recursive functions (zero counts, the emulation count,
borders, the look-ahead, the list of pictures) are known by their equations, and
`Induction` proves what is needed of them for sets of natural numbers.

Only proved, not run: `ListIsRegisteredThreads` and `StartsBelowLimit` of the manager,
and the type invariants of `ThreadMgr`, `UnitPartitioner`, `CompressCU`, `AlfAps` and
`CuTree`.

Only model-checked: liveness (`Terminates`, `EveryLevelEnds`), which is out of the
prover's reach; and the codec (`AcceptsStream`, `BufferBounded`, `EverythingShown` and
its refinement of `PictureOutput`), whose properties compare encoder and decoder over
whole reference structures: an invariant would have to say for any GOP table which pictures
either of them keeps.

## 6. What is not modelled

Listed with reasons in `PROJECT.json`. In the modelled components: the networks
and their input features; motion and intra search (results are arbitrary); the
QP loop and the tools the experiments' configuration switches off (IBC, palette,
hash search, early skip detection); intra sub-partitions; chroma formats other than
4:2:0; subpictures; palette predictors and BCW order at context resets;
quantization groups below a CTU in `SliceCoding`; entry point sizes in bytes;
bit estimation; log texts and command lines. Further:

- *Manager.* Killing the manager alone leaves its encoders running, so that a new
  manager can run a script a second time beside them (`Thread_Mgr.py:60`); the
  model's stop is the machine's.
- *Search tree.* Chroma and the local dual tree (their structures leave the history
  alone), IBC with a history of its own, geometric partitions, spatial and averaged
  candidates, the parallel merge level, several QPs.
- *Codec.* Field coding, layers, long-term references, recovery points, several
  slices, insertion of lost pictures, and the encoder's own run of the leading picture
  checks (`Slice.cpp:1690`).
- *Byte stream.* `isNewAccessUnit`, whose look-ahead restores the file exactly and
  whose record of access units serves a conformance check; several layers; end of
  sequence units, which the encoder does not write; decoding unit SEI between
  slices. Skipped RASL slices are in `Codec`.
- *Filter sets.* Lossless slices that switch the filter off, and the debugging
  options that skip encoding (`EncGOP.cpp:3084`).
- *Parameter sets.* `storePS` of sequence and picture sets and the exchange of a
  changed active set with its predecessor (`ParameterSetManager.h:118`).

## 7. Plan

Done, in this order: the manager, the CNN interface, the search it prunes and the
partitioner beneath, which this repository adds or depends on most; the places where
encoder and decoder must agree without talking (CABAC, slice loops); then encoder and
decoder end to end, the filter sets, the byte stream, and the recursion of the search.

Left, in this order:

1. `SliceData`: entry points in bytes joined with `SliceCoding`, which counts symbols.
2. `ParameterSetMap`: sequence and picture sets, activation while pictures use them.
3. Proofs: for `Codec`, that the decoder's buffer holds at every picture what the encoder
   lists for it, for GOP tables that satisfy what `EncAppCfg` checks.
4. The integer state of rate control, and the stream tools that rewrite POCs.

Runs that ask about the same module are merged, so that each stands for one
question.
