--------------------------- MODULE MCByteStream ---------------------------
(* Contents for ByteStream: a unit with a byte to escape; slice headers with  *)
(* and without a picture header, with and without escapes; a substream that *)
(* needs no escape, and one that begins with what needs one, goes on with     *)
(* zeros that need none, a byte above 3 being behind them, and ends in two    *)
(* escapes, the second for a byte that looks like one itself.                 *)
EXTENDS ByteStream

MCPayloads   == {<<0, 0, 1>>}
MCHeads      == {<<1>>, <<128>>, <<128, 0, 0, 0, 0, 1>>}
MCSubstreams == {<<128>>, <<0, 0, 2, 0, 0, 128, 0, 0, 0, 0, 3>>}
=============================================================================
