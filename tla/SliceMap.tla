----------------------------- MODULE SliceMap -----------------------------
(***************************************************************************)
(* How a picture of CTUs is cut into tiles and its tiles into slices       *)
(* (PPS::initTiles, initRasterSliceMap, initRectSliceMap).  A grid has the *)
(* width and height in CTUs and the first column and row of every tile; a  *)
(* slice is the sequence of its CTU addresses in coding order.             *)
(***************************************************************************)
EXTENDS Naturals, FiniteSetsExt, SequencesExt

X(g, a) == a % g.width
Y(g, a) == a \div g.width

\* m_tileColBd, m_tileRowBd without the end of the picture
TileColBd(g, x) == Max({c \in g.cols : c <= x})
TileRowBd(g, y) == Max({r \in g.rows : r <= y})
TileColEnd(g, x) == Min({c \in g.cols \cup {g.width} : c > x})
TileRowEnd(g, y) == Min({r \in g.rows \cup {g.height} : r > y})

IsTileColBd(g, a) == X(g, a) \in g.cols
IsTileRowBd(g, a) == Y(g, a) \in g.rows

\* a tile is named by its first column and row
TileOf(g, a) == <<TileColBd(g, X(g, a)), TileRowBd(g, Y(g, a))>>

\* the tiles in raster order: the bounds of each
Tiles(g) ==
  LET cols == SetToSortSeq(g.cols, <)
      rows == SetToSortSeq(g.rows, <)
      n    == Len(cols)
  IN [i \in 1 .. n * Len(rows) |-> <<cols[((i - 1) % n) + 1], rows[((i - 1) \div n) + 1]>>]

\* addCtusToSlice
Ctus(g, startX, stopX, startY, stopY) ==
  LET w == stopX - startX
  IN [i \in 1 .. w * (stopY - startY) |->
        (startY + (i - 1) \div w) * g.width + startX + ((i - 1) % w)]

CtusOfTile(g, t) == Ctus(g, t[1], TileColEnd(g, t[1]), t[2], TileRowEnd(g, t[2]))

\* initRasterSliceMap: the next numTiles[i] tiles make slice i
RasterSlices(g, numTiles) ==
  LET before(i) == SumFunction(SubSeq(numTiles, 1, i - 1))
  IN [i \in DOMAIN numTiles |->
        FlattenSeq([k \in 1 .. numTiles[i] |-> CtusOfTile(g, Tiles(g)[before(i) + k])])]

\* initRectSliceMap, complete tiles within a slice: here, columns of tiles
ColumnSlices(g) ==
  LET cols == SetToSortSeq(g.cols, <)
      rows == SetToSortSeq(g.rows, <)
  IN [i \in DOMAIN cols |-> FlattenSeq([j \in DOMAIN rows |-> CtusOfTile(g, <<cols[i], rows[j]>>)])]

\* and multiple slices within a single tile: every tile is cut into slices of
\* heightInCtu rows, the last taking what is left
SlicesOfTile(g, t, heightInCtu) ==
  LET stop == TileRowEnd(g, t[2])
      n    == (stop - t[2] + heightInCtu - 1) \div heightInCtu
      top(i) == t[2] + (i - 1) * heightInCtu
  IN [i \in 1 .. n |->
        Ctus(g, t[1], TileColEnd(g, t[1]), top(i), IF i = n THEN stop ELSE top(i + 1))]
RowSlices(g, heightInCtu) ==
  FlattenSeq([i \in DOMAIN Tiles(g) |-> SlicesOfTile(g, Tiles(g)[i], heightInCtu)])

\* checkSliceMap: every CTU of the picture is in one slice, once
CheckSliceMap(g, slices) ==
  LET all == FlattenSeq(slices)
  IN Len(all) = g.width * g.height /\ ToSet(all) = 0 .. g.width * g.height - 1

\* what initTiles makes of a picture
IsGrid(g) ==
  /\ g.width \in Nat \ {0} /\ g.height \in Nat \ {0}
  /\ g.cols \subseteq 0 .. g.width - 1 /\ 0 \in g.cols
  /\ g.rows \subseteq 0 .. g.height - 1 /\ 0 \in g.rows

\* addCtusToSlice row by row of a tile, then the next tile
Follows(g, a, b) ==
  \/ TileOf(g, b) = TileOf(g, a) /\ Y(g, b) = Y(g, a) /\ X(g, b) = X(g, a) + 1
  \/ /\ X(g, a) + 1 = TileColEnd(g, X(g, a)) /\ IsTileColBd(g, b)
     /\ \/ TileOf(g, b) = TileOf(g, a) /\ Y(g, b) = Y(g, a) + 1
        \/ /\ TileOf(g, b) # TileOf(g, a) /\ IsTileRowBd(g, b)
           /\ Y(g, a) + 1 = TileRowEnd(g, Y(g, a))

\* A slice of either map is complete tiles, or complete rows of one tile.
InOneTile(g, s) == \A a, b \in ToSet(s) : TileOf(g, a) = TileOf(g, b)
IsSlice(g, s) ==
  /\ s # << >> /\ s \in Seq(0 .. g.width * g.height - 1)
  /\ \A i \in 1 .. Len(s) - 1 : Follows(g, s[i], s[i + 1])
  /\ IsTileColBd(g, s[1])
  /\ IsTileRowBd(g, s[1]) \/ InOneTile(g, s)
=============================================================================
