--------------------------- MODULE MCSliceCoding ---------------------------
EXTENDS SliceCoding

\* the grids of a picture of width x height CTUs: any tile columns and rows
Grids(width, height) ==
  {[width |-> width, height |-> height, cols |-> {0} \cup cs, rows |-> {0} \cup rs] :
     cs \in SUBSET (1 .. width - 1), rs \in SUBSET (1 .. height - 1)}

\* n tiles dealt to slices in raster order, a slice ending at each cut
TilesInSlices(n, cuts) ==
  LET ends   == cuts \cup {n}
      end(i) == CHOOSE e \in ends : Cardinality({f \in ends : f <= e}) = i
  IN [i \in 1 .. Cardinality(ends) |-> end(i) - (IF i = 1 THEN 0 ELSE end(i - 1))]

RasterSliceMaps(g) ==
  LET n == Len(Tiles(g)) IN {RasterSlices(g, TilesInSlices(n, cuts)) : cuts \in SUBSET (1 .. n - 1)}
SliceMaps(g) ==
  RasterSliceMaps(g) \cup {ColumnSlices(g)} \cup {RowSlices(g, h) : h \in 1 .. g.height}

PicturesOf(gs, wpp, entryPoints, qps) ==
  UNION {{[grid |-> g, slices |-> s, wpp |-> w, entryPoints |-> e, qps |-> qps] :
            s \in SliceMaps(g), w \in wpp, e \in entryPoints} : g \in gs}

\* where substreams end: large pictures, at one QP
StreamPictures == PicturesOf(Grids(3, 3) \cup Grids(2, 4) \cup Grids(1, 2), BOOLEAN, BOOLEAN, {})
\* which QP arrives: smaller ones with every slice in one tile, QPs at the ends of
\* the range
QpPictures ==
  {p \in PicturesOf(Grids(3, 2) \cup Grids(2, 3), BOOLEAN, {TRUE}, {-12, 63}) :
     \A i \in DOMAIN p.slices : InOneTile(p.grid, p.slices[i])}
AllPictures == StreamPictures \cup QpPictures

MultiTilePictures == PicturesOf(Grids(2, 2), BOOLEAN, BOOLEAN, {31})
=============================================================================
