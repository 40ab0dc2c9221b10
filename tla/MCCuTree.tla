----------------------------- MODULE MCCuTree -----------------------------
(* CTUs for CuTree.                                                         *)
EXTENDS CuTree

Found(m, a) == [mode |-> m, arg |-> a]
Candidates == {Found("new", 1), Found("merge", 1), Found("merge", 2)}

Units(w, h) == {Area(x, y, 1, 1) : x \in 0 .. w - 1, y \in 0 .. h - 1}
Halves == {Area(0, 0, 2, 1), Area(0, 1, 2, 1), Area(0, 0, 1, 2), Area(1, 0, 1, 2)}
Pairs == {Area(x, 0, 2, 1) : x \in 0 .. 2}
Square == Area(0, 0, 2, 2)
Row == Area(0, 0, 4, 1)

\* A square of four units: quad split, or split twice in either order.  The
\* units vary, of the halves the upright ones have motion of their own.
Squares ==
  {[area |-> Square, lut |-> <<7>>, qtBeforeBt |-> qt,
    content |-> (Square :> Found("affine", 0)) @@ c @@
                [a \in Halves |-> IF a.w = 1 THEN Found("new", 2) ELSE Found("merge", 1)]] :
     qt \in BOOLEAN, c \in {c \in [Units(2, 2) -> Candidates] : c[Area(0, 0, 1, 1)].arg = 1}}

\* A row of four units, split in two and in two again, or in three.
Rows ==
  {[area |-> Row, lut |-> <<8, 7>>, qtBeforeBt |-> TRUE,
    content |-> (Row :> Found("new", 3)) @@ c @@
                [a \in Pairs |-> IF a.x = 0 THEN Found("new", 2) ELSE Found("merge", a.x)]] :
     c \in [Units(4, 1) -> Candidates \cup {Found("intra", 0)}]}

MCCtus == Squares \cup Rows
=============================================================================
