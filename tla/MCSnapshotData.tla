--------------------------- MODULE MCSnapshotData ---------------------------
(* SnapshotData with strokes at the boundaries of the DTOs and the wire.   *)
EXTENDS SnapshotData

CONSTANTS red, word, digits, odd

Strings == {red, Empty}

\* "a" and "3", and an object that JavaScript makes no primitive value of.
Values == {word, digits, odd}
Doubles == [v \in Values |-> IF v = digits THEN 3 ELSE NaN]

Stroke(type, width, time) ==
  [type |-> type, strokeColor |-> red, strokeWidth |-> width, timestamp |-> time,
   points |-> None, fillStyle |-> None, from |-> None, to |-> None, radius |-> None,
   center |-> None]

Origin == [x |-> 0, y |-> 0]
Corner == [x |-> 3, y |-> 0]

Line(width, time, color) ==
  [Stroke("line", width, time) EXCEPT !.from = Origin, !.to = Corner, !.strokeColor = color]
Circle(radius, time, fill) ==
  [Stroke("circle", 10, time) EXCEPT !.center = Corner, !.radius = radius, !.fillStyle = fill]
Polygon(points, time, fill) ==
  [Stroke("polygon", 500, time) EXCEPT !.points = points, !.fillStyle = fill]

Blank == [x |-> None, y |-> word]
Text == [x |-> digits, y |-> 1]

\* A line between what are no points, a circle around a centre in quotes, and a line with
\* fields of the other types.
Malformed ==
  {[Line(10, 1, red) EXCEPT !.from = Blank, !.to = Text],
   [Circle(1, 2, None) EXCEPT !.center = Text],
   [Line(10, 1, red) EXCEPT !.points = <<Blank>>, !.radius = odd]}

\* Points at the origin, a transparent fill without a colour, no points, a width that is
\* not whole; widths and radii the DTOs refuse; equal and different timestamps.
Samples ==
  {Line(10, 1, Empty), Line(15, 1, red), Line(5, 1, red), Line(510, 1, red), Circle(0, 1, None),
   Circle(1, 1, [color |-> Empty, opacity |-> 0]), Polygon(<<>>, 2, None),
   Polygon(<<Corner, Origin>>, 2, [color |-> red, opacity |-> 1]),
   Polygon(<<>>, 2, [color |-> red, opacity |-> 2]), Polygon(<<Text>>, 2, None)}
  \union Malformed
=============================================================================
