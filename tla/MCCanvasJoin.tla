---------------------------- MODULE MCCanvasJoin ----------------------------
(* CanvasJoin on a few strokes.                                            *)
EXTENDS CanvasJoin, TLC

\* Strokes are interchangeable.
StrokeSymmetry == Permutations(Events)
=============================================================================
