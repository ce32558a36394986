-------------------------- MODULE MCCanvasPipeline --------------------------
(* CanvasPipeline and its contract on a few strokes.                       *)
EXTENDS CanvasRefinement, TLC

\* Strokes are interchangeable.
StrokeSymmetry == Permutations(Events)
=============================================================================
