---------------------------- MODULE MCDrawingBoard ----------------------------
(* DrawingBoard with interchangeable rooms and points and few strokes.           *)
EXTENDS DrawingBoard, TLC

Symmetry == Permutations(Points) \cup Permutations(Rooms)
===============================================================================
