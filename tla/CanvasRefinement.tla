-------------------------- MODULE CanvasRefinement --------------------------
(***************************************************************************)
(* CanvasPipeline implements CanvasContract: the canvas is the hash over   *)
(* the snapshot, the checkpoint is the newest row, and a stroke is at risk *)
(* when it was hashed while a flusher was finishing.                       *)
(***************************************************************************)
EXTENDS CanvasPipeline

Contract == INSTANCE CanvasContract
  WITH canvas <- Canvas, durable <- db.strokes, risk <- unwatched

\* Every step of handlers, worker and TTLs draws one stroke, drops strokes at
\* risk, or makes a checkpoint that has every other stroke of the canvas.
ImplementsContract == Contract!Spec

\* As long as nothing fails, every stroke that is not at risk also reaches a row of
\* the database, by the threshold flush or by the idle job.
StrokesBecomeDurable ==
  \A s \in Strokes : s \in Canvas \ unwatched ~> s \in db.strokes \/ faults > 0
=============================================================================
