--------------------------- MODULE CanvasContract ---------------------------
(***************************************************************************)
(* What the write path of a canvas promises: strokes join the canvas one   *)
(* by one, stay there unless they were drawn at risk, and every checkpoint *)
(* holds all of the canvas that is not at risk and nothing else.           *)
(***************************************************************************)
CONSTANT Strokes

VARIABLES
  canvas,   \* strokes that a user who joins now is sent
  durable,  \* strokes of the newest checkpoint in the database
  risk      \* strokes drawn at a moment when a flush may drop them

vars == <<canvas, durable, risk>>

Init ==
  /\ durable \subseteq Strokes
  /\ canvas = durable
  /\ risk = {}

Draw(s) ==
  /\ canvas' = canvas \cup {s}
  /\ risk' \in {risk, risk \cup {s}}
  /\ UNCHANGED durable

\* A flush drops strokes at risk, never another one.
Vanish ==
  /\ \E lost \in SUBSET risk : canvas' = canvas \ lost
  /\ UNCHANGED <<durable, risk>>

\* A checkpoint is complete, but for strokes at risk.
Checkpoint ==
  /\ durable' \in SUBSET Strokes
  /\ canvas \ risk \subseteq durable' /\ durable' \subseteq canvas \cup risk
  /\ UNCHANGED <<canvas, risk>>

Next == (\E s \in Strokes : Draw(s)) \/ Vanish \/ Checkpoint

Spec == Init /\ [][Next]_vars
=============================================================================
