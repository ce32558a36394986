----------------------------- MODULE CanvasJoin -----------------------------
(***************************************************************************)
(* A user joins a room whose canvas is being drawn: the part of            *)
(* handleConnection from client.join on, next to all of CanvasPipeline,    *)
(* the USER_DRAW broadcasts on their way to the new socket, and the store  *)
(* of strokes of the user's page.                                          *)
(*                                                                         *)
(* Simplifications: one user joins, once; the checks that precede          *)
(* client.join are in RoomMembers; a socket delivers in order, so the page *)
(* takes a message when the server of the socket sends it.                 *)
(***************************************************************************)
EXTENDS CanvasPipeline

CONSTANT ClocksAgree  \* no browser's clock is ahead of the server's

ASSUME ClockAssumption == ClocksAgree \in BOOLEAN

VARIABLES
  jpc,     \* the call handleConnection makes next
  batch,   \* strokes read so far for CANVAS_STATE
  jrow,    \* the row read and not yet stored in the cache
  wire,    \* USER_DRAW messages that have not reached the server of the socket
  screen,  \* strokes in the store of the page
  late,    \* strokes whose timestamp is not before joinedAt
  kept     \* strokes that have been on the canvas ever since client.join

joiner == <<jpc, batch, jrow>>
joinVars == <<jpc, batch, jrow, wire, screen, late>>
allVars == <<vars, joinVars, kept>>

JoinTypeOK ==
  /\ jpc \in {"join", "read", "cache", "find", "fill", "ready", "gone"}
  /\ batch \subseteq Strokes /\ jrow \subseteq Strokes
  /\ wire \subseteq Events /\ screen \subseteq Strokes /\ late \subseteq Events
  /\ kept \subseteq Strokes

JoinInit ==
  /\ Init
  /\ jpc = "join" /\ batch = {} /\ jrow = {}
  /\ wire = {} /\ screen = {} /\ late = {} /\ kept = Canvas

InRoom == jpc \notin {"join", "gone"}

\* handleDraw broadcasts a stroke it could hash. The stroke carries the time of
\* the browser that drew it, earlier than the server's time now.
Draw(e) ==
  /\ HashStroke(e)
  /\ wire' = wire \cup (accepted' \ accepted)
  /\ late' \in {late} \cup IF InRoom \/ ~ClocksAgree THEN {late \cup {e}} ELSE {}
  /\ UNCHANGED <<joiner, screen>>

\* Through the Redis adapter and the socket, if it is in the room by then;
\* addDrawEvent appends.
Deliver(e) ==
  /\ e \in wire
  /\ wire' = wire \ {e}
  /\ screen' = IF InRoom THEN screen \cup {e} ELSE screen
  /\ UNCHANGED <<vars, joiner, late>>

-----------------------------------------------------------------------------
(* handleConnection.                                                       *)

\* A failed call disconnects the socket.
Disconnect ==
  /\ Outcome(FALSE)
  /\ jpc' = "gone" /\ batch' = {} /\ jrow' = {}
  /\ UNCHANGED screen

\* client.join, then joinedAt.
JoinRoom ==
  /\ jpc = "join"
  /\ jpc' = "read"
  /\ UNCHANGED <<vars, batch, jrow, wire, screen, late>>

\* Pending strokes, but those that are later than joinedAt and will be broadcast.
JoinReadsPending ==
  /\ jpc = "read"
  /\ \/ jpc' = "cache" /\ batch' = pending \ late /\ UNCHANGED <<jrow, screen, faults>>
     \/ Disconnect
  /\ UNCHANGED <<handlers, pending, snap, db, lock, job, clock, ghosts, wire, late>>

\* CANVAS_STATE: setDrawEvents replaces what the page had.
SendState(state) ==
  /\ jpc' = "ready"
  /\ screen' = state
  /\ batch' = {} /\ jrow' = {}

\* Faulty variant: a snapshot that cannot be read is taken for an empty one.
JoinReadsCacheIgnoringError ==
  /\ jpc = "cache"
  /\ \/ snap.there /\ SendState(batch \cup snap.strokes) /\ UNCHANGED faults
     \/ ~snap.there /\ jpc' = "find" /\ UNCHANGED <<batch, jrow, screen, faults>>
     \/ Outcome(FALSE) /\ SendState(batch)
  /\ UNCHANGED <<handlers, pending, snap, db, lock, job, clock, ghosts, wire, late>>

\* getLatestSnapshot: the cached snapshot.
JoinReadsCache ==
  /\ jpc = "cache"
  /\ \/ snap.there /\ SendState(batch \cup snap.strokes) /\ UNCHANGED faults
     \/ ~snap.there /\ jpc' = "find" /\ UNCHANGED <<batch, jrow, screen, faults>>
     \/ Disconnect
  /\ UNCHANGED <<handlers, pending, snap, db, lock, job, clock, ghosts, wire, late>>

\* Faulty variant: the row is used where its payload is meant.
JoinFindsWholeRow ==
  /\ jpc = "find"
  /\ jpc' = "fill" /\ jrow' = {db} /\ UNCHANGED <<batch, screen, faults>>
  /\ UNCHANGED <<handlers, pending, snap, db, lock, job, clock, ghosts, wire, late>>

\* getLatestSnapshot: the newest row.
JoinFindsLatest ==
  /\ jpc = "find"
  /\ \/ db.timestamp = 0 /\ SendState(batch) /\ UNCHANGED faults
     \/ /\ db.timestamp # 0
        /\ jpc' = "fill" /\ jrow' = db.strokes /\ UNCHANGED <<batch, screen, faults>>
     \/ Disconnect
  /\ UNCHANGED <<handlers, pending, snap, db, lock, job, clock, ghosts, wire, late>>

\* getLatestSnapshot: the row goes into the cache, without the lock; a failure is
\* only logged.
JoinFillsCache ==
  /\ jpc = "fill"
  /\ \E ok \in BOOLEAN :
       Outcome(ok) /\ snap' \in Applied(ok, Stored(jrow, TRUE), snap)
  /\ SendState(batch \cup jrow)
  /\ UNCHANGED <<handlers, pending, db, lock, job, clock, ghosts, wire, late>>

HandleConnection == JoinReadsPending \/ JoinReadsCache \/ JoinFindsLatest \/ JoinFillsCache

JoinStep ==
  \/ Background /\ UNCHANGED joinVars
  \/ \E e \in Events : Draw(e) \/ Deliver(e)
  \/ JoinRoom \/ HandleConnection

\* Until client.join, what is on the canvas; then what has not left it.
Track == kept' = IF jpc = "join" THEN Canvas' ELSE kept \cap Canvas'

JoinNext == JoinStep /\ Track

JoinSpec == JoinInit /\ [][JoinNext]_allVars

-----------------------------------------------------------------------------
(* Properties.                                                             *)

\* The user who joined is sent every stroke that was on the canvas when client.join
\* returned and has not left it, whatever flushes, evictions and failures moved or
\* copied strokes meanwhile: the hash is read before the snapshot, and a flush writes
\* the snapshot before it deletes the hash. It takes clocks that agree: a stroke from
\* a browser that is ahead of the server is left out.
JoinerHasTheCanvas == ClocksAgree /\ jpc = "ready" => kept \subseteq screen

=============================================================================
