----------------------------- MODULE DrawingBoard -----------------------------
(***************************************************************************)
(* The page of one user who draws: the toolbar and the canvas of the       *)
(* website (room-canvas.tsx), the stores that outlive the page             *)
(* (toolbar-state.ts, room-state.ts), the messages it exchanges with the   *)
(* server, and what the gateway does with a stroke: RoomRoleGuard,         *)
(* DrawEventValidationPipe, the HSET of handleDraw and its broadcast.      *)
(*                                                                         *)
(* Simplifications:                                                        *)
(*  - React renders and runs its effects before the next event, which is   *)
(*    what it does for stores read by useSyncExternalStore;                *)
(*  - other users draw lines, and their pages are not looked at;           *)
(*  - what the server keeps of a room is one set. That flushes move strokes *)
(*    from the hash into snapshots is in CanvasPipeline, and in CanvasJoin  *)
(*    what a joiner reads meanwhile; here it is why CANVAS_STATE may have   *)
(*    strokes that the filter of the hash would not let pass;               *)
(*  - a stroke has no style, and of its points only what a check looks at.  *)
(***************************************************************************)
EXTENDS Integers, Sequences, FiniteSets, SequencesExt

CONSTANTS
  Rooms,
  Points,      \* places on the canvas
  Roles,
  None,
  MaxStrokes,  \* how many strokes are drawn
  MaxCorners,  \* how many corners a polygon may get
  MaxFaults    \* how many emits are dropped and HSETs fail

Tools == {"cursor", "line", "circle", "polygon"}
RoleOrNone == Roles \cup {None}
PointOrNone == Points \cup {None}
Ids == 1..MaxStrokes

ASSUME NoneAssumption == None \notin Rooms \cup Points \cup {"ADMIN", "EDITOR", "VIEWER"}
ASSUME BoundAssumption ==
  MaxStrokes \in Nat /\ MaxCorners \in Nat /\ MaxFaults \in Nat
ASSUME RoleAssumption == Roles \subseteq {"ADMIN", "EDITOR", "VIEWER"}

\* Of the shape of a stroke: how many points it has, and whether they are all one.
Strokes == [id : Ids, type : Tools \ {"cursor"}, corners : Nat, dot : BOOLEAN,
            own : BOOLEAN]
Previews == [type : Tools, points : Seq(Points)]
NoPreview == [type |-> "cursor", points |-> <<>>]
Entries == [pc : {"out", "joined", "informed", "in"}, role : RoleOrNone,
            early : SUBSET Strokes, ahead : SUBSET Strokes]
Outside == [pc |-> "out", role |-> None, early |-> {}, ahead |-> {}]
Messages == [kind : {"state", "draw", "undo", "info"}, strokes : SUBSET Strokes,
             id : Ids \cup {0}, role : RoleOrNone]

VARIABLES
  room,           \* the room whose page is open, or None
  drawEvents,     \* the strokes of the page, in the order they are painted
  ready,          \* clientReady and serverReady
  role,           \* userInfo.role
  tool,           \* the tool in hand
  lineStart, circleCenter, polygonPoints, preview,  \* the refs of RoomCanvas
  outbox,         \* USER_DRAW on its way to the server
  inbox,          \* messages on their way to the page
  first,          \* the least stroke of the page's socket, as it was opened
  entry,          \* handleConnection of that socket: [pc, role, early, ahead]
  clientData,     \* client.data.role of that socket, None until it has joined
  underway,       \* own strokes whose HSET is under way, for each room
  canvas,         \* the strokes the server keeps for each room
  unsent,         \* strokes that are hashed and not yet broadcast
  nextId,
  faults,
  astray          \* history: strokes that the page and the server disagree about

gesture == <<lineStart, circleCenter, polygonPoints, preview>>
wires == <<outbox, inbox>>
socket == <<first, entry, clientData>>
store == <<underway, canvas, unsent>>
server == <<socket, store>>
vars == <<room, drawEvents, ready, role, tool, lineStart, circleCenter,
          polygonPoints, preview, outbox, inbox, first, entry, clientData, underway, canvas,
          unsent, nextId, faults, astray>>

IdsOf(S) == {s.id : s \in S}

TypeOK ==
  /\ room \in Rooms \cup {None}
  /\ Range(drawEvents) \subseteq Strokes
  /\ ready \in BOOLEAN /\ role \in RoleOrNone
  /\ tool \in Tools
  /\ lineStart \in PointOrNone /\ circleCenter \in PointOrNone
  /\ polygonPoints \in Seq(Points) /\ preview \in Previews
  /\ Range(outbox) \subseteq Strokes
  /\ Range(inbox) \subseteq Messages
  /\ first \in 1..(MaxStrokes + 1) /\ entry \in Entries /\ clientData \in RoleOrNone
  /\ underway \in [Rooms -> SUBSET Strokes] /\ canvas \in [Rooms -> SUBSET Strokes]
  /\ unsent \subseteq Ids
  /\ nextId \in 1..(MaxStrokes + 1) /\ faults \in 0..MaxFaults /\ astray \subseteq Ids

Init ==
  /\ room = None /\ drawEvents = <<>> /\ ready = FALSE /\ role = None
  /\ tool = "cursor"
  /\ lineStart = None /\ circleCenter = None /\ polygonPoints = <<>> /\ preview = NoPreview
  /\ outbox = <<>> /\ inbox = <<>>
  /\ first = 1 /\ entry = Outside /\ clientData = None
  /\ underway = [r \in Rooms |-> {}] /\ canvas = [r \in Rooms |-> {}] /\ unsent = {}
  /\ nextId = 1 /\ faults = 0 /\ astray = {}

Message(kind, strokes, id, ro) == [kind |-> kind, strokes |-> strokes, id |-> id, role |-> ro]

Fault == faults < MaxFaults /\ faults' = faults + 1

-----------------------------------------------------------------------------
(* RoomCanvas. Its effect on [tool, redraw] throws away whatever is being  *)
(* drawn, and redraw is new each time the strokes of the page are.         *)

\* Faulty variant: the corners of a polygon survive a change of the tool.
ForgetAnchors ==
  /\ lineStart' = None /\ circleCenter' = None
  /\ preview' = NoPreview /\ UNCHANGED polygonPoints

ForgetGesture ==
  /\ lineStart' = None /\ circleCenter' = None
  /\ polygonPoints' = <<>> /\ preview' = NoPreview

\* The canvas is on the screen.
Visible == room # None /\ ready

\* ToolbarPanel.handleToolChange; the effect does not run when the tool stays the same.
PickTool(t) ==
  /\ Visible
  /\ tool' = IF role = "VIEWER" THEN "cursor" ELSE t
  /\ tool' # tool /\ ForgetGesture
  /\ UNCHANGED <<room, drawEvents, ready, role, wires, server, nextId, faults, astray>>

\* The page adds its own stroke and emits it as a volatile message, which is
\* dropped when the transport cannot take it.
HandleDraw(type, points) ==
  LET s == [id |-> nextId, type |-> type, corners |-> Len(points),
            dot |-> Cardinality(Range(points)) = 1, own |-> TRUE]
  IN /\ nextId \in Ids /\ nextId' = nextId + 1
     /\ drawEvents' = Append(drawEvents, s)
     /\ ForgetGesture
     /\ \/ outbox' = Append(outbox, s) /\ UNCHANGED <<faults, astray>>
        \/ Fault /\ astray' = astray \cup {s.id} /\ UNCHANGED outbox

OnlyGesture ==
  UNCHANGED <<room, drawEvents, ready, role, tool, wires, server, nextId, faults, astray>>

Unseen == UNCHANGED <<room, ready, role, tool, inbox, server>>

MouseDown(p) ==
  /\ Visible
  /\ \/ /\ tool = "line" /\ lineStart' = p /\ UNCHANGED <<circleCenter, polygonPoints>>
     \/ /\ tool = "circle" /\ circleCenter' = p /\ UNCHANGED <<lineStart, polygonPoints>>
  /\ preview' = NoPreview
  /\ OnlyGesture

MouseUp(p) ==
  /\ Visible
  /\ \/ tool = "line" /\ lineStart # None /\ HandleDraw("line", <<lineStart, p>>)
     \/ tool = "circle" /\ circleCenter # None /\ HandleDraw("circle", <<circleCenter, p>>)
  /\ Unseen

\* A click with detail 1; the second click of a double click is ignored.
Click(p) ==
  /\ Visible /\ tool = "polygon" /\ Len(polygonPoints) < MaxCorners
  /\ polygonPoints' = Append(polygonPoints, p)
  /\ preview' = [type |-> "polygon", points |-> polygonPoints']
  /\ UNCHANGED <<lineStart, circleCenter>>
  /\ OnlyGesture

DoubleClick ==
  /\ Visible /\ tool = "polygon" /\ Len(polygonPoints) >= 3
  /\ HandleDraw("polygon", polygonPoints)
  /\ Unseen

\* Faulty variant: a line is previewed although the mouse was not pressed.
MouseMoveUnpressed(p) ==
  /\ Visible
  /\ \/ /\ tool = "line"
        /\ preview' = [type |-> "line", points |-> <<lineStart, p>>]
     \/ /\ tool = "circle" /\ circleCenter # None
        /\ preview' = [type |-> "circle", points |-> <<circleCenter, p>>]
     \/ /\ tool = "polygon" /\ polygonPoints # <<>>
        /\ preview' = [type |-> "polygon", points |-> Append(polygonPoints, p)]
  /\ UNCHANGED <<lineStart, circleCenter, polygonPoints>>
  /\ OnlyGesture

MouseMove(p) ==
  /\ Visible
  /\ \/ /\ tool = "line" /\ lineStart # None
        /\ preview' = [type |-> "line", points |-> <<lineStart, p>>]
     \/ /\ tool = "circle" /\ circleCenter # None
        /\ preview' = [type |-> "circle", points |-> <<circleCenter, p>>]
     \/ /\ tool = "polygon" /\ polygonPoints # <<>>
        /\ preview' = [type |-> "polygon", points |-> Append(polygonPoints, p)]
  /\ UNCHANGED <<lineStart, circleCenter, polygonPoints>>
  /\ OnlyGesture

-----------------------------------------------------------------------------
(* The gateway, for the strokes of this user: guard, pipe, handleDraw.     *)

MayDraw == clientData \in {"ADMIN", "EDITOR"}

\* DrawEventValidationPipe wants circles of a positive radius; what else it wants of
\* a stroke is in SnapshotData.
Valid(s) == s.type = "circle" => ~s.dot

\* A refusal reaches the page as an error message, not as ROOM_UNDO_DRAW.
Refuse(s) ==
  /\ ~(MayDraw /\ Valid(s))
  /\ astray' = astray \cup {s.id} /\ UNCHANGED underway

Accept(s) ==
  /\ MayDraw /\ Valid(s)
  /\ underway' = [underway EXCEPT ![room] = @ \cup {s}] /\ UNCHANGED astray

ServerReceives ==
  /\ outbox # <<>> /\ outbox' = Tail(outbox)
  /\ LET s == Head(outbox) IN Refuse(s) \/ Accept(s)
  /\ UNCHANGED <<room, drawEvents, ready, role, tool, gesture, inbox, socket, canvas, unsent,
                 nextId, faults>>

Store(r, s) == canvas' = [canvas EXCEPT ![r] = @ \cup {s}]
Ends(r, s) == s \in underway[r] /\ underway' = [underway EXCEPT ![r] = @ \ {s}]

\* The socket that sent the stroke is that of the page.
FromHere(s) == room # None /\ s.own /\ s.id >= first

\* The HSET, whether or not the user is still there.
HashStroke(r) ==
  /\ \E s \in underway[r] : Ends(r, s) /\ Store(r, s) /\ unsent' = unsent \cup {s.id}
  /\ UNCHANGED <<room, drawEvents, ready, role, tool, gesture, wires, socket, nextId, faults,
                 astray>>

\* Faulty variant: a failure is only logged.
HashFailsSilently(r) ==
  /\ \E s \in underway[r] : Ends(r, s)
  /\ Fault
  /\ UNCHANGED <<room, drawEvents, ready, role, tool, gesture, wires, socket, canvas, unsent,
                 nextId, astray>>

\* hSetInCache failed: the page is told to undo, also when HSET was carried out
\* and only EXPIRE failed.
HashFails(r) ==
  /\ \E s \in underway[r] :
       /\ Ends(r, s)
       /\ inbox' = IF FromHere(s) THEN Append(inbox, Message("undo", {}, s.id, None)) ELSE inbox
       /\ \/ UNCHANGED <<canvas, astray>>
          \/ Store(r, s) /\ astray' = astray \cup {s.id}
  /\ Fault
  /\ UNCHANGED <<room, drawEvents, ready, role, tool, gesture, outbox, socket, unsent, nextId>>

\* The broadcast goes to whoever is in the room but the socket that sent the stroke: the
\* user who has left and come back meanwhile gets it too.
Broadcast(r) ==
  /\ \E s \in canvas[r] :
       /\ s.id \in unsent /\ unsent' = unsent \ {s.id}
       /\ inbox' = IF room = r /\ clientData # None /\ ~FromHere(s)
                   THEN Append(inbox, Message("draw", {s}, 0, None)) ELSE inbox
  /\ UNCHANGED <<room, drawEvents, ready, role, tool, gesture, outbox, socket, underway, canvas,
                 nextId, faults, astray>>

\* Somebody else draws: handleDraw hashes the stroke, and broadcasts it afterwards.
OtherDraws(r) ==
  /\ nextId \in Ids /\ nextId' = nextId + 1
  /\ canvas' = [canvas EXCEPT ![r] = @ \cup {[id |-> nextId, type |-> "line", corners |-> 2,
                                               dot |-> FALSE, own |-> FALSE]}]
  /\ unsent' = unsent \cup {nextId}
  /\ UNCHANGED <<room, drawEvents, ready, role, tool, gesture, wires, socket, underway,
                 faults, astray>>

-----------------------------------------------------------------------------
(* The gateway, for the socket of the page: handleConnection. When one of  *)
(* its calls fails the socket is disconnected, which is Leave.             *)

\* client.join and client.data. The strokes that are hashed by now have a timestamp before
\* joinedAt, but for those whose clock is ahead of the server's.
Join ==
  /\ room # None /\ entry.pc = "out"
  /\ \E ro \in Roles, ahead \in SUBSET canvas[room] :
       /\ clientData' = ro
       /\ entry' = [pc |-> "joined", role |-> ro, early |-> canvas[room] \ ahead,
                    ahead |-> ahead]
  /\ UNCHANGED <<room, drawEvents, ready, role, tool, gesture, wires, first, store, nextId,
                 faults, astray>>

\* USER_INFO, with the role that was read before the join.
Inform ==
  /\ entry.pc = "joined" /\ entry' = [entry EXCEPT !.pc = "informed"]
  /\ inbox' = Append(inbox, Message("info", {}, 0, entry.role))
  /\ UNCHANGED <<room, drawEvents, ready, role, tool, gesture, outbox, first, clientData, store,
                 nextId, faults, astray>>

\* CANVAS_STATE: what HGETALL and the snapshot have given. Of the strokes that are not
\* early some are in it: hashed before HGETALL with a timestamp before joinedAt, or
\* flushed into the snapshot before it was read.
SendCanvasState ==
  /\ entry.pc = "informed" /\ entry' = [Outside EXCEPT !.pc = "in"]
  /\ \E state \in SUBSET canvas[room] :
       /\ entry.early \subseteq state
       /\ inbox' = Append(inbox, Message("state", state, 0, None))
       /\ astray' = astray \cup IdsOf(entry.ahead \ state)
  /\ UNCHANGED <<room, drawEvents, ready, role, tool, gesture, outbox, first, clientData, store,
                 nextId, faults>>

\* handlePromote of an admin on the same server; bound: one USER_INFO on the wire.
Promote ==
  /\ clientData # None /\ \A i \in DOMAIN inbox : inbox[i].kind # "info"
  /\ \E ro \in Roles \ {clientData} :
       /\ clientData' = ro
       /\ inbox' = Append(inbox, Message("info", {}, 0, ro))
  /\ UNCHANGED <<room, drawEvents, ready, role, tool, gesture, outbox, first, entry, store,
                 nextId, faults, astray>>

-----------------------------------------------------------------------------
(* The page of a room: opening, leaving, and the handlers of messages.     *)

\* A new socket connects. The stores still hold what the last page left in them.
Open(r) ==
  /\ room = None /\ room' = r /\ first' = nextId
  /\ UNCHANGED <<drawEvents, ready, role, tool, gesture, wires, entry, clientData, store,
                 nextId, faults, astray>>

\* The page is left: its socket is disconnected, and what is on the wire is lost. An HSET
\* that is under way goes on.
Leave ==
  /\ room # None /\ room' = None
  /\ inbox' = <<>> /\ outbox' = <<>> /\ clientData' = None /\ entry' = Outside
  /\ astray' = astray \cup IdsOf(Range(outbox))
  /\ ForgetGesture
  /\ UNCHANGED <<drawEvents, ready, role, tool, first, store, nextId, faults>>

\* The numbers of I from the least up.
Ascending(I) ==
  [n \in 1..Cardinality(I) |-> CHOOSE i \in I : Cardinality({j \in I : j <= i}) = n]

\* The strokes of a snapshot in the order of their timestamps.
InOrder(S) ==
  LET ids == Ascending(IdsOf(S))
  IN [n \in DOMAIN ids |-> CHOOSE s \in S : s.id = ids[n]]

\* The strokes of the page but those of an id, in the order they have.
Without(id) ==
  LET places == Ascending({i \in DOMAIN drawEvents : drawEvents[i].id # id})
  IN [n \in DOMAIN places |-> drawEvents[places[n]]]

\* CANVAS_STATE replaces the strokes of the page, also those that the user has drawn
\* since the page was opened and that are still on their way, and those of others
\* that were broadcast while CANVAS_STATE was being put together.
HandleCanvasState(m) ==
  /\ drawEvents' = InOrder(m.strokes) /\ ready' = TRUE
  /\ astray' = astray \cup (IdsOf(Range(drawEvents))
                              \cap IdsOf(Range(outbox) \cup underway[room]
                                           \cup (canvas[room] \ m.strokes)))
  /\ ForgetGesture /\ UNCHANGED role

\* USER_DRAW. A stroke that was hashed before CANVAS_STATE was read and broadcast
\* after it comes a second time.
HandleDrawEvent(m) ==
  /\ drawEvents' = drawEvents \o InOrder(m.strokes)
  /\ ForgetGesture /\ UNCHANGED <<ready, role, astray>>

HandleUndoDraw(m) ==
  /\ drawEvents' = Without(m.id)
  /\ ForgetGesture /\ UNCHANGED <<ready, role, astray>>

HandleUserInfo(m) ==
  /\ role' = m.role
  /\ UNCHANGED <<drawEvents, ready, gesture, astray>>

PageReceives ==
  /\ inbox # <<>> /\ inbox' = Tail(inbox)
  /\ LET m == Head(inbox)
     IN \/ m.kind = "state" /\ HandleCanvasState(m)
        \/ m.kind = "draw" /\ HandleDrawEvent(m)
        \/ m.kind = "undo" /\ HandleUndoDraw(m)
        \/ m.kind = "info" /\ HandleUserInfo(m)
  /\ UNCHANGED <<room, tool, outbox, server, nextId, faults>>

Next ==
  \/ \E t \in Tools : PickTool(t)
  \/ \E p \in Points : MouseDown(p) \/ MouseUp(p) \/ Click(p) \/ MouseMove(p)
  \/ DoubleClick
  \/ \E r \in Rooms :
       Open(r) \/ OtherDraws(r) \/ HashStroke(r) \/ HashFails(r) \/ Broadcast(r)
  \/ Leave \/ Join \/ Inform \/ SendCanvasState \/ Promote
  \/ ServerReceives \/ PageReceives

Spec == Init /\ [][Next]_vars

-----------------------------------------------------------------------------
(* Properties.                                                             *)

\* A gesture belongs to the tool in hand and to the page that is open: whatever
\* tools are picked, messages arrive and pages are left in the middle of it, no
\* anchor or corner of another tool stays behind to start the next stroke from,
\* and the preview shows the gesture there is (room-canvas.tsx 152-159); so every
\* stroke that the server keeps can be seen: a polygon has three corners, which only
\* the page sees to (room-canvas.tsx 287-321), and a circle its radius, which
\* DrawEventValidationPipe does (draw-event.dto.ts 100-102).
GestureFitsTool ==
  /\ lineStart # None => tool = "line"
  /\ circleCenter # None => tool = "circle"
  /\ polygonPoints # <<>> => tool = "polygon"
  /\ preview # NoPreview =>
       /\ preview.type = tool
       /\ \/ tool = "line" /\ preview.points[1] = lineStart
          \/ tool = "circle" /\ preview.points[1] = circleCenter
          \/ tool = "polygon" /\ IsPrefix(polygonPoints, preview.points)
  /\ ~Visible => lineStart = None /\ circleCenter = None /\ polygonPoints = <<>>
  /\ \A r \in Rooms : \A s \in canvas[r] :
       (s.type = "polygon" => s.corners >= 3) /\ (s.type = "circle" => ~s.dot)

\* Once the page has its CANVAS_STATE and nothing is on the wire, it has the strokes
\* that the server keeps for its room, those of other rooms that the store held are
\* gone, and a stroke that could not be hashed has been undone. Astray strokes are
\* excepted: dropped by the transport, refused, hashed by half, taken off the page by
\* CANVAS_STATE because they were drawn or broadcast while it was on its way, or
\* filtered out of it because their clock is ahead. What the user has drawn since the
\* page was opened is there once: the broadcast leaves its socket out
\* (rooms-gateway.service.ts 143), and CANVAS_STATE replaces instead of adding.
PageShowsTheCanvas ==
  /\ entry.pc = "in" /\ inbox = <<>> /\ outbox = <<>> =>
       \A i \in Ids \ astray :
         /\ i \in IdsOf(Range(drawEvents)) => i \in IdsOf(canvas[room] \cup underway[room])
         /\ i \in IdsOf(canvas[room]) \ unsent => i \in IdsOf(Range(drawEvents))
  /\ \A i, j \in DOMAIN drawEvents :
       drawEvents[i].own /\ drawEvents[i].id >= first /\ drawEvents[i].id = drawEvents[j].id
         => i = j
===============================================================================
