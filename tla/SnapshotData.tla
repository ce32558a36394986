----------------------------- MODULE SnapshotData -----------------------------
(*****************************************************************************)
(* What becomes of the data of a stroke: the checks of the draw event DTOs,  *)
(* the protobuf of the cached snapshot, the JSON of the hash and of the rows *)
(* of Snapshots, and the merge that decides the order of painting.           *)
(* CanvasPipeline takes a snapshot for a set of names and a flush apart into *)
(* its calls; here a flush is one step and a stroke has its fields.          *)
(*                                                                           *)
(* Widths are in tenths, ids and timestamps are numbers, and a string nobody *)
(* looks at is Empty or another colour. The DTOs look at the fields of a     *)
(* stroke's own type, and not into from, to and center: there a client may   *)
(* send anything, missing numbers, strings, objects. Fields that come to the *)
(* hash in another shape than DrawEvent has (points that is no list) behave  *)
(* like an Unwritable number. A message on the wire is a function            *)
(* from the numbers of its fields to their values: readers take the fields   *)
(* as they come. Server and processor have a copy each of the generated code *)
(* and of the merge; the writers are translated from the one, the readers    *)
(* from the other.                                                           *)
(*****************************************************************************)
EXTENDS Integers, Sequences, FiniteSets

CONSTANTS
  Drawn,       \* what clients emit: draw events without an id
  MaxStrokes,  \* how many of them
  Others,      \* JSON where a number is expected
  Double,      \* what DataView.setFloat64 makes of them
  Unwritable,  \* those of them that it throws for
  NaN,
  Colors,      \* strings nobody looks at
  Empty,       \* the empty string
  None         \* undefined or null

Coordinates == Int \union Others \union {None, NaN}
Points == [x : Coordinates, y : Coordinates]
FillStyles == [color : Colors, opacity : Coordinates]
Events == [type : {"line", "circle", "polygon"}, strokeColor : Colors, strokeWidth : Int,
           timestamp : Int, points : Seq(Points) \union {None},
           fillStyle : FillStyles \union {None}, from : Points \union {None},
           to : Points \union {None}, radius : Coordinates, center : Points \union {None}]

ASSUME BoundAssumption == MaxStrokes \in Nat
ASSUME DrawnAssumption == Drawn \subseteq Events
ASSUME NoneAssumption ==
  /\ None \notin Int \union Colors \union Others \union {"line", "circle", "polygon", NaN}
  /\ None \notin Points /\ None \notin FillStyles /\ None \notin Seq(Points)
ASSUME OthersAssumption ==
  /\ (Others \union {NaN}) \intersect Int = {} /\ NaN \notin Others
  /\ Unwritable \subseteq Others /\ Double \in [Others -> Int \union {NaN}]

VARIABLES
  drawn,   \* history: the strokes that were accepted, by id
  hash,    \* the Redis hash of pending strokes: the ids of its fields
  cached,  \* the cached snapshot, as it is on the wire, or NoKey
  row      \* payload of the newest row of Snapshots, <<>> when there is none

vars == <<drawn, hash, cached, row>>

-------------------------------------------------------------------------------
(* DrawEventValidationPipe and the DTOs.                                   *)

AcceptedFill(f) == f = None \/ f.opacity \in 0..1

AcceptedPoints(s) == s # None /\ \A i \in DOMAIN s : s[i].x \in Int /\ s[i].y \in Int

\* from, to and center need only be objects, and what another type has is not looked at.
Accepted(v) ==
  /\ v.strokeWidth \in 10..500 /\ v.timestamp >= 1
  /\ \/ v.type = "line" /\ v.from # None /\ v.to # None
     \/ /\ v.type = "circle" /\ v.center # None /\ AcceptedFill(v.fillStyle)
        /\ v.radius \in Int /\ v.radius > 0
     \/ v.type = "polygon" /\ AcceptedPoints(v.points) /\ AcceptedFill(v.fillStyle)

-------------------------------------------------------------------------------
(* Generated protobuf code. A field is written unless it has its default   *)
(* value: a scalar its zero, a repeated one no element, and an optional one *)
(* and a message unless they are absent.                                   *)

Field(no, default) == [no |-> no, default |-> default]

PointFields == [x |-> Field(1, 0), y |-> Field(2, 0)]

FillStyleFields == [color |-> Field(1, Empty), opacity |-> Field(2, 0)]

DrawEventFields ==
  [id |-> Field(1, Empty), strokeColor |-> Field(2, Empty), strokeWidth |-> Field(3, 0),
   timestamp |-> Field(4, Empty), type |-> Field(5, Empty), points |-> Field(6, <<>>),
   fillStyle |-> Field(7, None), from |-> Field(8, None), to |-> Field(9, None),
   radius |-> Field(10, None), center |-> Field(11, None)]

DrawEventListFields == [events |-> Field(1, <<>>), timestamp |-> Field(2, Empty)]

\* A stroke with f applied to each of its coordinates.
Convert(f, e) ==
  LET point(p) == IF p = None THEN None ELSE [x |-> f[p.x], y |-> f[p.y]]
  IN [e EXCEPT
        !.points = IF @ = None THEN None ELSE [i \in DOMAIN @ |-> point(@[i])],
        !.fillStyle = IF @ = None THEN None ELSE [color |-> @.color, opacity |-> f[@.opacity]],
        !.from = point(@), !.to = point(@), !.center = point(@),
        !.radius = IF @ = None THEN None ELSE f[@]]

\* What create and setFloat64 make of a coordinate: the default of one that is missing.
AsDouble == [c \in Coordinates |->
               IF c = None THEN 0 ELSE IF c \in Others THEN Double[c] ELSE c]

\* What JSON.stringify makes of it.
AsJson == [c \in Coordinates |-> IF c = NaN THEN None ELSE c]

\* create of a partial message: what is absent has its default value.
Partial(fields, m) ==
  [n \in DOMAIN fields |-> IF m[n] # None THEN m[n] ELSE fields[n].default]

\* internalBinaryWrite and internalBinaryRead of a message without messages in it.
Write(fields, m) ==
  LET written == {n \in DOMAIN fields : m[n] # fields[n].default}
  IN [no \in {fields[n].no : n \in written} |-> m[CHOOSE n \in written : fields[n].no = no]]

Read(fields, wire) ==
  [n \in DOMAIN fields |-> IF fields[n].no \in DOMAIN wire THEN wire[fields[n].no]
                          ELSE fields[n].default]

\* The same for the messages in a draw event, by the numbers of their fields.
WriteMember(no, v) ==
  CASE no = 6 -> [i \in DOMAIN v |-> Write(PointFields, v[i])]
    [] no = 7 -> Write(FillStyleFields, v)
    [] no \in {8, 9, 11} -> Write(PointFields, v)
    [] OTHER -> v

ReadMember(no, w) ==
  CASE no = 6 -> [i \in DOMAIN w |-> Read(PointFields, w[i])]
    [] no = 7 -> Read(FillStyleFields, w)
    [] no \in {8, 9, 11} -> Read(PointFields, w)
    [] OTHER -> w

WriteDrawEvent(e) ==
  LET wire == Write(DrawEventFields, e) IN [no \in DOMAIN wire |-> WriteMember(no, wire[no])]

ReadDrawEvent(wire) == Read(DrawEventFields, [no \in DOMAIN wire |-> ReadMember(no, wire[no])])

WriteDrawEventList(l) ==
  Write(DrawEventListFields, [l EXCEPT !.events = [i \in DOMAIN @ |-> WriteDrawEvent(@[i])]])

ReadDrawEventList(wire) ==
  [Read(DrawEventListFields, wire) EXCEPT !.events = [i \in DOMAIN @ |-> ReadDrawEvent(@[i])]]

\* create gives a message a list of points.
PointsOf(e) == IF e.points = None THEN <<>> ELSE e.points

\* All coordinates of a stroke.
Numbers(e) ==
  LET points == {PointsOf(e)[i] : i \in DOMAIN PointsOf(e)}
      messages == points \union {e.fillStyle, e.from, e.to, e.center}
  IN {e.radius} \union UNION {{m[a] : a \in DOMAIN m \ {"color"}} : m \in messages \ {None}}

\* The writer of an int32 throws when the number is not whole, that of a double when there
\* is no number to be made.
Encodable(events) ==
  \A i \in DOMAIN events :
    events[i].strokeWidth % 10 = 0 /\ Numbers(events[i]) \intersect Unwritable = {}

Encode(events, timestamp) ==
  WriteDrawEventList(
    [events |-> [i \in DOMAIN events |-> Partial(DrawEventFields, Convert(AsDouble, events[i]))],
     timestamp |-> timestamp])

Decode(wire) == ReadDrawEventList(wire).events

-------------------------------------------------------------------------------
(* mergeSnapshotsWithPendingEvents, on the places of strokes in a list.    *)

IdsIn(s) == {s[i].id : i \in DOMAIN s}

\* Variant: nothing is left out.
KeepDuplicates(s) == DOMAIN s

\* Where an id comes for the first time.
DedupeById(s) == {i \in DOMAIN s : \A j \in DOMAIN s : s[j].id = s[i].id => i <= j}

\* Array.prototype.sort is stable: a stroke comes after those with an earlier timestamp, and
\* after those before it with the same.
Place(s, kept, i) ==
  Cardinality({j \in kept : \/ s[j].timestamp < s[i].timestamp
                           \/ (s[j].timestamp = s[i].timestamp /\ j <= i)})
SortByTimestamp(s, kept) ==
  [k \in 1..Cardinality(kept) |-> s[CHOOSE i \in kept : Place(s, kept, i) = k]]

\* Variant: the sort is left out.
MergeUnsorted(last, pending) ==
  LET s == last \o pending
      kept == DedupeById(s)
  IN [k \in 1..Cardinality(kept) |->
        s[CHOOSE i \in kept : Cardinality({j \in kept : j <= i}) = k]]

\* Variant: the pending strokes come first.
MergePendingFirst(last, pending) ==
  SortByTimestamp(pending \o last, DedupeById(pending \o last))

MergeSnapshotsWithPendingEvents(last, pending) ==
  SortByTimestamp(last \o pending, DedupeById(last \o pending))

-------------------------------------------------------------------------------
\* The cache has no snapshot: nothing empty is ever encoded.
NoKey == <<>>

Init == drawn = <<>> /\ hash = {} /\ cached = NoKey /\ row = <<>>

\* The orders in which HGETALL may return the strokes of the hash.
Orders ==
  {ids \in [1..Cardinality(hash) -> hash] : \A id \in hash : \E k \in DOMAIN ids : ids[k] = id}
Pendings == {[k \in DOMAIN ids |-> drawn[ids[k]]] : ids \in Orders}

\* getLatestSnapshot, getPreviousSnapshot: the cache, else the newest row.
LatestSnapshot == IF cached # NoKey THEN Decode(cached) ELSE row

\* What the merge of the latest snapshot and the hash can be.
Canvases ==
  {MergeSnapshotsWithPendingEvents(LatestSnapshot, pending) : pending \in Pendings}

\* encodeSnapshot of the newest row, what a server does when it misses the cache.
FillCache == IF row = <<>> \/ ~Encodable(row) THEN NoKey ELSE Encode(row, Empty)

WithId(id, v) ==
  [id |-> id, type |-> v.type, strokeColor |-> v.strokeColor, strokeWidth |-> v.strokeWidth,
   timestamp |-> v.timestamp, points |-> v.points, fillStyle |-> v.fillStyle, from |-> v.from,
   to |-> v.to, radius |-> v.radius, center |-> v.center]

\* A page emits a stroke and the server stores it under a new id.
HandleDraw ==
  /\ Len(drawn) < MaxStrokes
  /\ \E v \in {d \in Drawn : Accepted(d)} :
       /\ drawn' = Append(drawn, WithId(Len(drawn) + 1, v))
       /\ hash' = hash \union {Len(drawn) + 1}
  /\ UNCHANGED <<cached, row>>

\* payload of a new row.
Payload(events) == [i \in DOMAIN events |-> Convert(AsJson, events[i])]

\* Variant: the outcome of the encoding is not looked at before the DEL.
FlushUnchecked(byServer) ==
  /\ hash # {} /\ hash' \in {{}, hash}
  /\ \E merged \in Canvases :
       IF Encodable(merged) THEN cached' = Encode(merged, Empty) /\ row' = Payload(merged)
       ELSE UNCHANGED <<cached, row>>
  /\ UNCHANGED drawn

\* The pending strokes become a snapshot. When it cannot be encoded the flush ends:
\* the cache and the row stay, except that a server has filled the cache by then.
\* DEL may fail, and the hash then keeps what is in the snapshot.
Flush(byServer) ==
  /\ hash # {}
  /\ \E merged \in Canvases :
       IF Encodable(merged)
       THEN /\ cached' = Encode(merged, Empty) /\ row' = Payload(merged)
            /\ hash' \in {{}, hash}
       ELSE /\ cached' = IF byServer /\ cached = NoKey THEN FillCache ELSE cached
            /\ UNCHANGED <<row, hash>>
  /\ UNCHANGED drawn

\* A user joins, and the server reads the latest snapshot.
Join ==
  /\ cached = NoKey /\ cached' = FillCache
  /\ UNCHANGED <<drawn, hash, row>>

\* The cached snapshot reaches its TTL.
ExpireSnapshot == cached' = NoKey /\ UNCHANGED <<drawn, hash, row>>

Next == HandleDraw \/ (\E byServer \in BOOLEAN : Flush(byServer)) \/ Join \/ ExpireSnapshot

Spec == Init /\ [][Next]_vars

-------------------------------------------------------------------------------
(* Properties.                                                             *)

\* A value has its type: the hash holds strokes that were drawn, the cache a message of
\* known fields and the row strokes in order of their timestamps.
TypeOK ==
  /\ Len(drawn) <= MaxStrokes /\ \A i \in DOMAIN drawn : Accepted(drawn[i])
  /\ hash \subseteq DOMAIN drawn
  /\ DOMAIN cached \subseteq {1, 2}
  /\ \A i, j \in DOMAIN row : i < j => row[i].timestamp <= row[j].timestamp

\* n is the message m, but for what was no number.
Keeps(m, n) ==
  /\ m = None <=> n = None
  /\ m # None => \A a \in DOMAIN m : m[a] \in Int \/ a = "color" => n[a] = m[a]

\* e is the stroke d; a message from the wire has no undefined points.
Intact(d, e) ==
  /\ \A n \in {"id", "type", "strokeColor", "strokeWidth", "timestamp"} : e[n] = d[n]
  /\ \A n \in {"fillStyle", "from", "to", "center"} : Keeps(d[n], e[n])
  /\ d.radius \in Int => e.radius = d.radius
  /\ DOMAIN PointsOf(e) = DOMAIN PointsOf(d)
  /\ \A i \in DOMAIN PointsOf(d) : Keeps(PointsOf(d)[i], PointsOf(e)[i])

\* Whatever the order of the hash, whichever of cache and row is read, and however often
\* a stroke was encoded, decoded and merged: CANVAS_STATE has every accepted stroke once,
\* with the id, shape, colours, width and numbers it was drawn with. What came without a
\* number may change (a missing one becomes 0, a word NaN and then 0), and takes no number
\* of this or of another stroke with it.
StrokesStayIntact ==
  \A canvas \in Canvases :
    /\ Len(canvas) = Len(drawn)
    /\ \A i \in DOMAIN drawn : \E k \in DOMAIN canvas : Intact(drawn[i], canvas[k])

Order(s) == [i \in DOMAIN s |-> s[i].id]

\* Two strokes of the newest row never change places, those with equal timestamps
\* included: what was painted on top in a checkpoint stays on top.
CheckpointOrderIsKept ==
  [][\A i, j \in DOMAIN row : i <= j =>
       \E k, l \in DOMAIN row' : /\ k <= l
                                 /\ row'[k].id = row[i].id /\ row'[l].id = row[j].id]_vars

\* A stroke leaves the hash only for a snapshot that the cache and the row hold alike, in
\* the same order: the flush whose encoding failed deletes nothing.
FlushedIsCheckpointed ==
  [][~(hash \subseteq hash') =>
       \A latest \in {LatestSnapshot'} :
         hash \ hash' \subseteq IdsIn(latest) /\ Order(latest) = Order(row')]_vars
===============================================================================
