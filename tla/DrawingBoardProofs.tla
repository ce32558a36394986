-------------------------- MODULE DrawingBoardProofs --------------------------
(***************************************************************************)
(* The page of a user who draws, for any rooms, points, strokes, corners   *)
(* and failures: its lists stay sequences of strokes and messages, a       *)
(* gesture belongs to the tool in hand, and once nothing is on the wire    *)
(* the page shows what the server keeps. The last one rests on what an id  *)
(* names (AroundInv), on where a stroke is (ApartInv, MineInv), on what a  *)
(* message may say (WiresInv), and on AgreeInv: where page and server      *)
(* differ, a message or a stroke that settles it is on its way, unless the *)
(* stroke is astray.                                                       *)
(***************************************************************************)
EXTENDS DrawingBoard, FiniteSetTheorems, TLAPS

-----------------------------------------------------------------------------
(* Lists in ascending order.                                               *)

\* Ascending lists every number of a finite set once: the number of members up to i
\* is the place of i.
LEMMA AscendingLists ==
  ASSUME NEW I \in SUBSET Int, IsFiniteSet(I)
  PROVE  /\ Ascending(I) \in [1..Cardinality(I) -> I]
         /\ Cardinality(I) \in Nat
         /\ \A i \in I : \E n \in 1..Cardinality(I) : Ascending(I)[n] = i
         /\ \A m, n \in 1..Cardinality(I) : Ascending(I)[m] = Ascending(I)[n] => m = n
  <1> DEFINE Upto(i) == {j \in I : j <= i}
             place == [i \in I |-> Cardinality(Upto(i))]
             Places == 1..Cardinality(I)
  <1>1. Cardinality(I) \in Nat /\ IsFiniteSet(Places) /\ Cardinality(Places) = Cardinality(I)
    BY FS_CardinalityType, FS_Interval
  <1>2. ASSUME NEW i \in I PROVE IsFiniteSet(Upto(i)) /\ Cardinality(Upto(i)) \in Places
    <2>1. Upto(i) \subseteq I /\ i \in Upto(i)
      OBVIOUS
    <2>2. IsFiniteSet(Upto(i)) /\ Cardinality(Upto(i)) <= Cardinality(I)
      <3> HIDE DEF Upto
      <3>1. QED
        BY <2>1, FS_Subset
    <2>3. Cardinality(Upto(i)) \in Nat /\ Cardinality(Upto(i)) # 0
      <3> HIDE DEF Upto
      <3>1. QED
        BY <2>1, <2>2, FS_CardinalityType, FS_EmptySet
    <2>4. QED
      BY <1>1, <2>2, <2>3
  <1>3. ASSUME NEW i \in I, NEW k \in I, Cardinality(Upto(i)) = Cardinality(Upto(k))
        PROVE  i = k
    <2>1. ASSUME NEW a \in I, NEW b \in I, a < b, Cardinality(Upto(a)) = Cardinality(Upto(b))
          PROVE  FALSE
      <3>1. Upto(a) \subseteq Upto(b) /\ b \in Upto(b) /\ b \notin Upto(a)
        <4>1. a \in Int /\ b \in Int /\ I \subseteq Int
          OBVIOUS
        <4>2. \A j \in I : j <= a => j <= b
          BY <2>1, <4>1
        <4>3. b <= b /\ ~(b <= a)
          BY <2>1, <4>1
        <4>4. QED
          BY <4>2, <4>3
      <3>2. IsFiniteSet(Upto(b))
        BY <1>2
      <3>3. QED
        <4> HIDE DEF Upto
        <4>1. Upto(a) = Upto(b)
          BY <2>1, <3>1, <3>2, FS_Subset
        <4>2. QED
          BY <3>1, <4>1
    <2>2. i < k \/ k < i \/ i = k
      OBVIOUS
    <2>3. QED
      BY <1>3, <2>1, <2>2
  <1>4. place \in Injection(I, Places)
    <2>1. place \in [I -> Places]
      <3> HIDE DEF Upto
      <3>1. QED
        BY <1>2
    <2>2. \A i, k \in I : place[i] = place[k] => i = k
      BY <1>3
    <2>3. QED
      <3> HIDE DEF place
      <3>1. QED
        BY <2>1, <2>2 DEF Injection, IsInjective
  <1>5. place \in Surjection(I, Places)
    <2> HIDE DEF place, Places
    <2>1. QED
      BY <1>1, <1>4, FS_Injection
  <1>6. \A n \in Places : \E i \in I : Cardinality(Upto(i)) = n
    BY <1>5 DEF Surjection
  <1>7. Ascending(I) = [n \in Places |-> CHOOSE i \in I : Cardinality(Upto(i)) = n]
    BY DEF Ascending
  <1>8. \A n \in Places : Ascending(I)[n] \in I /\ Cardinality(Upto(Ascending(I)[n])) = n
    <2> HIDE DEF Upto
    <2>1. QED
      BY <1>6, <1>7
  <1>9. \A i \in I : Ascending(I)[Cardinality(Upto(i))] = i
    <2> HIDE DEF Upto
    <2>1. QED
      BY <1>2, <1>3, <1>8
  <1>10. QED
    <2> HIDE DEF Upto
    <2>1. QED
      BY <1>1, <1>2, <1>7, <1>8, <1>9

\* A snapshot is listed with every id once.
LEMMA InOrderLists ==
  ASSUME NEW S \in SUBSET Strokes
  PROVE  /\ InOrder(S) \in Seq(S)
         /\ IdsOf(Range(InOrder(S))) = IdsOf(S)
         /\ \A m, n \in DOMAIN InOrder(S) : InOrder(S)[m].id = InOrder(S)[n].id => m = n
  <1> DEFINE I == IdsOf(S)
  <1>1. I \in SUBSET Int /\ IsFiniteSet(I)
    <2>1. I \subseteq 1..MaxStrokes
      BY DEF IdsOf, Strokes, Ids
    <2>2. IsFiniteSet(1..MaxStrokes)
      BY BoundAssumption, FS_Interval
    <2>3. QED
      BY <2>1, <2>2, BoundAssumption, FS_Subset
  <1>2. /\ Ascending(I) \in [1..Cardinality(I) -> I] /\ Cardinality(I) \in Nat
        /\ \A i \in I : \E n \in 1..Cardinality(I) : Ascending(I)[n] = i
        /\ \A m, n \in 1..Cardinality(I) : Ascending(I)[m] = Ascending(I)[n] => m = n
    <2> HIDE DEF I
    <2>1. QED
      BY <1>1, AscendingLists
  <1>3. \A i \in I : \E s \in S : s.id = i
    BY DEF IdsOf
  <1>4. InOrder(S) = [n \in 1..Cardinality(I) |-> CHOOSE s \in S : s.id = Ascending(I)[n]]
    BY <1>2 DEF InOrder
  <1>5. \A n \in 1..Cardinality(I) : InOrder(S)[n] \in S /\ InOrder(S)[n].id = Ascending(I)[n]
    <2> HIDE DEF I
    <2>1. QED
      BY <1>2, <1>3, <1>4
  <1>6. DOMAIN InOrder(S) = 1..Cardinality(I)
    BY <1>4
  <1>7. InOrder(S) \in Seq(S)
    <2> HIDE DEF I
    <2>1. InOrder(S) \in [1..Cardinality(I) -> S]
      BY <1>4, <1>5
    <2>2. QED
      BY <1>2, <2>1
  <1>8. IdsOf(Range(InOrder(S))) = I
    <2> HIDE DEF I
    <2>1. QED
      BY <1>2, <1>5, <1>6 DEF IdsOf, Range
  <1>9. QED
    <2> HIDE DEF I
    <2>1. IdsOf(Range(InOrder(S))) = IdsOf(S)
      BY <1>8 DEF I
    <2>2. QED
      BY <1>2, <1>5, <1>6, <1>7, <2>1

\* Without keeps the strokes of other ids, each in one place.
LEMMA WithoutLists ==
  ASSUME NEW S, drawEvents \in Seq(S), NEW id
  PROVE  /\ Without(id) \in Seq(S)
         /\ Range(Without(id)) = {s \in Range(drawEvents) : s.id # id}
         /\ \E f \in [DOMAIN Without(id) -> DOMAIN drawEvents] :
              /\ \A m, n \in DOMAIN f : f[m] = f[n] => m = n
              /\ \A n \in DOMAIN f : Without(id)[n] = drawEvents[f[n]]
  <1> DEFINE I == {i \in DOMAIN drawEvents : drawEvents[i].id # id}
             f == Ascending(I)
  <1>1. I \in SUBSET Int /\ IsFiniteSet(I)
    <2>1. I \subseteq 1..Len(drawEvents) /\ Len(drawEvents) \in Nat
      OBVIOUS
    <2>2. IsFiniteSet(1..Len(drawEvents))
      BY <2>1, FS_Interval
    <2>3. IsFiniteSet(I)
      <3> HIDE DEF I
      <3>1. QED
        BY <2>1, <2>2, FS_Subset
    <2>4. QED
      BY <2>1, <2>3
  <1>2. /\ f \in [1..Cardinality(I) -> I] /\ Cardinality(I) \in Nat
        /\ \A i \in I : \E n \in 1..Cardinality(I) : f[n] = i
        /\ \A m, n \in 1..Cardinality(I) : f[m] = f[n] => m = n
    <2> HIDE DEF I
    <2>1. QED
      BY <1>1, AscendingLists
  <1>3. Without(id) = [n \in 1..Cardinality(I) |-> drawEvents[f[n]]]
    BY <1>2 DEF Without
  <1>4. I \subseteq DOMAIN drawEvents
    OBVIOUS
  <1>5. Without(id) \in Seq(S)
    <2> HIDE DEF I, f
    <2>1. Without(id) \in [1..Cardinality(I) -> S]
      BY <1>2, <1>3, <1>4
    <2>2. QED
      BY <1>2, <2>1
  <1>6. Range(Without(id)) = {s \in Range(drawEvents) : s.id # id}
    <2>1. DOMAIN Without(id) = 1..Cardinality(I)
      BY <1>3
    <2>2. ASSUME NEW s \in Range(Without(id)) PROVE s \in Range(drawEvents) /\ s.id # id
      <3>1. PICK n \in 1..Cardinality(I) : s = drawEvents[f[n]]
        BY <1>3, <2>1 DEF Range
      <3>2. f[n] \in I
        BY <1>2
      <3>3. QED
        BY <3>1, <3>2 DEF Range
    <2>3. ASSUME NEW s \in Range(drawEvents), s.id # id PROVE s \in Range(Without(id))
      <3>1. PICK i \in DOMAIN drawEvents : s = drawEvents[i]
        BY DEF Range
      <3>2. i \in I
        BY <2>3, <3>1
      <3>3. PICK n \in 1..Cardinality(I) : f[n] = i
        BY <1>2, <3>2
      <3>4. Without(id)[n] = s
        BY <1>3, <3>1, <3>3
      <3>5. QED
        BY <2>1, <3>4 DEF Range
    <2>4. QED
      BY <2>2, <2>3
  <1>7. QED
    <2> HIDE DEF I, f
    <2>1. f \in [DOMAIN Without(id) -> DOMAIN drawEvents] /\ DOMAIN f = 1..Cardinality(I)
      BY <1>2, <1>3, <1>4
    <2>2. \A m, n \in DOMAIN f : f[m] = f[n] => m = n
      BY <1>2, <2>1
    <2>3. \A n \in DOMAIN f : Without(id)[n] = drawEvents[f[n]]
      BY <1>3, <2>1
    <2>4. QED
      BY <1>5, <1>6, <2>1, <2>2, <2>3

-----------------------------------------------------------------------------
(* Sequences and the sets of what they hold.                               *)

LEMMA RangeAppend ==
  ASSUME NEW S, NEW q \in Seq(S), NEW x \in S
  PROVE  Append(q, x) \in Seq(S) /\ Range(Append(q, x)) = Range(q) \cup {x}
  <1>1. /\ Append(q, x) \in Seq(S) /\ DOMAIN q = 1..Len(q) /\ Len(q) \in Nat
        /\ DOMAIN Append(q, x) = 1..(Len(q) + 1)
        /\ \A i \in 1..Len(q) : Append(q, x)[i] = q[i]
        /\ Append(q, x)[Len(q) + 1] = x
    OBVIOUS
  <1>2. ASSUME NEW y \in Range(Append(q, x)) PROVE y \in Range(q) \cup {x}
    <2>1. PICK i \in 1..(Len(q) + 1) : y = Append(q, x)[i]
      BY <1>1 DEF Range
    <2>2. i \in 1..Len(q) \/ i = Len(q) + 1
      BY <1>1
    <2>3. QED
      BY <1>1, <2>1, <2>2 DEF Range
  <1>3. ASSUME NEW y \in Range(q) \cup {x} PROVE y \in Range(Append(q, x))
    <2>1. CASE y = x
      <3>1. Len(q) + 1 \in DOMAIN Append(q, x)
        BY <1>1
      <3>2. QED
        BY <1>1, <2>1, <3>1 DEF Range
    <2>2. CASE y \in Range(q)
      <3>1. PICK i \in 1..Len(q) : y = q[i]
        BY <1>1, <2>2 DEF Range
      <3>2. i \in DOMAIN Append(q, x) /\ Append(q, x)[i] = y
        BY <1>1, <3>1
      <3>3. QED
        BY <3>2 DEF Range
    <2>3. QED
      BY <1>3, <2>1, <2>2
  <1>4. QED
    BY <1>1, <1>2, <1>3

LEMMA RangeConcat ==
  ASSUME NEW S, NEW q \in Seq(S), NEW w \in Seq(S)
  PROVE  q \o w \in Seq(S) /\ Range(q \o w) = Range(q) \cup Range(w)
  <1>1. /\ q \o w \in Seq(S) /\ DOMAIN q = 1..Len(q) /\ DOMAIN w = 1..Len(w)
        /\ Len(q) \in Nat /\ Len(w) \in Nat
        /\ DOMAIN (q \o w) = 1..(Len(q) + Len(w))
        /\ \A i \in 1..(Len(q) + Len(w)) :
             (q \o w)[i] = IF i <= Len(q) THEN q[i] ELSE w[i - Len(q)]
    OBVIOUS
  <1>2. ASSUME NEW y \in Range(q \o w) PROVE y \in Range(q) \cup Range(w)
    <2>1. PICK i \in 1..(Len(q) + Len(w)) : y = (q \o w)[i]
      BY <1>1 DEF Range
    <2>2. CASE i <= Len(q)
      <3>1. i \in DOMAIN q /\ y = q[i]
        BY <1>1, <2>1, <2>2
      <3>2. QED
        BY <3>1 DEF Range
    <2>3. CASE ~(i <= Len(q))
      <3>1. i - Len(q) \in DOMAIN w /\ y = w[i - Len(q)]
        BY <1>1, <2>1, <2>3
      <3>2. QED
        BY <3>1 DEF Range
    <2>4. QED
      BY <2>2, <2>3
  <1>3. ASSUME NEW y \in Range(q) PROVE y \in Range(q \o w)
    <2>1. PICK i \in 1..Len(q) : y = q[i]
      BY <1>1 DEF Range
    <2>2. i \in DOMAIN (q \o w) /\ (q \o w)[i] = y
      BY <1>1, <2>1
    <2>3. QED
      BY <2>2 DEF Range
  <1>4. ASSUME NEW y \in Range(w) PROVE y \in Range(q \o w)
    <2>1. PICK i \in 1..Len(w) : y = w[i]
      BY <1>1 DEF Range
    <2>2. i + Len(q) \in DOMAIN (q \o w) /\ (q \o w)[i + Len(q)] = y
      BY <1>1, <2>1
    <2>3. QED
      BY <2>2 DEF Range
  <1>5. QED
    BY <1>1, <1>2, <1>3, <1>4

LEMMA RangeTail ==
  ASSUME NEW S, NEW q \in Seq(S), q # <<>>
  PROVE  /\ Tail(q) \in Seq(S) /\ Head(q) \in S
         /\ Range(q) = {Head(q)} \cup Range(Tail(q))
  <1>1. /\ Tail(q) \in Seq(S) /\ Head(q) = q[1] /\ 1 \in DOMAIN q /\ Len(q) \in Nat
        /\ DOMAIN q = 1..Len(q) /\ DOMAIN Tail(q) = 1..(Len(q) - 1)
        /\ \A i \in 1..(Len(q) - 1) : Tail(q)[i] = q[i + 1]
    OBVIOUS
  <1>2. ASSUME NEW y \in Range(q) PROVE y \in {Head(q)} \cup Range(Tail(q))
    <2>1. PICK i \in 1..Len(q) : y = q[i]
      BY <1>1 DEF Range
    <2>2. CASE i = 1
      BY <1>1, <2>1, <2>2
    <2>3. CASE i # 1
      <3>1. i - 1 \in DOMAIN Tail(q) /\ Tail(q)[i - 1] = y
        BY <1>1, <2>1, <2>3
      <3>2. QED
        BY <3>1 DEF Range
    <2>4. QED
      BY <2>2, <2>3
  <1>3. ASSUME NEW y \in Range(Tail(q)) PROVE y \in Range(q)
    <2>1. PICK i \in 1..(Len(q) - 1) : y = Tail(q)[i]
      BY <1>1 DEF Range
    <2>2. i + 1 \in DOMAIN q /\ q[i + 1] = y
      BY <1>1, <2>1
    <2>3. QED
      BY <2>2 DEF Range
  <1>4. Head(q) \in Range(q) /\ Head(q) \in S
    BY <1>1 DEF Range
  <1>5. QED
    BY <1>1, <1>2, <1>3, <1>4

LEMMA RangeSeq ==
  ASSUME NEW S, NEW q \in Seq(S) PROVE Range(q) \subseteq S /\ Range(<<>>) = {}
  BY DEF Range

-----------------------------------------------------------------------------
(* Types.                                                                  *)

Lists ==
  /\ drawEvents \in Seq(Strokes) /\ outbox \in Seq(Strokes) /\ inbox \in Seq(Messages)

TypeInv == TypeOK /\ Lists

LEMMA OutsideEntry == Outside \in Entries /\ Outside.pc = "out" /\ Outside.early = {}
  BY DEF Outside, Entries, RoleOrNone

LEMMA TypeInit == Init => TypeInv
  <1>1. NoPreview \in Previews
    BY DEF NoPreview, Previews, Tools
  <1>2. Range(<<>>) = {}
    BY DEF Range
  <1> SUFFICES ASSUME Init PROVE TypeInv
    OBVIOUS
  <1>3. Lists
    BY DEF Init, Lists
  <1>4. /\ canvas \in [Rooms -> SUBSET Strokes] /\ underway \in [Rooms -> SUBSET Strokes]
        /\ polygonPoints \in Seq(Points)
    BY DEF Init
  <1>5. nextId \in 1..(MaxStrokes + 1) /\ first \in 1..(MaxStrokes + 1) /\ faults \in 0..MaxFaults
    BY BoundAssumption DEF Init
  <1>6. entry \in Entries
    BY OutsideEntry DEF Init
  <1>7. QED
    BY <1>1, <1>2, <1>3, <1>4, <1>5, <1>6 DEF Init, TypeInv, TypeOK, Tools, RoleOrNone, PointOrNone

LEMMA SequencesSuffice ==
  ASSUME Lists'
  PROVE  /\ Range(drawEvents') \subseteq Strokes /\ Range(outbox') \subseteq Strokes
         /\ Range(inbox') \subseteq Messages
  BY RangeSeq DEF Lists

\* What the page draws.
LEMMA DrawnStroke ==
  ASSUME TypeInv, NEW type \in Tools \ {"cursor"}, NEW points \in Seq(Points),
         HandleDraw(type, points)
  PROVE  /\ nextId \in Ids /\ nextId' = nextId + 1
         /\ lineStart' = None /\ circleCenter' = None /\ polygonPoints' = <<>>
         /\ preview' = NoPreview
         /\ \E s \in Strokes :
              /\ s.id = nextId /\ s.type = type /\ s.corners = Len(points) /\ s.own
              /\ drawEvents' = Append(drawEvents, s)
              /\ \/ outbox' = Append(outbox, s) /\ UNCHANGED <<faults, astray>>
                 \/ /\ outbox' = outbox /\ astray' = astray \cup {nextId}
                    /\ faults < MaxFaults /\ faults' = faults + 1
  <1> DEFINE s == [id |-> nextId, type |-> type, corners |-> Len(points),
                   dot |-> Cardinality(Range(points)) = 1, own |-> TRUE]
  <1>1. nextId \in Ids /\ nextId' = nextId + 1
    BY DEF HandleDraw
  <1>2. s \in Strokes
    BY <1>1 DEF Strokes
  <1>3. /\ lineStart' = None /\ circleCenter' = None /\ polygonPoints' = <<>>
        /\ preview' = NoPreview
    BY DEF HandleDraw, ForgetGesture
  <1>4. /\ drawEvents' = Append(drawEvents, s)
        /\ \/ outbox' = Append(outbox, s) /\ UNCHANGED <<faults, astray>>
           \/ /\ outbox' = outbox /\ astray' = astray \cup {nextId}
              /\ faults < MaxFaults /\ faults' = faults + 1
    BY DEF HandleDraw, Fault
  <1>5. s.id = nextId /\ s.type = type /\ s.corners = Len(points) /\ s.own
    OBVIOUS
  <1>6. QED
    <2> HIDE DEF s
    <2>1. QED
      BY <1>1, <1>2, <1>3, <1>4, <1>5

\* A stroke that is drawn: by which gesture, and what it leaves alone.
DrawSteps == (\E p \in Points : MouseUp(p)) \/ DoubleClick

LEMMA DrawCases ==
  ASSUME TypeInv, DrawSteps
  PROVE  /\ Visible /\ UNCHANGED <<room, ready, role, tool, inbox, server>>
         /\ \E type \in Tools \ {"cursor"}, points \in Seq(Points) :
              HandleDraw(type, points) /\ (type = "polygon" => Len(points) >= 3)
  <1>1. ASSUME NEW p \in Points, MouseUp(p)
        PROVE  \E type \in Tools \ {"cursor"}, points \in Seq(Points) :
                 HandleDraw(type, points) /\ (type = "polygon" => Len(points) >= 3)
    <2>1. CASE tool = "line" /\ lineStart # None /\ HandleDraw("line", <<lineStart, p>>)
      <3>1. <<lineStart, p>> \in Seq(Points)
        BY <2>1 DEF TypeInv, TypeOK, PointOrNone
      <3>2. "line" \in Tools \ {"cursor"} /\ ("line" = "polygon" => Len(<<lineStart, p>>) >= 3)
        BY DEF Tools
      <3>3. QED
        BY <2>1, <3>1, <3>2, Zenon
    <2>2. CASE tool = "circle" /\ circleCenter # None /\ HandleDraw("circle", <<circleCenter, p>>)
      <3>1. <<circleCenter, p>> \in Seq(Points)
        BY <2>2 DEF TypeInv, TypeOK, PointOrNone
      <3>2. "circle" \in Tools \ {"cursor"} /\ ("circle" = "polygon" => Len(<<circleCenter, p>>) >= 3)
        BY DEF Tools
      <3>3. QED
        BY <2>2, <3>1, <3>2, Zenon
    <2>3. QED
      BY <1>1, <2>1, <2>2 DEF MouseUp
  <1>2. ASSUME DoubleClick
        PROVE  \E type \in Tools \ {"cursor"}, points \in Seq(Points) :
                 HandleDraw(type, points) /\ (type = "polygon" => Len(points) >= 3)
    <2>1. HandleDraw("polygon", polygonPoints) /\ Len(polygonPoints) >= 3
          /\ polygonPoints \in Seq(Points)
      BY <1>2 DEF DoubleClick, TypeInv, TypeOK
    <2>2. QED
      BY <2>1 DEF Tools
  <1>3. Visible /\ UNCHANGED <<room, ready, role, tool, inbox, server>>
    BY DEF DrawSteps, MouseUp, DoubleClick, Unseen
  <1>4. QED
    BY <1>1, <1>2, <1>3 DEF DrawSteps

\* Only the socket of an open page enters a room.
AtHome == room = None => entry.pc = "out"

LEMMA TypeStep == ASSUME TypeInv, AtHome, [Next]_vars PROVE TypeInv'
  <1> USE DEF TypeInv, wires, server, socket, store
  <1>1. ASSUME NEW t \in Tools, PickTool(t) PROVE TypeInv'
    <2>1. tool' \in Tools /\ NoPreview \in Previews
      BY <1>1 DEF PickTool, Tools, NoPreview, Previews
    <2>2. QED
      BY <1>1, <2>1 DEF PickTool, ForgetGesture, TypeOK, Lists, PointOrNone
  <1>2. ASSUME NEW p \in Points, MouseDown(p) \/ Click(p) \/ MouseMove(p) PROVE TypeInv'
    <2>1. UNCHANGED <<room, drawEvents, ready, role, tool, wires, server, nextId, faults, astray>>
      BY <1>2 DEF MouseDown, Click, MouseMove, OnlyGesture
    <2>2. lineStart' \in PointOrNone /\ circleCenter' \in PointOrNone /\ polygonPoints' \in Seq(Points)
      <3>1. /\ lineStart \in PointOrNone /\ circleCenter \in PointOrNone
            /\ polygonPoints \in Seq(Points) /\ p \in PointOrNone
        BY DEF TypeOK, PointOrNone
      <3>2. CASE MouseDown(p) \/ MouseMove(p)
        BY <3>1, <3>2 DEF MouseDown, MouseMove
      <3>3. CASE Click(p)
        <4>1. polygonPoints' = Append(polygonPoints, p) /\ UNCHANGED <<lineStart, circleCenter>>
          BY <3>3 DEF Click
        <4>2. QED
          BY <3>1, <4>1
      <3>4. QED
        BY <1>2, <3>2, <3>3
    <2>3. preview' \in Previews
      <3>1. CASE MouseDown(p)
        BY <3>1 DEF MouseDown, NoPreview, Previews, Tools
      <3>2. CASE Click(p)
        BY <2>2, <3>2 DEF Click, Previews, Tools
      <3>3. CASE MouseMove(p)
        <4>1. CASE lineStart # None /\ preview' = [type |-> "line", points |-> <<lineStart, p>>]
          BY <4>1 DEF TypeOK, PointOrNone, Previews, Tools
        <4>2. CASE /\ circleCenter # None
                   /\ preview' = [type |-> "circle", points |-> <<circleCenter, p>>]
          BY <4>2 DEF TypeOK, PointOrNone, Previews, Tools
        <4>3. CASE preview' = [type |-> "polygon", points |-> Append(polygonPoints, p)]
          BY <4>3 DEF TypeOK, Previews, Tools
        <4>4. QED
          BY <3>3, <4>1, <4>2, <4>3 DEF MouseMove
      <3>4. QED
        BY <1>2, <3>1, <3>2, <3>3
    <2>4. QED
      BY <2>1, <2>2, <2>3 DEF TypeOK, Lists
  <1>3. ASSUME DrawSteps PROVE TypeInv'
    <2>1. UNCHANGED <<room, ready, role, tool, inbox, server>>
      BY <1>3, DrawCases
    <2>2. PICK type \in Tools \ {"cursor"}, points \in Seq(Points) : HandleDraw(type, points)
      BY <1>3, DrawCases
    <2>3. PICK s \in Strokes :
            /\ s.id = nextId /\ drawEvents' = Append(drawEvents, s)
            /\ \/ outbox' = Append(outbox, s) /\ UNCHANGED <<faults, astray>>
               \/ /\ outbox' = outbox /\ astray' = astray \cup {nextId}
                  /\ faults < MaxFaults /\ faults' = faults + 1
      BY <2>2, DrawnStroke
    <2>4. Lists'
      <3>1. drawEvents' = Append(drawEvents, s) /\ outbox' \in {outbox, Append(outbox, s)}
        BY <2>3
      <3>2. Append(drawEvents, s) \in Seq(Strokes) /\ Append(outbox, s) \in Seq(Strokes)
        BY DEF Lists
      <3>3. QED
        BY <2>1, <3>1, <3>2 DEF Lists
    <2>5. /\ nextId' \in 1..(MaxStrokes + 1) /\ faults' \in 0..MaxFaults /\ astray' \subseteq Ids
      <3>1. nextId \in Ids /\ nextId' = nextId + 1
        BY <2>2, DrawnStroke
      <3>2. faults' = faults \/ (faults < MaxFaults /\ faults' = faults + 1)
        BY <2>3
      <3>3. astray' \in {astray, astray \cup {nextId}}
        BY <2>3
      <3>4. QED
        BY <3>1, <3>2, <3>3, BoundAssumption DEF TypeOK, Ids
    <2>6. /\ lineStart' = None /\ circleCenter' = None /\ polygonPoints' = <<>>
          /\ preview' = NoPreview
      BY <2>2, DrawnStroke
    <2>7. NoPreview \in Previews
      BY DEF NoPreview, Previews, Tools
    <2>8. QED
      BY <2>1, <2>4, <2>5, <2>6, <2>7, SequencesSuffice DEF TypeOK, PointOrNone
  <1>4. ASSUME NEW r \in Rooms, Open(r) PROVE TypeInv'
    BY <1>4 DEF Open, TypeOK, Lists, gesture
  <1>5. ASSUME NEW r \in Rooms, OtherDraws(r) PROVE TypeInv'
    <2>1. /\ UNCHANGED <<room, drawEvents, ready, role, tool, gesture, outbox, inbox, socket,
                         underway, faults, astray>>
          /\ nextId \in Ids /\ nextId' = nextId + 1 /\ unsent' = unsent \cup {nextId}
      BY <1>5 DEF OtherDraws
    <2>2. [id |-> nextId, type |-> "line", corners |-> 2, dot |-> FALSE, own |-> FALSE] \in Strokes
      BY <2>1 DEF Strokes, Tools
    <2>3. canvas' \in [Rooms -> SUBSET Strokes]
      BY <1>5, <2>2 DEF OtherDraws, TypeOK
    <2>4. nextId' \in 1..(MaxStrokes + 1) /\ unsent' \subseteq Ids
      BY <2>1, BoundAssumption DEF TypeOK, Ids
    <2>5. QED
      BY <2>1, <2>3, <2>4 DEF TypeOK, Lists, gesture
  <1>6. ASSUME NEW r \in Rooms, Broadcast(r) PROVE TypeInv'
    <2>1. PICK s \in canvas[r] :
            /\ s.id \in unsent /\ unsent' = unsent \ {s.id}
            /\ inbox' \in {inbox, Append(inbox, Message("draw", {s}, 0, None))}
      BY <1>6 DEF Broadcast
    <2>2. s \in Strokes
      BY DEF TypeOK
    <2>3. Message("draw", {s}, 0, None) \in Messages
      BY <2>2 DEF Message, Messages, RoleOrNone
    <2>4. inbox' \in Seq(Messages)
      BY <2>1, <2>3 DEF Lists
    <2>5. UNCHANGED <<room, drawEvents, ready, role, tool, gesture, outbox, socket, underway,
                      canvas, nextId, faults, astray>>
      BY <1>6 DEF Broadcast
    <2>6. QED
      BY <2>1, <2>4, <2>5, SequencesSuffice DEF TypeOK, Lists, gesture
  <1>7. ASSUME NEW r \in Rooms, HashStroke(r) PROVE TypeInv'
    <2>1. PICK s \in underway[r] : Ends(r, s) /\ Store(r, s) /\ unsent' = unsent \cup {s.id}
      BY <1>7 DEF HashStroke
    <2>2. UNCHANGED <<room, drawEvents, ready, role, tool, gesture, wires, socket, nextId, faults,
                      astray>>
      BY <1>7 DEF HashStroke
    <2>3. s \in Strokes
      BY DEF TypeOK
    <2>4. /\ underway' \in [Rooms -> SUBSET Strokes] /\ canvas' \in [Rooms -> SUBSET Strokes]
          /\ unsent' \subseteq Ids
      BY <2>1, <2>3 DEF TypeOK, Ends, Store, Strokes
    <2>5. QED
      BY <2>2, <2>4 DEF TypeOK, Lists, gesture
  <1>8. ASSUME NEW r \in Rooms, HashFails(r) PROVE TypeInv'
    <2>1. PICK s \in underway[r] :
            /\ Ends(r, s)
            /\ inbox' \in {inbox, Append(inbox, Message("undo", {}, s.id, None))}
            /\ \/ UNCHANGED <<canvas, astray>>
               \/ Store(r, s) /\ astray' = astray \cup {s.id}
      BY <1>8 DEF HashFails
    <2>2. /\ UNCHANGED <<room, drawEvents, ready, role, tool, gesture, outbox, socket, unsent, nextId>>
          /\ faults < MaxFaults /\ faults' = faults + 1
      BY <1>8 DEF HashFails, Fault
    <2>3. s \in Strokes /\ s.id \in Ids
      BY DEF TypeOK, Strokes
    <2>4. /\ underway' \in [Rooms -> SUBSET Strokes] /\ canvas' \in [Rooms -> SUBSET Strokes]
          /\ astray' \subseteq Ids
      BY <2>1, <2>3 DEF TypeOK, Ends, Store
    <2>5. inbox' \in Seq(Messages)
      <3> DEFINE m == Message("undo", {}, s.id, None)
      <3>1. m \in Messages
        BY <2>3 DEF Message, Messages, RoleOrNone
      <3>2. inbox' \in {inbox, Append(inbox, m)}
        BY <2>1
      <3> HIDE DEF m
      <3>3. Append(inbox, m) \in Seq(Messages) /\ inbox \in Seq(Messages)
        BY <3>1 DEF Lists
      <3>4. QED
        BY <3>2, <3>3
    <2>6. faults' \in 0..MaxFaults
      BY <2>2, BoundAssumption DEF TypeOK
    <2>7. QED
      BY <2>2, <2>4, <2>5, <2>6, SequencesSuffice DEF TypeOK, Lists, gesture
  <1>9. ASSUME Leave PROVE TypeInv'
    <2>1. IdsOf(Range(outbox)) \subseteq Ids
      BY DEF IdsOf, TypeOK, Strokes
    <2>2. NoPreview \in Previews /\ <<>> \in Seq(Strokes) /\ <<>> \in Seq(Messages)
          /\ <<>> \in Seq(Points)
      BY DEF NoPreview, Previews, Tools
    <2>3. QED
      BY <1>9, <2>1, <2>2, OutsideEntry, RangeSeq
         DEF Leave, ForgetGesture, TypeOK, Lists, PointOrNone, RoleOrNone
  <1>10. ASSUME Join PROVE TypeInv'
    <2>1. UNCHANGED <<room, drawEvents, ready, role, tool, gesture, wires, first, store, nextId,
                      faults, astray>>
      BY <1>10 DEF Join
    <2>2. PICK ro \in Roles, ahead \in SUBSET canvas[room] :
            /\ clientData' = ro
            /\ entry' = [pc |-> "joined", role |-> ro, early |-> canvas[room] \ ahead,
                         ahead |-> ahead]
      BY <1>10 DEF Join
    <2>3. canvas[room] \subseteq Strokes /\ ro \in RoleOrNone
      BY <1>10 DEF Join, TypeOK, RoleOrNone
    <2>4. entry' \in Entries /\ clientData' \in RoleOrNone
      BY <2>2, <2>3 DEF Entries
    <2>5. QED
      BY <2>1, <2>4 DEF TypeOK, Lists, gesture
  <1>11. ASSUME Inform PROVE TypeInv'
    <2>1. /\ UNCHANGED <<room, drawEvents, ready, role, tool, gesture, outbox, first, clientData,
                         store, nextId, faults, astray>>
          /\ entry' = [entry EXCEPT !.pc = "informed"]
          /\ inbox' = Append(inbox, Message("info", {}, 0, entry.role))
      BY <1>11 DEF Inform
    <2>2. entry \in Entries
      BY DEF TypeOK
    <2>3. entry' \in Entries
      BY <2>1, <2>2 DEF Entries
    <2>4. Message("info", {}, 0, entry.role) \in Messages
      BY <2>2 DEF Message, Messages, Entries
    <2>5. inbox' \in Seq(Messages)
      BY <2>1, <2>4 DEF Lists
    <2>6. QED
      BY <2>1, <2>3, <2>5, SequencesSuffice DEF TypeOK, Lists, gesture
  <1>12. ASSUME SendCanvasState PROVE TypeInv'
    <2>1. /\ UNCHANGED <<room, drawEvents, ready, role, tool, gesture, outbox, first, clientData,
                         store, nextId, faults>>
          /\ entry' = [Outside EXCEPT !.pc = "in"]
      BY <1>12 DEF SendCanvasState
    <2>2. PICK state \in SUBSET canvas[room] :
            /\ inbox' = Append(inbox, Message("state", state, 0, None))
            /\ astray' = astray \cup IdsOf(entry.ahead \ state)
      BY <1>12 DEF SendCanvasState
    <2>3. entry' \in Entries
      BY <2>1 DEF Outside, Entries, RoleOrNone
    <2>4. room \in Rooms
      BY <1>12 DEF SendCanvasState, AtHome, TypeOK
    <2>5. canvas[room] \subseteq Strokes /\ entry.ahead \subseteq Strokes
      BY <2>4 DEF TypeOK, Entries
    <2>6. astray' \subseteq Ids
      BY <2>2, <2>5 DEF IdsOf, TypeOK, Strokes
    <2>7. Message("state", state, 0, None) \in Messages
      BY <2>2, <2>5 DEF Message, Messages, RoleOrNone
    <2>8. inbox' \in Seq(Messages)
      BY <2>2, <2>7 DEF Lists
    <2>9. QED
      BY <2>1, <2>3, <2>6, <2>8, SequencesSuffice DEF TypeOK, Lists, gesture
  <1>13. ASSUME Promote PROVE TypeInv'
    <2>1. UNCHANGED <<room, drawEvents, ready, role, tool, gesture, outbox, first, entry, store,
                      nextId, faults, astray>>
      BY <1>13 DEF Promote
    <2>2. PICK ro \in Roles : clientData' = ro /\ inbox' = Append(inbox, Message("info", {}, 0, ro))
      BY <1>13 DEF Promote
    <2>3. Message("info", {}, 0, ro) \in Messages
      BY DEF Message, Messages, RoleOrNone
    <2>4. QED
      BY <2>1, <2>2, <2>3, SequencesSuffice DEF TypeOK, Lists, RoleOrNone, gesture
  <1>14. ASSUME ServerReceives PROVE TypeInv'
    <2> DEFINE s == Head(outbox)
    <2>1. /\ UNCHANGED <<room, drawEvents, ready, role, tool, gesture, inbox, socket, canvas, unsent,
                         nextId, faults>>
          /\ outbox' = Tail(outbox) /\ outbox # <<>>
          /\ Refuse(s) \/ Accept(s)
      BY <1>14 DEF ServerReceives
    <2>2. s \in Strokes /\ s.id \in Ids /\ outbox' \in Seq(Strokes)
      <3>1. Head(outbox) \in Strokes /\ Tail(outbox) \in Seq(Strokes)
        BY <2>1, RangeTail DEF Lists
      <3>2. QED
        BY <2>1, <3>1 DEF Strokes
    <2>3. astray' \subseteq Ids /\ underway' \in [Rooms -> SUBSET Strokes]
      <3> HIDE DEF s
      <3>1. astray' \in {astray, astray \cup {s.id}}
        BY <2>1 DEF Refuse, Accept
      <3>2. underway' \in {underway, [underway EXCEPT ![room] = @ \cup {s}]}
        BY <2>1 DEF Refuse, Accept
      <3>3. QED
        BY <2>2, <3>1, <3>2 DEF TypeOK
    <2>4. QED
      BY <2>1, <2>2, <2>3, SequencesSuffice DEF TypeOK, Lists, gesture
  <1>15. ASSUME PageReceives PROVE TypeInv'
    <2> DEFINE m == Head(inbox)
    <2>1. /\ UNCHANGED <<room, tool, outbox, server, nextId, faults>>
          /\ inbox # <<>> /\ inbox' = Tail(inbox)
          /\ \/ HandleCanvasState(m) \/ HandleDrawEvent(m)
             \/ HandleUndoDraw(m) \/ HandleUserInfo(m)
      BY <1>15 DEF PageReceives
    <2>2. inbox' \in Seq(Messages) /\ m \in Messages
      BY <2>1, RangeTail DEF Lists
    <2>3. m.strokes \in SUBSET Strokes /\ m.role \in RoleOrNone
      BY <2>2 DEF Messages
    <2> HIDE DEF m
    <2>4. drawEvents' \in Seq(Strokes)
      <3>1. InOrder(m.strokes) \in Seq(Strokes)
        <4>1. InOrder(m.strokes) \in Seq(m.strokes)
          BY <2>3, InOrderLists
        <4>2. QED
          BY <2>3, <4>1
      <3>2. Without(m.id) \in Seq(Strokes)
        BY WithoutLists DEF Lists
      <3>3. drawEvents' \in {drawEvents, InOrder(m.strokes), drawEvents \o InOrder(m.strokes),
                             Without(m.id)}
        BY <2>1 DEF HandleCanvasState, HandleDrawEvent, HandleUndoDraw, HandleUserInfo
      <3>4. drawEvents \o InOrder(m.strokes) \in Seq(Strokes)
        BY <3>1 DEF Lists
      <3>5. QED
        BY <3>1, <3>2, <3>3, <3>4 DEF Lists
    <2>5. /\ ready' \in BOOLEAN /\ role' \in RoleOrNone /\ astray' \subseteq Ids
      <3>1. IdsOf(Range(drawEvents)) \subseteq Ids
        BY DEF IdsOf, TypeOK, Strokes
      <3>2. /\ ready' \in {ready, TRUE} /\ role' \in {role, m.role}
            /\ astray' = astray \/ astray' \subseteq astray \cup IdsOf(Range(drawEvents))
        <4>1. CASE HandleCanvasState(m)
          BY <4>1 DEF HandleCanvasState
        <4>2. CASE HandleDrawEvent(m) \/ HandleUndoDraw(m)
          BY <4>2 DEF HandleDrawEvent, HandleUndoDraw
        <4>3. CASE HandleUserInfo(m)
          BY <4>3 DEF HandleUserInfo
        <4>4. QED
          BY <2>1, <4>1, <4>2, <4>3
      <3>3. QED
        BY <2>3, <3>1, <3>2 DEF TypeOK
    <2>6. /\ lineStart' \in PointOrNone /\ circleCenter' \in PointOrNone
          /\ polygonPoints' \in Seq(Points) /\ preview' \in Previews
      <3>1. NoPreview \in Previews
        BY DEF NoPreview, Previews, Tools
      <3>2. CASE ForgetGesture
        BY <3>1, <3>2 DEF ForgetGesture, PointOrNone
      <3>3. CASE UNCHANGED gesture
        BY <3>3 DEF gesture, TypeOK
      <3>4. QED
        BY <2>1, <3>2, <3>3
           DEF HandleCanvasState, HandleDrawEvent, HandleUndoDraw, HandleUserInfo
    <2>7. QED
      BY <2>1, <2>2, <2>4, <2>5, <2>6, SequencesSuffice DEF TypeOK, Lists
  <1>16. CASE UNCHANGED vars
    BY <1>16 DEF vars, TypeOK, Lists
  <1>17. QED
    BY <1>1, <1>2, <1>3, <1>4, <1>5, <1>6, <1>7, <1>8, <1>9, <1>10, <1>11, <1>12, <1>13, <1>14,
       <1>15, <1>16 DEF Next, DrawSteps

LEMMA HomeStep == ASSUME TypeInv, AtHome, [Next]_vars PROVE AtHome'
  <1>1. ASSUME UNCHANGED <<room, entry>> PROVE AtHome'
    BY <1>1 DEF AtHome
  <1>2. ASSUME room' = room, room # None PROVE AtHome'
    BY <1>2 DEF AtHome
  <1>3. ASSUME NEW t \in Tools, PickTool(t) PROVE AtHome'
    BY <1>1, <1>3 DEF PickTool, server, socket
  <1>4. ASSUME NEW p \in Points, MouseDown(p) \/ Click(p) \/ MouseMove(p) PROVE AtHome'
    BY <1>1, <1>4 DEF MouseDown, Click, MouseMove, OnlyGesture, server, socket
  <1>5. ASSUME DrawSteps PROVE AtHome'
    BY <1>1, <1>5, DrawCases DEF server, socket
  <1>6. ASSUME NEW r \in Rooms, Open(r) PROVE AtHome'
    BY <1>6, NoneAssumption DEF Open, AtHome
  <1>7. ASSUME NEW r \in Rooms, OtherDraws(r) \/ HashStroke(r) \/ HashFails(r) \/ Broadcast(r)
        PROVE  AtHome'
    BY <1>1, <1>7 DEF OtherDraws, HashStroke, HashFails, Broadcast, socket
  <1>8. ASSUME Leave PROVE AtHome'
    BY <1>8, OutsideEntry DEF Leave, AtHome
  <1>9. ASSUME Join \/ Inform \/ SendCanvasState PROVE AtHome'
    BY <1>2, <1>9 DEF Join, Inform, SendCanvasState, AtHome
  <1>10. ASSUME Promote \/ ServerReceives \/ PageReceives PROVE AtHome'
    BY <1>1, <1>10 DEF Promote, ServerReceives, PageReceives, server, socket
  <1>11. CASE UNCHANGED vars
    BY <1>1, <1>11 DEF vars
  <1>12. QED
    BY <1>3, <1>4, <1>5, <1>6, <1>7, <1>8, <1>9, <1>10, <1>11 DEF Next, DrawSteps

-----------------------------------------------------------------------------
(* Gestures.                                                               *)

Drawable(s) == (s.type = "polygon" => s.corners >= 3) /\ (s.type = "circle" => ~s.dot)

\* What is drawn has its corners on the way to the server already; its radius is
\* looked at there, before the HSET.
CornersInv ==
  /\ \A s \in Range(outbox) : s.type = "polygon" => s.corners >= 3
  /\ \A r \in Rooms : \A s \in underway[r] : Drawable(s)

\* GestureFitsTool but for the strokes of the server.
Anchored ==
  /\ lineStart # None => tool = "line"
  /\ circleCenter # None => tool = "circle"
  /\ polygonPoints # <<>> => tool = "polygon"
  /\ preview # NoPreview =>
       /\ preview.type = tool
       /\ \/ tool = "line" /\ preview.points[1] = lineStart
          \/ tool = "circle" /\ preview.points[1] = circleCenter
          \/ tool = "polygon" /\ IsPrefix(polygonPoints, preview.points)
  /\ ~Visible => lineStart = None /\ circleCenter = None /\ polygonPoints = <<>>

LEMMA GestureParts ==
  GestureFitsTool <=> Anchored /\ \A r \in Rooms : \A s \in canvas[r] : Drawable(s)
  BY DEF GestureFitsTool, Anchored, Drawable

LEMMA PrefixOfMore ==
  ASSUME NEW q \in Seq(Points), NEW p \in Points
  PROVE  IsPrefix(q, q) /\ IsPrefix(q, Append(q, p))
  BY DEF IsPrefix

\* Every change of the tool, of the page and of its strokes throws the gesture away.
LEMMA AnchoredStep == ASSUME TypeInv, Anchored, [Next]_vars PROVE Anchored'
  <1>1. ASSUME ForgetGesture PROVE Anchored'
    BY <1>1 DEF ForgetGesture, Anchored
  <1>2. ASSUME UNCHANGED <<gesture, tool, room, ready>> PROVE Anchored'
    BY <1>2 DEF Anchored, gesture, Visible
  <1>3. ASSUME NEW t \in Tools, PickTool(t) PROVE Anchored'
    BY <1>1, <1>3 DEF PickTool
  <1>4. ASSUME NEW p \in Points, MouseDown(p) \/ Click(p) \/ MouseMove(p) PROVE Anchored'
    <2>1. Visible /\ UNCHANGED <<room, ready, tool>>
      BY <1>4 DEF MouseDown, Click, MouseMove, OnlyGesture
    <2>2. Visible'
      BY <2>1 DEF Visible
    <2>3. polygonPoints \in Seq(Points) /\ lineStart \in PointOrNone /\ circleCenter \in PointOrNone
      BY DEF TypeInv, TypeOK
    <2>4. CASE MouseDown(p)
      <3>1. preview' = NoPreview /\ polygonPoints' = polygonPoints
        BY <2>4 DEF MouseDown
      <3>2. \/ tool = "line" /\ circleCenter' = circleCenter
            \/ tool = "circle" /\ lineStart' = lineStart
        BY <2>4 DEF MouseDown
      <3>3. QED
        BY <2>1, <2>2, <3>1, <3>2 DEF Anchored
    <2>5. CASE Click(p)
      <3>1. /\ tool = "polygon" /\ polygonPoints' = Append(polygonPoints, p)
            /\ preview' = [type |-> "polygon", points |-> polygonPoints']
            /\ UNCHANGED <<lineStart, circleCenter>>
        BY <2>5 DEF Click
      <3>2. polygonPoints' \in Seq(Points)
        BY <2>3, <3>1
      <3>3. IsPrefix(polygonPoints', preview'.points)
        BY <3>1, <3>2, PrefixOfMore
      <3>4. preview'.type = "polygon"
        BY <3>1
      <3>5. QED
        BY <2>1, <2>2, <3>1, <3>3, <3>4 DEF Anchored
    <2>6. CASE MouseMove(p)
      <3>1. UNCHANGED <<lineStart, circleCenter, polygonPoints>>
        BY <2>6 DEF MouseMove
      <3>2. CASE tool = "line" /\ preview' = [type |-> "line", points |-> <<lineStart, p>>]
        <4>1. preview'.type = "line" /\ preview'.points[1] = lineStart
          BY <3>2
        <4>2. QED
          BY <2>1, <2>2, <3>1, <3>2, <4>1 DEF Anchored
      <3>3. CASE tool = "circle" /\ preview' = [type |-> "circle", points |-> <<circleCenter, p>>]
        <4>1. preview'.type = "circle" /\ preview'.points[1] = circleCenter
          BY <3>3
        <4>2. QED
          BY <2>1, <2>2, <3>1, <3>3, <4>1 DEF Anchored
      <3>4. CASE /\ tool = "polygon"
                 /\ preview' = [type |-> "polygon", points |-> Append(polygonPoints, p)]
        <4>1. preview'.type = "polygon" /\ IsPrefix(polygonPoints', preview'.points)
          BY <2>3, <3>1, <3>4, PrefixOfMore
        <4>2. QED
          BY <2>1, <2>2, <3>1, <3>4, <4>1 DEF Anchored
      <3>5. QED
        BY <2>6, <3>2, <3>3, <3>4 DEF MouseMove
    <2>7. QED
      BY <1>4, <2>4, <2>5, <2>6
  <1>5. ASSUME DrawSteps PROVE Anchored'
    <2>1. PICK type \in Tools \ {"cursor"}, points \in Seq(Points) : HandleDraw(type, points)
      BY <1>5, DrawCases
    <2>2. ForgetGesture
      BY <2>1 DEF HandleDraw
    <2>3. QED
      BY <1>1, <2>2
  <1>6. ASSUME NEW r \in Rooms, Open(r) PROVE Anchored'
    <2>1. ~Visible /\ UNCHANGED <<gesture, tool>>
      BY <1>6 DEF Open, Visible
    <2>2. QED
      BY <2>1 DEF Anchored, gesture
  <1>7. ASSUME NEW r \in Rooms, OtherDraws(r) \/ HashStroke(r) \/ HashFails(r) \/ Broadcast(r)
        PROVE  Anchored'
    BY <1>2, <1>7 DEF OtherDraws, HashStroke, HashFails, Broadcast
  <1>8. ASSUME Leave PROVE Anchored'
    BY <1>1, <1>8 DEF Leave
  <1>9. ASSUME Join \/ Inform \/ SendCanvasState \/ Promote \/ ServerReceives PROVE Anchored'
    BY <1>2, <1>9 DEF Join, Inform, SendCanvasState, Promote, ServerReceives
  <1>10. ASSUME PageReceives PROVE Anchored'
    <2> DEFINE m == Head(inbox)
    <2>1. UNCHANGED <<room, tool>> /\ (ForgetGesture \/ UNCHANGED <<gesture, ready>>)
      BY <1>10 DEF PageReceives, HandleCanvasState, HandleDrawEvent, HandleUndoDraw, HandleUserInfo
    <2>2. QED
      BY <1>1, <1>2, <2>1
  <1>11. CASE UNCHANGED vars
    BY <1>2, <1>11 DEF vars, gesture
  <1>12. QED
    BY <1>3, <1>4, <1>5, <1>6, <1>7, <1>8, <1>9, <1>10, <1>11 DEF Next, DrawSteps

LEMMA DrawableStep ==
  ASSUME TypeInv, CornersInv, \A r \in Rooms : \A s \in canvas[r] : Drawable(s), [Next]_vars
  PROVE  CornersInv' /\ \A r \in Rooms : \A s \in canvas'[r] : Drawable(s)
  <1> DEFINE Goal == CornersInv' /\ \A r \in Rooms : \A s \in canvas'[r] : Drawable(s)
  <1>0. canvas \in [Rooms -> SUBSET Strokes] /\ underway \in [Rooms -> SUBSET Strokes] /\ Lists
    BY DEF TypeInv, TypeOK
  <1>1. ASSUME Range(outbox') \subseteq Range(outbox), UNCHANGED <<underway, canvas>> PROVE Goal
    BY <1>1 DEF CornersInv
  <1>2. ASSUME NEW t \in Tools, PickTool(t) PROVE Goal
    BY <1>1, <1>2 DEF PickTool, wires, server, store
  <1>3. ASSUME NEW p \in Points, MouseDown(p) \/ Click(p) \/ MouseMove(p) PROVE Goal
    BY <1>1, <1>3 DEF MouseDown, Click, MouseMove, OnlyGesture, wires, server, store
  <1>4. ASSUME DrawSteps PROVE Goal
    <2>1. PICK type \in Tools \ {"cursor"}, points \in Seq(Points) :
            HandleDraw(type, points) /\ (type = "polygon" => Len(points) >= 3)
      BY <1>4, DrawCases
    <2>2. PICK s \in Strokes :
            s.type = type /\ s.corners = Len(points) /\ outbox' \in {outbox, Append(outbox, s)}
      BY <2>1, DrawnStroke
    <2>3. UNCHANGED <<underway, canvas>>
      BY <1>4, DrawCases DEF server, store
    <2>4. Range(outbox') \subseteq Range(outbox) \cup {s}
      BY <1>0, <2>2, RangeAppend DEF Lists
    <2>5. s.type = "polygon" => s.corners >= 3
      BY <2>1, <2>2
    <2>6. QED
      BY <2>3, <2>4, <2>5 DEF CornersInv
  <1>5. ASSUME NEW r \in Rooms, Open(r) \/ Broadcast(r) PROVE Goal
    BY <1>1, <1>5 DEF Open, Broadcast, wires, store
  <1>6. ASSUME NEW r \in Rooms, OtherDraws(r) PROVE Goal
    <2> DEFINE s == [id |-> nextId, type |-> "line", corners |-> 2, dot |-> FALSE, own |-> FALSE]
    <2>1. Drawable(s)
      BY DEF Drawable
    <2>2. canvas' = [canvas EXCEPT ![r] = @ \cup {s}] /\ outbox' = outbox /\ underway' = underway
      BY <1>6 DEF OtherDraws, wires
    <2>3. QED
      <3> HIDE DEF s
      <3>1. \A q \in Rooms : \A u \in canvas'[q] : u \in canvas[q] \/ u = s
        BY <1>0, <2>2
      <3>2. QED
        BY <2>1, <2>2, <3>1 DEF CornersInv
  <1>7. ASSUME NEW r \in Rooms, HashStroke(r) \/ HashFails(r) PROVE Goal
    <2>1. PICK s \in underway[r] : Ends(r, s) /\ (canvas' = canvas \/ Store(r, s))
      BY <1>7 DEF HashStroke, HashFails
    <2>2. outbox' = outbox
      BY <1>7 DEF HashStroke, HashFails, wires
    <2>3. Drawable(s)
      BY DEF CornersInv
    <2>4. \A q \in Rooms : \A u \in canvas'[q] : u \in canvas[q] \/ u = s
      BY <1>0, <2>1 DEF Store
    <2>5. \A q \in Rooms : underway'[q] \subseteq underway[q]
      BY <1>0, <2>1 DEF Ends
    <2>6. QED
      BY <2>2, <2>3, <2>4, <2>5 DEF CornersInv
  <1>8. ASSUME Leave PROVE Goal
    <2>1. Range(<<>>) = {}
      BY DEF Range
    <2>2. QED
      BY <1>1, <1>8, <2>1 DEF Leave, store
  <1>9. ASSUME Join \/ Inform \/ SendCanvasState \/ Promote \/ PageReceives PROVE Goal
    BY <1>1, <1>9 DEF Join, Inform, SendCanvasState, Promote, PageReceives, wires, server, store
  <1>10. ASSUME ServerReceives PROVE Goal
    <2> DEFINE s == Head(outbox)
    <2>1. outbox # <<>> /\ outbox' = Tail(outbox) /\ canvas' = canvas /\ (Refuse(s) \/ Accept(s))
      BY <1>10 DEF ServerReceives
    <2>2. Range(outbox) = {s} \cup Range(outbox')
      BY <1>0, <2>1, RangeTail DEF Lists
    <2> HIDE DEF s
    <2>3. CASE Refuse(s)
      BY <1>1, <2>1, <2>2, <2>3 DEF Refuse
    <2>4. CASE Accept(s)
      <3>1. Drawable(s)
        BY <2>2, <2>4 DEF Accept, Valid, Drawable, CornersInv
      <3>2. \A q \in Rooms : \A u \in underway'[q] : u \in underway[q] \/ u = s
        BY <1>0, <2>4 DEF Accept
      <3>3. QED
        BY <2>1, <2>2, <3>1, <3>2 DEF CornersInv
    <2>5. QED
      BY <2>1, <2>3, <2>4
  <1>11. CASE UNCHANGED vars
    BY <1>1, <1>11 DEF vars
  <1>12. QED
    BY <1>2, <1>3, <1>4, <1>5, <1>6, <1>7, <1>8, <1>9, <1>10, <1>11 DEF Next, DrawSteps

BoardInv ==
  /\ TypeInv /\ AtHome /\ CornersInv /\ Anchored
  /\ \A r \in Rooms : \A s \in canvas[r] : Drawable(s)

LEMMA BoardInvariance == Spec => []BoardInv
  <1>1. Init => BoardInv
    <2> SUFFICES ASSUME Init PROVE BoardInv
      OBVIOUS
    <2>1. TypeInv
      BY TypeInit
    <2>2. Range(outbox) = {}
      BY DEF Init, Range
    <2>3. Anchored
      BY DEF Init, Anchored
    <2>4. (\A r \in Rooms : canvas[r] = {} /\ underway[r] = {}) /\ AtHome
      BY OutsideEntry DEF Init, AtHome
    <2>5. QED
      BY <2>1, <2>2, <2>3, <2>4 DEF BoardInv, CornersInv
  <1>2. BoardInv /\ [Next]_vars => BoardInv'
    BY TypeStep, HomeStep, AnchoredStep, DrawableStep DEF BoardInv
  <1>3. QED
    BY <1>1, <1>2, PTL DEF Spec

\* Every variable of the page keeps its type, and its lists are sequences, for any
\* number of strokes, corners and failures.
THEOREM BoardTypeCorrect == Spec => []TypeOK
  <1>1. BoardInv => TypeOK
    BY DEF BoardInv, TypeInv
  <1>2. QED
    BY <1>1, BoardInvariance, PTL

\* Whatever tools are picked, strokes arrive and pages are left in the middle of a
\* gesture, nothing of another tool stays behind, and what the server keeps can be seen.
THEOREM GesturesDoNotMix == Spec => []GestureFitsTool
  <1>1. BoardInv => GestureFitsTool
    BY GestureParts DEF BoardInv
  <1>2. QED
    BY <1>1, BoardInvariance, PTL

-----------------------------------------------------------------------------
(* What a step does to the strokes of the page, of the wires and of the    *)
(* server.                                                                 *)

OnPage == IdsOf(Range(drawEvents))
Sent == IdsOf(Range(outbox))
Under(r) == IdsOf(underway[r])
Kept(r) == IdsOf(canvas[r])

Info(ro) == Message("info", {}, 0, ro)
State(S) == Message("state", S, 0, None)
Draw(s) == Message("draw", {s}, 0, None)
Undo(id) == Message("undo", {}, id, None)

Once(q) == \A j, k \in DOMAIN q : q[j].id = q[k].id => j = k

Around == Range(drawEvents) \cup Range(outbox)
            \cup UNION {underway[r] \cup canvas[r] : r \in Rooms}

\* An id names one stroke, and the next id none.
AroundInv ==
  /\ \A s \in Around : s.id < nextId
  /\ \A s, t \in Around : s.id = t.id => s = t
  /\ \A i \in unsent : i < nextId

\* A stroke is on its way once, or being hashed for one room, or kept for one room.
ApartInv ==
  /\ Once(outbox)
  /\ \A r \in Rooms : Sent \cap Under(r) = {} /\ Sent \cap Kept(r) = {}
  /\ \A q, r \in Rooms : Under(q) \cap Kept(r) = {}
  /\ \A q, r \in Rooms : q # r => Under(q) \cap Under(r) = {} /\ Kept(q) \cap Kept(r) = {}

\* What the socket of the page has sent went to the room of the page, after it was let in.
MineInv ==
  /\ first <= nextId
  /\ \A s \in Range(outbox) : s.own /\ s.id >= first
  /\ \A r \in Rooms : \A s \in underway[r] \cup canvas[r] : FromHere(s) => r = room
  /\ \A r \in Rooms : \A s \in underway[r] : FromHere(s) => clientData # None

\* Messages are those of the page that is open: strokes come from its room, and an undo
\* takes back what the server does not have, except astray strokes.
WiresInv ==
  /\ room = None => Range(inbox) = {} /\ Range(outbox) = {} /\ clientData = None
  /\ clientData = None <=> entry.pc = "out"
  /\ clientData = None => Range(inbox) = {}
  /\ clientData # None => entry.early \subseteq canvas[room]
  /\ \A m \in Range(inbox) : m.strokes \subseteq canvas[room]
  /\ \A m \in Range(inbox) : m.kind \in {"undo", "info"} => m.strokes = {}
  /\ \A m \in Range(inbox) : m.kind = "draw" => \A s \in m.strokes : ~FromHere(s)
  /\ \A m \in Range(inbox) : m.kind = "undo" =>
       /\ m.id \notin Sent /\ m.id < nextId /\ \A r \in Rooms : m.id \notin Under(r)
       /\ m.id \in astray \/ \A r \in Rooms : m.id \notin Kept(r)

\* What the user has drawn since the page was opened is on the page once.
OwnOnce ==
  \A i, j \in DOMAIN drawEvents :
    drawEvents[i].own /\ drawEvents[i].id >= first /\ drawEvents[i].id = drawEvents[j].id
      => i = j

Still ==
  UNCHANGED <<room, drawEvents, outbox, inbox, first, entry, clientData, underway, canvas,
              unsent, nextId, astray>>

Drew(s) ==
  /\ room # None /\ s \in Strokes /\ s.id = nextId /\ s.own /\ nextId' = nextId + 1
  /\ drawEvents' = Append(drawEvents, s)
  /\ \/ outbox' = Append(outbox, s) /\ astray' = astray
     \/ outbox' = outbox /\ astray' = astray \cup {nextId}
  /\ UNCHANGED <<room, inbox, first, entry, clientData, underway, canvas, unsent>>

Opened ==
  /\ room = None /\ room' \in Rooms /\ first' = nextId
  /\ UNCHANGED <<drawEvents, outbox, inbox, entry, clientData, underway, canvas, unsent, nextId,
                 astray>>

OtherDrew(r, s) ==
  /\ s \in Strokes /\ s.id = nextId /\ ~s.own /\ nextId' = nextId + 1
  /\ canvas' = [canvas EXCEPT ![r] = @ \cup {s}] /\ unsent' = unsent \cup {nextId}
  /\ UNCHANGED <<room, drawEvents, outbox, inbox, first, entry, clientData, underway, astray>>

Hashed(r, s) ==
  /\ s \in underway[r] /\ underway' = [underway EXCEPT ![r] = @ \ {s}]
  /\ canvas' = [canvas EXCEPT ![r] = @ \cup {s}] /\ unsent' = unsent \cup {s.id}
  /\ UNCHANGED <<room, drawEvents, outbox, inbox, first, entry, clientData, nextId, astray>>

Undone(r, s) ==
  /\ s \in underway[r] /\ underway' = [underway EXCEPT ![r] = @ \ {s}]
  /\ IF FromHere(s) THEN Range(inbox') = Range(inbox) \cup {Undo(s.id)} ELSE inbox' = inbox
  /\ \/ UNCHANGED <<canvas, astray>>
     \/ canvas' = [canvas EXCEPT ![r] = @ \cup {s}] /\ astray' = astray \cup {s.id}
  /\ UNCHANGED <<room, drawEvents, outbox, first, entry, clientData, unsent, nextId>>

Told(r, s) ==
  /\ s \in canvas[r] /\ s.id \in unsent /\ unsent' = unsent \ {s.id}
  /\ IF room = r /\ clientData # None /\ ~FromHere(s)
     THEN Range(inbox') = Range(inbox) \cup {Draw(s)}
     ELSE inbox' = inbox
  /\ UNCHANGED <<room, drawEvents, outbox, first, entry, clientData, underway, canvas, nextId,
                 astray>>

Left ==
  /\ room' = None /\ Range(inbox') = {} /\ outbox' = <<>> /\ clientData' = None
  /\ entry' = Outside /\ astray' = astray \cup Sent
  /\ UNCHANGED <<drawEvents, first, underway, canvas, unsent, nextId>>

Joined ==
  /\ room \in Rooms /\ clientData = None /\ clientData' # None
  /\ entry'.pc = "joined" /\ entry'.early \cup entry'.ahead = canvas[room]
  /\ UNCHANGED <<room, drawEvents, outbox, inbox, first, underway, canvas, unsent, nextId, astray>>

\* USER_INFO, of the one who joins or of one who is promoted.
Named ==
  /\ clientData # None /\ clientData' # None /\ entry.pc # "out" /\ entry'.pc # "out"
  /\ (entry'.pc = "in" <=> entry.pc = "in")
  /\ entry'.early = entry.early /\ entry'.ahead = entry.ahead
  /\ \E ro \in RoleOrNone : Range(inbox') = Range(inbox) \cup {Info(ro)}
  /\ UNCHANGED <<room, drawEvents, outbox, first, underway, canvas, unsent, nextId, astray>>

Stated(S) ==
  /\ room \in Rooms /\ clientData # None /\ entry.pc # "in" /\ entry'.pc = "in"
  /\ entry'.early = {} /\ entry.early \subseteq S /\ S \subseteq canvas[room]
  /\ Range(inbox') = Range(inbox) \cup {State(S)}
  /\ astray' = astray \cup IdsOf(entry.ahead \ S)
  /\ UNCHANGED <<room, drawEvents, outbox, first, clientData, underway, canvas, unsent, nextId>>

Served(s) ==
  /\ outbox # <<>> /\ s = Head(outbox) /\ outbox' = Tail(outbox)
  /\ \/ underway' = underway /\ astray' = astray \cup {s.id}
     \/ /\ clientData # None /\ underway' = [underway EXCEPT ![room] = @ \cup {s}]
        /\ astray' = astray
  /\ UNCHANGED <<room, drawEvents, inbox, first, entry, clientData, canvas, unsent, nextId>>

Replaced(m) ==
  OnPage \cap IdsOf(Range(outbox) \cup underway[room] \cup (canvas[room] \ m.strokes))

Got(m) ==
  /\ m \in Range(inbox) /\ Range(inbox) = {m} \cup Range(inbox')
  /\ \/ /\ m.kind = "state" /\ drawEvents' = InOrder(m.strokes)
        /\ astray' = astray \cup Replaced(m)
     \/ m.kind = "draw" /\ drawEvents' = drawEvents \o InOrder(m.strokes) /\ astray' = astray
     \/ m.kind = "undo" /\ drawEvents' = Without(m.id) /\ astray' = astray
     \/ m.kind = "info" /\ UNCHANGED <<drawEvents, astray>>
  /\ UNCHANGED <<room, outbox, first, entry, clientData, underway, canvas, unsent, nextId>>

LEMMA Effects ==
  ASSUME TypeInv, WiresInv, [Next]_vars
  PROVE  \/ Still \/ Opened \/ Left \/ Joined \/ Named
         \/ \E s \in Strokes : Drew(s) \/ Served(s)
         \/ \E r \in Rooms : \E s \in Strokes :
              OtherDrew(r, s) \/ Hashed(r, s) \/ Undone(r, s) \/ Told(r, s)
         \/ \E S \in SUBSET Strokes : Stated(S)
         \/ \E m \in Messages : Got(m)
  <1> USE DEF wires, server, socket, store
  <1>0. Lists /\ canvas \in [Rooms -> SUBSET Strokes] /\ underway \in [Rooms -> SUBSET Strokes]
    BY DEF TypeInv, TypeOK
  <1>1. ASSUME NEW t \in Tools, PickTool(t) PROVE Still
    BY <1>1 DEF PickTool, Still
  <1>2. ASSUME NEW p \in Points, MouseDown(p) \/ Click(p) \/ MouseMove(p) PROVE Still
    BY <1>2 DEF MouseDown, Click, MouseMove, OnlyGesture, Still
  <1>3. ASSUME DrawSteps PROVE \E s \in Strokes : Drew(s)
    <2>1. PICK type \in Tools \ {"cursor"}, points \in Seq(Points) : HandleDraw(type, points)
      BY <1>3, DrawCases
    <2>2. PICK s \in Strokes :
            /\ s.id = nextId /\ s.own /\ drawEvents' = Append(drawEvents, s)
            /\ \/ outbox' = Append(outbox, s) /\ astray' = astray
               \/ outbox' = outbox /\ astray' = astray \cup {nextId}
      BY <2>1, DrawnStroke
    <2>3. nextId' = nextId + 1
      BY <2>1, DrawnStroke
    <2>4. room # None /\ UNCHANGED <<room, inbox, first, entry, clientData, underway, canvas, unsent>>
      BY <1>3, DrawCases DEF Visible
    <2>5. Drew(s)
      BY <2>2, <2>3, <2>4 DEF Drew
    <2>6. QED
      BY <2>5
  <1>4. ASSUME NEW r \in Rooms, Open(r) PROVE Opened
    BY <1>4 DEF Open, Opened
  <1>5. ASSUME NEW r \in Rooms, OtherDraws(r) PROVE \E s \in Strokes : OtherDrew(r, s)
    <2> DEFINE s == [id |-> nextId, type |-> "line", corners |-> 2, dot |-> FALSE, own |-> FALSE]
    <2>1. s \in Strokes /\ s.id = nextId /\ ~s.own
      BY <1>5 DEF OtherDraws, Strokes, Tools
    <2>2. /\ nextId' = nextId + 1 /\ canvas' = [canvas EXCEPT ![r] = @ \cup {s}]
          /\ unsent' = unsent \cup {nextId}
          /\ UNCHANGED <<room, drawEvents, outbox, inbox, first, entry, clientData, underway, astray>>
      BY <1>5 DEF OtherDraws
    <2>3. QED
      <3> HIDE DEF s
      <3>1. QED
        BY <2>1, <2>2 DEF OtherDrew
  <1>6. ASSUME NEW r \in Rooms, HashStroke(r) PROVE \E s \in Strokes : Hashed(r, s)
    <2>1. PICK s \in underway[r] : Ends(r, s) /\ Store(r, s) /\ unsent' = unsent \cup {s.id}
      BY <1>6 DEF HashStroke
    <2>2. UNCHANGED <<room, drawEvents, outbox, inbox, first, entry, clientData, nextId, astray>>
      BY <1>6 DEF HashStroke
    <2>3. s \in Strokes
      BY <1>0
    <2>4. Hashed(r, s)
      BY <2>1, <2>2 DEF Hashed, Ends, Store
    <2>5. QED
      BY <2>3, <2>4
  <1>7. ASSUME NEW r \in Rooms, HashFails(r) PROVE \E s \in Strokes : Undone(r, s)
    <2>1. PICK s \in underway[r] :
            /\ Ends(r, s)
            /\ inbox' = IF FromHere(s) THEN Append(inbox, Undo(s.id)) ELSE inbox
            /\ \/ UNCHANGED <<canvas, astray>>
               \/ Store(r, s) /\ astray' = astray \cup {s.id}
      BY <1>7 DEF HashFails, Undo
    <2>2. UNCHANGED <<room, drawEvents, outbox, first, entry, clientData, unsent, nextId>>
      BY <1>7 DEF HashFails
    <2>3. s \in Strokes /\ s.id \in Ids
      BY <1>0 DEF Strokes
    <2>4. Undo(s.id) \in Messages
      BY <2>3 DEF Undo, Message, Messages, RoleOrNone
    <2>5. Range(Append(inbox, Undo(s.id))) = Range(inbox) \cup {Undo(s.id)}
      BY <1>0, <2>4, RangeAppend DEF Lists
    <2>6. IF FromHere(s) THEN Range(inbox') = Range(inbox) \cup {Undo(s.id)} ELSE inbox' = inbox
      BY <2>1, <2>5
    <2>7. Undone(r, s)
      BY <2>1, <2>2, <2>6 DEF Undone, Ends, Store
    <2>8. QED
      BY <2>3, <2>7
  <1>8. ASSUME NEW r \in Rooms, Broadcast(r) PROVE \E s \in Strokes : Told(r, s)
    <2>1. PICK s \in canvas[r] :
            /\ s.id \in unsent /\ unsent' = unsent \ {s.id}
            /\ inbox' = IF room = r /\ clientData # None /\ ~FromHere(s)
                        THEN Append(inbox, Draw(s)) ELSE inbox
      BY <1>8 DEF Broadcast, Draw
    <2>2. s \in Strokes
      BY <1>0
    <2>3. Draw(s) \in Messages
      BY <2>2 DEF Draw, Message, Messages, RoleOrNone
    <2>4. UNCHANGED <<room, drawEvents, outbox, first, entry, clientData, underway, canvas, nextId,
                      astray>>
      BY <1>8 DEF Broadcast
    <2>5. Range(Append(inbox, Draw(s))) = Range(inbox) \cup {Draw(s)}
      BY <1>0, <2>3, RangeAppend DEF Lists
    <2>6. IF room = r /\ clientData # None /\ ~FromHere(s)
          THEN Range(inbox') = Range(inbox) \cup {Draw(s)} ELSE inbox' = inbox
      BY <2>1, <2>5
    <2>7. Told(r, s)
      BY <2>1, <2>4, <2>6 DEF Told
    <2>8. QED
      BY <2>2, <2>7
  <1>9. ASSUME Leave PROVE Left
    <2>1. Range(<<>>) = {}
      BY DEF Range
    <2>2. QED
      BY <1>9, <2>1 DEF Leave, Left, Sent
  <1>10. ASSUME Join PROVE Joined
    <2>1. /\ UNCHANGED <<room, drawEvents, outbox, inbox, first, underway, canvas, unsent, nextId,
                         astray>>
          /\ room \in Rooms /\ entry.pc = "out"
      BY <1>10 DEF Join, TypeInv, TypeOK
    <2>2. PICK ro \in Roles, ahead \in SUBSET canvas[room] :
            /\ clientData' = ro
            /\ entry' = [pc |-> "joined", role |-> ro, early |-> canvas[room] \ ahead,
                         ahead |-> ahead]
      BY <1>10 DEF Join
    <2>3. clientData' # None
      BY <2>2, NoneAssumption, RoleAssumption
    <2>4. entry'.pc = "joined" /\ entry'.early \cup entry'.ahead = canvas[room]
      BY <2>2
    <2>5. QED
      BY <2>1, <2>3, <2>4 DEF Joined, WiresInv
  <1>11. ASSUME Inform PROVE Named
    <2>1. /\ UNCHANGED <<room, drawEvents, outbox, first, clientData, underway, canvas, unsent,
                         nextId, astray>>
          /\ entry.pc = "joined" /\ entry' = [entry EXCEPT !.pc = "informed"]
          /\ inbox' = Append(inbox, Info(entry.role))
      BY <1>11 DEF Inform, Info
    <2>2. entry \in Entries
      BY DEF TypeInv, TypeOK
    <2>3. entry'.pc = "informed" /\ entry.role \in RoleOrNone
          /\ entry'.early = entry.early /\ entry'.ahead = entry.ahead
      BY <2>1, <2>2 DEF Entries
    <2>4. Info(entry.role) \in Messages
      BY <2>3 DEF Info, Message, Messages
    <2>5. Range(inbox') = Range(inbox) \cup {Info(entry.role)}
      BY <1>0, <2>1, <2>4, RangeAppend DEF Lists
    <2>6. clientData # None
      BY <2>1 DEF WiresInv
    <2>7. QED
      BY <2>1, <2>3, <2>5, <2>6 DEF Named
  <1>12. ASSUME Promote PROVE Named
    <2>1. /\ UNCHANGED <<room, drawEvents, outbox, first, entry, underway, canvas, unsent, nextId,
                         astray>>
          /\ clientData # None
      BY <1>12 DEF Promote
    <2>2. PICK ro \in Roles : clientData' = ro /\ inbox' = Append(inbox, Info(ro))
      BY <1>12 DEF Promote, Info
    <2>3. Info(ro) \in Messages /\ ro \in RoleOrNone
      BY DEF Info, Message, Messages, RoleOrNone
    <2>4. Range(inbox') = Range(inbox) \cup {Info(ro)}
      BY <1>0, <2>2, <2>3, RangeAppend DEF Lists
    <2>5. clientData' # None /\ entry.pc # "out"
      BY <2>1, <2>2, NoneAssumption, RoleAssumption DEF WiresInv
    <2>6. QED
      BY <2>1, <2>3, <2>4, <2>5 DEF Named
  <1>13. ASSUME SendCanvasState PROVE \E S \in SUBSET Strokes : Stated(S)
    <2>1. /\ UNCHANGED <<room, drawEvents, outbox, first, clientData, underway, canvas, unsent,
                         nextId>>
          /\ entry.pc = "informed" /\ entry' = [Outside EXCEPT !.pc = "in"]
      BY <1>13 DEF SendCanvasState
    <2>2. PICK S \in SUBSET canvas[room] :
            /\ entry.early \subseteq S /\ inbox' = Append(inbox, State(S))
            /\ astray' = astray \cup IdsOf(entry.ahead \ S)
      BY <1>13 DEF SendCanvasState, State
    <2>3. clientData # None /\ room \in Rooms
      BY <2>1 DEF WiresInv, TypeInv, TypeOK
    <2>4. S \in SUBSET Strokes
      BY <1>0, <2>2, <2>3
    <2>5. entry'.pc = "in" /\ entry'.early = {}
      BY <2>1 DEF Outside
    <2>6. State(S) \in Messages
      BY <2>4 DEF State, Message, Messages, RoleOrNone
    <2>7. Range(inbox') = Range(inbox) \cup {State(S)}
      BY <1>0, <2>2, <2>6, RangeAppend DEF Lists
    <2>8. Stated(S)
      BY <2>1, <2>2, <2>3, <2>5, <2>7 DEF Stated
    <2>9. QED
      BY <2>4, <2>8
  <1>14. ASSUME ServerReceives PROVE \E s \in Strokes : Served(s)
    <2> DEFINE s == Head(outbox)
    <2>1. /\ UNCHANGED <<room, drawEvents, inbox, first, entry, clientData, canvas, unsent, nextId>>
          /\ outbox # <<>> /\ outbox' = Tail(outbox)
          /\ Refuse(s) \/ Accept(s)
      BY <1>14 DEF ServerReceives
    <2>2. s \in Strokes
      BY <1>0, <2>1, RangeTail DEF Lists
    <2>3. MayDraw => clientData # None
      BY NoneAssumption DEF MayDraw
    <2>4. \/ underway' = underway /\ astray' = astray \cup {s.id}
          \/ /\ clientData # None /\ underway' = [underway EXCEPT ![room] = @ \cup {s}]
             /\ astray' = astray
      <3> HIDE DEF s
      <3>1. QED
        BY <2>1, <2>3 DEF Refuse, Accept
    <2>5. Served(s)
      BY <2>1, <2>4 DEF Served
    <2>6. QED
      BY <2>2, <2>5
  <1>15. ASSUME PageReceives PROVE \E m \in Messages : Got(m)
    <2> DEFINE m == Head(inbox)
    <2>1. /\ UNCHANGED <<room, outbox, first, entry, clientData, underway, canvas, unsent, nextId>>
          /\ inbox # <<>> /\ inbox' = Tail(inbox)
          /\ \/ m.kind = "state" /\ HandleCanvasState(m)
             \/ m.kind = "draw" /\ HandleDrawEvent(m)
             \/ m.kind = "undo" /\ HandleUndoDraw(m)
             \/ m.kind = "info" /\ HandleUserInfo(m)
      BY <1>15 DEF PageReceives
    <2>2. m \in Messages /\ Range(inbox) = {m} \cup Range(inbox')
      BY <1>0, <2>1, RangeTail DEF Lists
    <2>3. Got(m)
      <3> HIDE DEF m
      <3>1. QED
        BY <2>1, <2>2
           DEF HandleCanvasState, HandleDrawEvent, HandleUndoDraw, HandleUserInfo, Got, Replaced,
               OnPage
    <2>4. QED
      BY <2>2, <2>3
  <1>16. CASE UNCHANGED vars
    BY <1>16 DEF vars, Still
  <1>17. QED
    <2>1. CASE Next
      <3>1. Next <=> \/ \E t \in Tools : PickTool(t)
                     \/ \E p \in Points : MouseDown(p) \/ Click(p) \/ MouseMove(p)
                     \/ DrawSteps
                     \/ \E r \in Rooms : Open(r) \/ OtherDraws(r)
                     \/ \E r \in Rooms : HashStroke(r) \/ HashFails(r) \/ Broadcast(r)
                     \/ Leave \/ Join \/ Inform \/ SendCanvasState \/ Promote
                     \/ ServerReceives \/ PageReceives
        BY DEF Next, DrawSteps
      <3>2. QED
        BY <1>1, <1>2, <1>3, <1>4, <1>5, <1>6, <1>7, <1>8, <1>9, <1>10, <1>11, <1>12, <1>13,
           <1>14, <1>15, <2>1, <3>1
    <2>2. QED
      BY <1>16, <2>1

-----------------------------------------------------------------------------
(* Ids and wires.                                                          *)

LEMMA MessageFields ==
  /\ \A ro : Info(ro).kind = "info" /\ Info(ro).strokes = {}
  /\ \A S : State(S).kind = "state" /\ State(S).strokes = S
  /\ \A s : Draw(s).kind = "draw" /\ Draw(s).strokes = {s}
  /\ \A i : Undo(i).kind = "undo" /\ Undo(i).strokes = {} /\ Undo(i).id = i
  BY DEF Info, State, Draw, Undo, Message

\* A stroke that is stored for a room.
LEMMA KeptGrows ==
  ASSUME TypeInv, NEW r \in Rooms, NEW s, canvas' = [canvas EXCEPT ![r] = @ \cup {s}]
  PROVE  \A q \in Rooms :
           /\ canvas'[q] = IF q = r THEN canvas[q] \cup {s} ELSE canvas[q]
           /\ Kept(q)' = IF q = r THEN Kept(q) \cup {s.id} ELSE Kept(q)
  <1>1. canvas \in [Rooms -> SUBSET Strokes]
    BY DEF TypeInv, TypeOK
  <1>2. \A q \in Rooms : canvas'[q] = IF q = r THEN canvas[q] \cup {s} ELSE canvas[q]
    BY <1>1
  <1>3. QED
    BY <1>2 DEF Kept, IdsOf

\* A stroke whose HSET begins.
LEMMA UnderGrows ==
  ASSUME TypeInv, NEW r \in Rooms, NEW s, underway' = [underway EXCEPT ![r] = @ \cup {s}]
  PROVE  \A q \in Rooms :
           /\ underway'[q] = IF q = r THEN underway[q] \cup {s} ELSE underway[q]
           /\ Under(q)' = IF q = r THEN Under(q) \cup {s.id} ELSE Under(q)
  <1>1. underway \in [Rooms -> SUBSET Strokes]
    BY DEF TypeInv, TypeOK
  <1>2. \A q \in Rooms : underway'[q] = IF q = r THEN underway[q] \cup {s} ELSE underway[q]
    BY <1>1
  <1>3. QED
    BY <1>2 DEF Under, IdsOf

\* A stroke whose HSET has ended: no other that is under way has its id.
LEMMA UnderShrinks ==
  ASSUME TypeInv, AroundInv, NEW r \in Rooms, NEW s \in underway[r],
         underway' = [underway EXCEPT ![r] = @ \ {s}]
  PROVE  \A q \in Rooms :
           /\ underway'[q] = IF q = r THEN underway[q] \ {s} ELSE underway[q]
           /\ Under(q)' = IF q = r THEN Under(q) \ {s.id} ELSE Under(q)
  <1>1. underway \in [Rooms -> SUBSET Strokes]
    BY DEF TypeInv, TypeOK
  <1>2. \A q \in Rooms : underway'[q] = IF q = r THEN underway[q] \ {s} ELSE underway[q]
    BY <1>1
  <1>3. \A t \in underway[r] : t.id = s.id => t = s
    BY DEF AroundInv, Around
  <1>4. QED
    BY <1>2, <1>3 DEF Under, IdsOf

\* The sets of what the lists hold, after the steps that change them.
LEMMA EffectSets ==
  ASSUME TypeInv
  PROVE  /\ \A s \in Strokes : Drew(s) =>
              /\ Range(drawEvents') = Range(drawEvents) \cup {s}
              /\ \/ Range(outbox') = Range(outbox) \cup {s} /\ astray' = astray
                 \/ outbox' = outbox /\ astray' = astray \cup {s.id}
         /\ \A s \in Strokes : Served(s) =>
              /\ s \in Range(outbox) /\ Range(outbox) = {s} \cup Range(outbox')
         /\ Left => Range(outbox') = {}
         /\ \A m \in Messages : Got(m) =>
              /\ m.kind = "state" => Range(drawEvents') \subseteq m.strokes
                                     /\ IdsOf(Range(drawEvents')) = IdsOf(m.strokes)
              /\ m.kind = "draw" => /\ Range(drawEvents') \subseteq Range(drawEvents) \cup m.strokes
                                    /\ IdsOf(Range(drawEvents')) = OnPage \cup IdsOf(m.strokes)
              /\ m.kind = "undo" => Range(drawEvents') = {s \in Range(drawEvents) : s.id # m.id}
              /\ m.kind = "info" => drawEvents' = drawEvents
  <1>1. Lists
    BY DEF TypeInv
  <1>2. ASSUME NEW s \in Strokes, Drew(s)
        PROVE  /\ Range(drawEvents') = Range(drawEvents) \cup {s}
               /\ \/ Range(outbox') = Range(outbox) \cup {s} /\ astray' = astray
                  \/ outbox' = outbox /\ astray' = astray \cup {s.id}
    <2>1. Range(Append(drawEvents, s)) = Range(drawEvents) \cup {s}
      BY <1>1, RangeAppend DEF Lists
    <2>2. Range(Append(outbox, s)) = Range(outbox) \cup {s}
      BY <1>1, RangeAppend DEF Lists
    <2>3. QED
      BY <1>2, <2>1, <2>2 DEF Drew
  <1>3. ASSUME NEW s \in Strokes, Served(s)
        PROVE  s \in Range(outbox) /\ Range(outbox) = {s} \cup Range(outbox')
    <2>1. Range(outbox) = {Head(outbox)} \cup Range(Tail(outbox))
      BY <1>1, <1>3, RangeTail DEF Served, Lists
    <2>2. QED
      BY <1>3, <2>1 DEF Served
  <1>4. Left => Range(outbox') = {}
    <2>1. Range(<<>>) = {}
      BY DEF Range
    <2>2. QED
      BY <2>1 DEF Left
  <1>5. ASSUME NEW m \in Messages, Got(m)
        PROVE  /\ m.kind = "state" => Range(drawEvents') \subseteq m.strokes
                                      /\ IdsOf(Range(drawEvents')) = IdsOf(m.strokes)
               /\ m.kind = "draw" => /\ Range(drawEvents') \subseteq Range(drawEvents) \cup m.strokes
                                     /\ IdsOf(Range(drawEvents')) = OnPage \cup IdsOf(m.strokes)
               /\ m.kind = "undo" => Range(drawEvents') = {s \in Range(drawEvents) : s.id # m.id}
               /\ m.kind = "info" => drawEvents' = drawEvents
    <2>1. m.strokes \in SUBSET Strokes
      BY DEF Messages
    <2>2. InOrder(m.strokes) \in Seq(m.strokes) /\ IdsOf(Range(InOrder(m.strokes))) = IdsOf(m.strokes)
      BY <2>1, InOrderLists
    <2>3. Range(InOrder(m.strokes)) \subseteq m.strokes
      BY <2>2, RangeSeq
    <2>4. CASE m.kind = "state"
      <3>1. drawEvents' = InOrder(m.strokes)
        BY <1>5, <2>4 DEF Got
      <3>2. QED
        BY <2>2, <2>3, <2>4, <3>1
    <2>5. CASE m.kind = "draw"
      <3>1. drawEvents' = drawEvents \o InOrder(m.strokes)
        BY <1>5, <2>5 DEF Got
      <3>2. InOrder(m.strokes) \in Seq(Strokes)
        BY <2>1, <2>2
      <3>3. Range(drawEvents') = Range(drawEvents) \cup Range(InOrder(m.strokes))
        BY <1>1, <3>1, <3>2, RangeConcat DEF Lists
      <3>4. IdsOf(Range(drawEvents')) = OnPage \cup IdsOf(Range(InOrder(m.strokes)))
        BY <3>3 DEF IdsOf, OnPage
      <3>5. QED
        BY <2>2, <2>3, <2>5, <3>3, <3>4
    <2>6. CASE m.kind = "undo"
      <3>1. drawEvents' = Without(m.id)
        BY <1>5, <2>6 DEF Got
      <3>2. Range(Without(m.id)) = {s \in Range(drawEvents) : s.id # m.id}
        BY <1>1, WithoutLists DEF Lists
      <3>3. QED
        BY <2>6, <3>1, <3>2
    <2>7. CASE m.kind = "info"
      BY <1>5, <2>7 DEF Got
    <2>8. QED
      BY <2>4, <2>5, <2>6, <2>7
  <1>6. QED
    BY <1>2, <1>3, <1>4, <1>5

LEMMA OnceTail ==
  ASSUME NEW S, NEW q \in Seq(S), q # <<>>, Once(q)
  PROVE  Once(Tail(q)) /\ \A s \in Range(Tail(q)) : s.id # Head(q).id
  <1>1. /\ Head(q) = q[1] /\ 1 \in DOMAIN q /\ Len(q) \in Nat
        /\ DOMAIN q = 1..Len(q) /\ DOMAIN Tail(q) = 1..(Len(q) - 1)
        /\ \A i \in 1..(Len(q) - 1) : Tail(q)[i] = q[i + 1]
    OBVIOUS
  <1>2. ASSUME NEW j \in DOMAIN Tail(q), NEW k \in DOMAIN Tail(q), Tail(q)[j].id = Tail(q)[k].id
        PROVE  j = k
    <2>1. j + 1 \in DOMAIN q /\ k + 1 \in DOMAIN q /\ q[j + 1].id = q[k + 1].id
      BY <1>1, <1>2
    <2>2. j + 1 = k + 1
      BY <2>1 DEF Once
    <2>3. QED
      BY <1>1, <2>2
  <1>3. ASSUME NEW s \in Range(Tail(q)), s.id = Head(q).id PROVE FALSE
    <2>1. PICK j \in DOMAIN Tail(q) : s = Tail(q)[j]
      BY DEF Range
    <2>2. j + 1 \in DOMAIN q /\ q[j + 1].id = q[1].id /\ j + 1 # 1
      BY <1>1, <1>3, <2>1
    <2>3. QED
      BY <1>1, <2>2 DEF Once
  <1>4. QED
    BY <1>2, <1>3 DEF Once

LEMMA OnceAppend ==
  ASSUME NEW S, NEW q \in Seq(S), NEW x \in S, Once(q), \A s \in Range(q) : s.id # x.id
  PROVE  Once(Append(q, x))
  <1>1. /\ DOMAIN q = 1..Len(q) /\ Len(q) \in Nat
        /\ DOMAIN Append(q, x) = 1..(Len(q) + 1)
        /\ \A i \in 1..Len(q) : Append(q, x)[i] = q[i] /\ q[i] \in Range(q)
        /\ Append(q, x)[Len(q) + 1] = x
    BY DEF Range
  <1>2. \A i \in DOMAIN Append(q, x) : i \in 1..Len(q) \/ i = Len(q) + 1
    BY <1>1
  <1>3. QED
    BY <1>1, <1>2 DEF Once

\* What is around changes by one stroke at most, and that one is new.
LEMMA AroundStep ==
  ASSUME TypeInv, AroundInv, WiresInv, [Next]_vars PROVE AroundInv'
  <1>0. /\ nextId \in Nat /\ \A s \in Around : s.id \in Nat
        /\ \A i \in unsent : i \in Nat
        /\ canvas \in [Rooms -> SUBSET Strokes] /\ underway \in [Rooms -> SUBSET Strokes]
    BY DEF TypeInv, TypeOK, Around, Strokes, Ids
  <1>1. ASSUME Around' \subseteq Around, nextId' = nextId, \A i \in unsent' : i < nextId
        PROVE  AroundInv'
    BY <1>1 DEF AroundInv
  <1>2. ASSUME NEW s \in Strokes, s.id = nextId, nextId' = nextId + 1,
               Around' \subseteq Around \cup {s}, unsent' \subseteq unsent \cup {nextId}
        PROVE  AroundInv'
    <2>1. \A t \in Around' : t.id < nextId' /\ (t \in Around \/ t = s)
      BY <1>0, <1>2 DEF AroundInv
    <2>2. \A t, u \in Around' : t.id = u.id => t = u
      BY <1>0, <1>2 DEF AroundInv
    <2>3. \A i \in unsent' : i < nextId'
      BY <1>0, <1>2 DEF AroundInv
    <2>4. QED
      BY <2>1, <2>2, <2>3 DEF AroundInv
  <1>3. CASE Still \/ Opened \/ Left \/ Joined \/ Named
    <2>1. /\ UNCHANGED <<drawEvents, underway, canvas, unsent, nextId>>
          /\ Range(outbox') \subseteq Range(outbox)
      BY <1>3, EffectSets DEF Still, Opened, Left, Joined, Named
    <2>2. Around' \subseteq Around
      BY <2>1 DEF Around
    <2>3. QED
      BY <1>1, <2>1, <2>2 DEF AroundInv
  <1>4. ASSUME NEW s \in Strokes, Drew(s) PROVE AroundInv'
    <2>1. Range(drawEvents') = Range(drawEvents) \cup {s} /\ Range(outbox') \subseteq Range(outbox) \cup {s}
      BY <1>4, EffectSets
    <2>2. /\ s.id = nextId /\ nextId' = nextId + 1
          /\ unsent' = unsent /\ canvas' = canvas /\ underway' = underway
      BY <1>4 DEF Drew
    <2>3. Around' \subseteq Around \cup {s}
      BY <2>1, <2>2 DEF Around
    <2>4. QED
      BY <1>2, <2>2, <2>3
  <1>5. ASSUME NEW s \in Strokes, Served(s) PROVE AroundInv'
    <2>1. s \in Range(outbox) /\ Range(outbox') \subseteq Range(outbox)
      BY <1>5, EffectSets
    <2>2. /\ UNCHANGED <<drawEvents, canvas, unsent, nextId>>
          /\ underway' = underway \/ underway' = [underway EXCEPT ![room] = @ \cup {s}]
      BY <1>5 DEF Served
    <2>3. \A r \in Rooms : underway'[r] \subseteq underway[r] \cup {s}
      BY <1>0, <2>2
    <2>4. Around' \subseteq Around
      BY <2>1, <2>2, <2>3 DEF Around
    <2>5. QED
      BY <1>1, <2>2, <2>4 DEF AroundInv
  <1>6. ASSUME NEW r \in Rooms, NEW s \in Strokes, OtherDrew(r, s) PROVE AroundInv'
    <2>1. /\ UNCHANGED <<drawEvents, outbox, underway>> /\ s.id = nextId /\ nextId' = nextId + 1
          /\ unsent' = unsent \cup {nextId}
          /\ canvas' = [canvas EXCEPT ![r] = @ \cup {s}]
      BY <1>6 DEF OtherDrew
    <2>2. \A q \in Rooms : canvas'[q] \subseteq canvas[q] \cup {s}
      BY <1>0, <2>1
    <2>3. Around' \subseteq Around \cup {s}
      BY <2>1, <2>2 DEF Around
    <2>4. QED
      BY <1>2, <2>1, <2>3
  <1>7. ASSUME NEW r \in Rooms, NEW s \in Strokes, Hashed(r, s) \/ Undone(r, s) PROVE AroundInv'
    <2>1. /\ UNCHANGED <<drawEvents, outbox, nextId>> /\ unsent' \subseteq unsent \cup {s.id}
          /\ s \in underway[r] /\ underway' = [underway EXCEPT ![r] = @ \ {s}]
          /\ canvas' = canvas \/ canvas' = [canvas EXCEPT ![r] = @ \cup {s}]
      BY <1>7 DEF Hashed, Undone
    <2>2. s \in Around
      BY <2>1 DEF Around
    <2>3. \A q \in Rooms : canvas'[q] \subseteq canvas[q] \cup {s} /\ underway'[q] \subseteq underway[q]
      BY <1>0, <2>1
    <2>4. Around' \subseteq Around
      BY <2>1, <2>2, <2>3 DEF Around
    <2>5. QED
      BY <1>1, <2>1, <2>2, <2>4 DEF AroundInv
  <1>8. ASSUME NEW r \in Rooms, NEW s \in Strokes, Told(r, s) PROVE AroundInv'
    <2>1. UNCHANGED <<drawEvents, outbox, underway, canvas, nextId>> /\ unsent' \subseteq unsent
      BY <1>8 DEF Told
    <2>2. Around' = Around
      BY <2>1 DEF Around
    <2>3. QED
      BY <1>1, <2>1, <2>2 DEF AroundInv
  <1>9. ASSUME NEW S \in SUBSET Strokes, Stated(S) PROVE AroundInv'
    <2>1. UNCHANGED <<drawEvents, outbox, underway, canvas, nextId, unsent>>
      BY <1>9 DEF Stated
    <2>2. Around' = Around
      BY <2>1 DEF Around
    <2>3. QED
      BY <1>1, <2>1, <2>2 DEF AroundInv
  <1>10. ASSUME NEW m \in Messages, Got(m) PROVE AroundInv'
    <2>1. UNCHANGED <<outbox, underway, canvas, unsent, nextId>> /\ m \in Range(inbox)
      BY <1>10 DEF Got
    <2>2. room \in Rooms /\ m.strokes \subseteq canvas[room]
      BY <2>1 DEF WiresInv, TypeInv, TypeOK
    <2>3. Range(drawEvents') \subseteq Range(drawEvents) \cup m.strokes
      <3>1. m.kind \in {"state", "draw", "undo", "info"}
        BY DEF Messages
      <3>2. QED
        BY <1>10, <3>1, EffectSets
    <2>4. Around' \subseteq Around
      BY <2>1, <2>2, <2>3 DEF Around
    <2>5. QED
      BY <1>1, <2>1, <2>4 DEF AroundInv
  <1>11. QED
    BY <1>3, <1>4, <1>5, <1>6, <1>7, <1>8, <1>9, <1>10, Effects

LEMMA ApartStep ==
  ASSUME TypeInv, AroundInv, ApartInv, WiresInv, [Next]_vars PROVE ApartInv'
  <1>0. /\ nextId \in Nat /\ \A s \in Around : s.id \in Nat /\ s.id < nextId
        /\ outbox \in Seq(Strokes)
        /\ clientData # None => room \in Rooms
    BY DEF TypeInv, TypeOK, Lists, Around, AroundInv, WiresInv, Strokes, Ids
  <1>1. nextId \notin Sent /\ \A r \in Rooms : nextId \notin Kept(r) /\ nextId \notin Under(r)
    BY <1>0 DEF Sent, Kept, Under, IdsOf, Around
  <1>2. ASSUME UNCHANGED <<outbox, underway, canvas>> PROVE ApartInv'
    BY <1>2 DEF ApartInv, Sent, Kept, Under, Once
  <1>3. ASSUME Left PROVE ApartInv'
    <2>1. Range(outbox') = {} /\ outbox' = <<>> /\ UNCHANGED <<underway, canvas>>
      BY <1>3, EffectSets DEF Left
    <2>2. Once(<<>>) /\ Sent' = {}
      BY <2>1 DEF Once, Sent, IdsOf
    <2>3. QED
      BY <2>1, <2>2 DEF ApartInv, Kept, Under, Once
  <1>4. ASSUME NEW s \in Strokes, Drew(s) PROVE ApartInv'
    <2>1. canvas' = canvas /\ underway' = underway /\ s.id = nextId
      BY <1>4 DEF Drew
    <2>2. CASE outbox' = Append(outbox, s)
      <3>1. Range(outbox') = Range(outbox) \cup {s}
        BY <1>0, <2>2, RangeAppend
      <3>2. \A t \in Range(outbox) : t.id # s.id
        BY <1>1, <2>1 DEF Sent, IdsOf
      <3>3. Once(outbox')
        BY <1>0, <2>2, <3>2, OnceAppend DEF ApartInv
      <3>4. Sent' = Sent \cup {s.id}
        BY <3>1 DEF Sent, IdsOf
      <3>5. \A r \in Rooms : Kept(r)' = Kept(r) /\ Under(r)' = Under(r)
        BY <2>1 DEF Kept, Under
      <3>6. \A r \in Rooms : Sent' \cap Under(r)' = {} /\ Sent' \cap Kept(r)' = {}
        BY <1>1, <2>1, <3>4, <3>5 DEF ApartInv
      <3>7. QED
        BY <3>3, <3>5, <3>6 DEF ApartInv, Once
    <2>3. CASE outbox' = outbox
      BY <1>2, <2>1, <2>3
    <2>4. QED
      BY <1>4, <2>2, <2>3 DEF Drew
  <1>5. ASSUME NEW s \in Strokes, Served(s) PROVE ApartInv'
    <2>1. s \in Range(outbox) /\ Range(outbox) = {s} \cup Range(outbox')
      BY <1>5, EffectSets
    <2>2. outbox # <<>> /\ outbox' = Tail(outbox) /\ s = Head(outbox) /\ canvas' = canvas
      BY <1>5 DEF Served
    <2>3. Once(outbox') /\ \A t \in Range(outbox') : t.id # s.id
      BY <1>0, <2>2, OnceTail DEF ApartInv
    <2>4. s.id \notin Sent' /\ Sent' \subseteq Sent /\ s.id \in Sent
      BY <2>1, <2>3 DEF Sent, IdsOf
    <2>5. \A r \in Rooms : Kept(r)' = Kept(r) /\ s.id \notin Under(r) /\ s.id \notin Kept(r)
      BY <2>2, <2>4 DEF Kept, ApartInv
    <2>6. CASE underway' = underway
      <3>1. \A r \in Rooms : Under(r)' = Under(r)
        BY <2>6 DEF Under
      <3>2. QED
        BY <2>3, <2>4, <2>5, <3>1 DEF ApartInv, Once
    <2>7. CASE clientData # None /\ underway' = [underway EXCEPT ![room] = @ \cup {s}]
      <3>1. \A r \in Rooms : Under(r)' = IF r = room THEN Under(r) \cup {s.id} ELSE Under(r)
        BY <1>0, <2>7, UnderGrows
      <3>2. \A r \in Rooms : Sent' \cap Under(r)' = {} /\ Sent' \cap Kept(r)' = {}
        BY <2>4, <2>5, <3>1 DEF ApartInv
      <3>3. \A q, r \in Rooms : Under(q)' \cap Kept(r)' = {}
        BY <2>5, <3>1 DEF ApartInv
      <3>4. \A q, r \in Rooms : q # r => Under(q)' \cap Under(r)' = {} /\ Kept(q)' \cap Kept(r)' = {}
        BY <2>5, <3>1 DEF ApartInv
      <3>5. QED
        BY <2>3, <3>2, <3>3, <3>4 DEF ApartInv, Once
    <2>8. QED
      BY <1>5, <2>6, <2>7 DEF Served
  <1>6. ASSUME NEW r \in Rooms, NEW s \in Strokes, OtherDrew(r, s) PROVE ApartInv'
    <2>1. /\ outbox' = outbox /\ underway' = underway /\ s.id = nextId
          /\ canvas' = [canvas EXCEPT ![r] = @ \cup {s}]
      BY <1>6 DEF OtherDrew
    <2>2. \A q \in Rooms : Kept(q)' = IF q = r THEN Kept(q) \cup {nextId} ELSE Kept(q)
      BY <2>1, KeptGrows
    <2>3. Sent' = Sent /\ \A q \in Rooms : Under(q)' = Under(q)
      BY <2>1 DEF Sent, Under
    <2>4. \A q \in Rooms : Sent' \cap Under(q)' = {} /\ Sent' \cap Kept(q)' = {}
      BY <1>1, <2>2, <2>3 DEF ApartInv
    <2>5. \A p, q \in Rooms : Under(p)' \cap Kept(q)' = {}
      BY <1>1, <2>2, <2>3 DEF ApartInv
    <2>6. \A p, q \in Rooms : p # q => Under(p)' \cap Under(q)' = {} /\ Kept(p)' \cap Kept(q)' = {}
      BY <1>1, <2>2, <2>3 DEF ApartInv
    <2>7. QED
      BY <2>1, <2>4, <2>5, <2>6 DEF ApartInv, Once
  <1>7. ASSUME NEW r \in Rooms, NEW s \in Strokes, Hashed(r, s) \/ Undone(r, s) PROVE ApartInv'
    <2>1. /\ outbox' = outbox /\ s \in underway[r] /\ underway' = [underway EXCEPT ![r] = @ \ {s}]
          /\ canvas' = canvas \/ canvas' = [canvas EXCEPT ![r] = @ \cup {s}]
      BY <1>7 DEF Hashed, Undone
    <2>2. s.id \in Under(r)
      BY <2>1 DEF Under, IdsOf
    <2>3. \A q \in Rooms : Under(q)' = IF q = r THEN Under(q) \ {s.id} ELSE Under(q)
      BY <2>1, UnderShrinks
    <2>4. \/ \A q \in Rooms : Kept(q)' = Kept(q)
          \/ \A q \in Rooms : Kept(q)' = IF q = r THEN Kept(q) \cup {s.id} ELSE Kept(q)
      <3>1. CASE canvas' = canvas
        BY <3>1 DEF Kept
      <3>2. CASE canvas' = [canvas EXCEPT ![r] = @ \cup {s}]
        BY <3>2, KeptGrows
      <3>3. QED
        BY <2>1, <3>1, <3>2
    <2>5. Sent' = Sent
      BY <2>1 DEF Sent
    <2>6. s.id \notin Sent /\ \A q \in Rooms : s.id \notin Kept(q) /\ (q # r => s.id \notin Under(q))
      BY <2>2 DEF ApartInv
    <2>7. \A q \in Rooms : Sent' \cap Under(q)' = {} /\ Sent' \cap Kept(q)' = {}
      BY <2>3, <2>4, <2>5, <2>6 DEF ApartInv
    <2>8. \A p, q \in Rooms : Under(p)' \cap Kept(q)' = {}
      BY <2>3, <2>4, <2>6 DEF ApartInv
    <2>9. \A p, q \in Rooms : p # q => Under(p)' \cap Under(q)' = {} /\ Kept(p)' \cap Kept(q)' = {}
      BY <2>3, <2>4, <2>6 DEF ApartInv
    <2>10. QED
      BY <2>1, <2>7, <2>8, <2>9 DEF ApartInv, Once
  <1>8. ASSUME NEW r \in Rooms, NEW s \in Strokes, Told(r, s) PROVE ApartInv'
    BY <1>2, <1>8 DEF Told
  <1>9. ASSUME NEW S \in SUBSET Strokes, Stated(S) PROVE ApartInv'
    BY <1>2, <1>9 DEF Stated
  <1>10. ASSUME NEW m \in Messages, Got(m) PROVE ApartInv'
    BY <1>2, <1>10 DEF Got
  <1>11. CASE Still \/ Opened \/ Joined \/ Named
    BY <1>2, <1>11 DEF Still, Opened, Joined, Named
  <1>12. QED
    BY <1>3, <1>4, <1>5, <1>6, <1>7, <1>8, <1>9, <1>10, <1>11, Effects

\* The socket of the page is new when the page is opened, and its strokes go to its room.
LEMMA MineStep ==
  ASSUME TypeInv, AroundInv, MineInv, WiresInv, [Next]_vars PROVE MineInv'
  <1>0. /\ nextId \in Nat /\ first \in Nat /\ \A s \in Around : s.id \in Nat /\ s.id < nextId
        /\ canvas \in [Rooms -> SUBSET Strokes] /\ underway \in [Rooms -> SUBSET Strokes]
        /\ clientData # None => room \in Rooms
    BY DEF TypeInv, TypeOK, Around, AroundInv, WiresInv, Strokes, Ids
  \* Steps that move strokes of this socket from the wire to its room at most.
  <1>1. ASSUME UNCHANGED <<room, first>>, nextId <= nextId', nextId' \in Nat,
               clientData # None => clientData' # None,
               \A s \in Range(outbox') : s.own /\ s.id >= first,
               \A q \in Rooms : \A s \in underway'[q] :
                 FromHere(s) => s \in underway[q] \/ (q = room /\ clientData' # None),
               \A q \in Rooms : \A s \in canvas'[q] : FromHere(s) => s \in canvas[q] \cup underway[q]
        PROVE  MineInv'
    <2>1. \A s : FromHere(s)' <=> FromHere(s)
      BY <1>1 DEF FromHere
    <2>2. first' <= nextId'
      BY <1>0, <1>1 DEF MineInv
    <2>3. \A q \in Rooms : \A s \in underway'[q] \cup canvas'[q] : FromHere(s) => q = room
      BY <1>1 DEF MineInv
    <2>4. \A q \in Rooms : \A s \in underway'[q] : FromHere(s) => clientData' # None
      BY <1>1 DEF MineInv
    <2>5. QED
      BY <1>1, <2>1, <2>2, <2>3, <2>4 DEF MineInv
  <1>2. CASE Still \/ Joined \/ Named
    <2>1. /\ UNCHANGED <<room, first, outbox, underway, canvas, nextId>>
          /\ clientData # None => clientData' # None
      BY <1>2 DEF Still, Joined, Named
    <2>2. \A s \in Range(outbox') : s.own /\ s.id >= first
      BY <2>1 DEF MineInv
    <2>3. QED
      BY <1>0, <1>1, <2>1, <2>2
  <1>3. CASE Opened
    <2>1. /\ first' = nextId /\ UNCHANGED <<outbox, underway, canvas, nextId>> /\ room = None
      BY <1>3 DEF Opened
    <2>2. Range(outbox') = {}
      BY <2>1 DEF WiresInv
    <2>3. \A s \in Around : ~FromHere(s)'
      BY <1>0, <2>1 DEF FromHere
    <2>4. \A q \in Rooms : \A s \in underway'[q] \cup canvas'[q] : ~FromHere(s)'
      BY <2>1, <2>3 DEF Around
    <2>5. QED
      BY <1>0, <2>1, <2>2, <2>4 DEF MineInv
  <1>4. CASE Left
    <2>1. /\ room' = None /\ UNCHANGED <<first, nextId>> /\ Range(outbox') = {}
      BY <1>4, EffectSets DEF Left
    <2>2. \A s : ~FromHere(s)'
      BY <2>1 DEF FromHere
    <2>3. QED
      BY <2>1, <2>2 DEF MineInv
  <1>5. ASSUME NEW s \in Strokes, Drew(s) PROVE MineInv'
    <2>1. /\ UNCHANGED <<room, first, clientData, underway, canvas>>
          /\ s.id = nextId /\ s.own /\ nextId' = nextId + 1
      BY <1>5 DEF Drew
    <2>2. Range(outbox') \subseteq Range(outbox) \cup {s}
      BY <1>5, EffectSets
    <2>3. \A t \in Range(outbox') : t.own /\ t.id >= first
      BY <1>0, <2>1, <2>2 DEF MineInv
    <2>4. QED
      BY <1>0, <1>1, <2>1, <2>3
  <1>6. ASSUME NEW s \in Strokes, Served(s) PROVE MineInv'
    <2>1. Range(outbox') \subseteq Range(outbox)
      BY <1>6, EffectSets
    <2>2. UNCHANGED <<room, first, clientData, canvas, nextId>>
      BY <1>6 DEF Served
    <2>3. \A t \in Range(outbox') : t.own /\ t.id >= first
      BY <2>1 DEF MineInv
    <2>4. \A q \in Rooms : \A t \in underway'[q] : t \in underway[q] \/ (q = room /\ clientData # None)
      <3>1. CASE underway' = underway
        BY <3>1
      <3>2. CASE clientData # None /\ underway' = [underway EXCEPT ![room] = @ \cup {s}]
        BY <1>0, <3>2
      <3>3. QED
        BY <1>6, <3>1, <3>2 DEF Served
    <2>5. QED
      BY <1>0, <1>1, <2>2, <2>3, <2>4
  <1>7. ASSUME NEW r \in Rooms, NEW s \in Strokes, OtherDrew(r, s) PROVE MineInv'
    <2>1. /\ UNCHANGED <<room, first, clientData, underway, outbox>> /\ nextId' = nextId + 1
          /\ ~s.own /\ canvas' = [canvas EXCEPT ![r] = @ \cup {s}]
      BY <1>7 DEF OtherDrew
    <2>2. \A q \in Rooms : \A t \in canvas'[q] : FromHere(t) => t \in canvas[q]
      BY <1>0, <2>1 DEF FromHere
    <2>3. \A t \in Range(outbox') : t.own /\ t.id >= first
      BY <2>1 DEF MineInv
    <2>4. QED
      BY <1>0, <1>1, <2>1, <2>2, <2>3
  <1>8. ASSUME NEW r \in Rooms, NEW s \in Strokes, Hashed(r, s) \/ Undone(r, s) PROVE MineInv'
    <2>1. /\ UNCHANGED <<room, first, clientData, outbox, nextId>> /\ s \in underway[r]
          /\ underway' = [underway EXCEPT ![r] = @ \ {s}]
          /\ canvas' = canvas \/ canvas' = [canvas EXCEPT ![r] = @ \cup {s}]
      BY <1>8 DEF Hashed, Undone
    <2>2. \A q \in Rooms : underway'[q] \subseteq underway[q]
      BY <1>0, <2>1
    <2>3. \A q \in Rooms : \A t \in canvas'[q] : t \in canvas[q] \cup underway[q]
      BY <1>0, <2>1
    <2>4. \A t \in Range(outbox') : t.own /\ t.id >= first
      BY <2>1 DEF MineInv
    <2>5. QED
      BY <1>0, <1>1, <2>1, <2>2, <2>3, <2>4
  <1>9. ASSUME UNCHANGED <<room, first, clientData, outbox, underway, canvas, nextId>> PROVE MineInv'
    <2>1. \A t \in Range(outbox') : t.own /\ t.id >= first
      BY <1>9 DEF MineInv
    <2>2. QED
      BY <1>0, <1>1, <1>9, <2>1
  <1>10. ASSUME NEW r \in Rooms, NEW s \in Strokes, Told(r, s) PROVE MineInv'
    BY <1>9, <1>10 DEF Told
  <1>11. ASSUME NEW S \in SUBSET Strokes, Stated(S) PROVE MineInv'
    BY <1>9, <1>11 DEF Stated
  <1>12. ASSUME NEW m \in Messages, Got(m) PROVE MineInv'
    BY <1>9, <1>12 DEF Got
  <1>13. QED
    BY <1>2, <1>3, <1>4, <1>5, <1>6, <1>7, <1>8, <1>10, <1>11, <1>12, Effects

LEMMA WiresStep ==
  ASSUME TypeInv, AroundInv, ApartInv, MineInv, WiresInv, [Next]_vars PROVE WiresInv'
  <1> DEFINE Fits(m) ==
        /\ m.strokes \subseteq canvas'[room']
        /\ m.kind \in {"undo", "info"} => m.strokes = {}
        /\ m.kind = "draw" => \A s \in m.strokes : ~FromHere(s)'
        /\ m.kind = "undo" =>
             /\ m.id \notin Sent' /\ m.id < nextId' /\ \A r \in Rooms : m.id \notin Under(r)'
             /\ m.id \in astray' \/ \A r \in Rooms : m.id \notin Kept(r)'
             Entry == /\ clientData' = None <=> entry'.pc = "out"
                      /\ clientData' # None => entry'.early \subseteq canvas'[room']
  <1>0. /\ nextId \in Nat /\ \A s \in Around : s.id \in Nat /\ s.id < nextId
        /\ canvas \in [Rooms -> SUBSET Strokes] /\ underway \in [Rooms -> SUBSET Strokes]
        /\ outbox \in Seq(Strokes)
        /\ clientData # None => room \in Rooms
        /\ room \in Rooms \cup {None} /\ None \notin Rooms
        /\ \A m \in Range(inbox) : m.id \in Nat
    BY NoneAssumption DEF TypeInv, TypeOK, Lists, Around, AroundInv, WiresInv, Strokes, Messages, Ids
  <1>1. ASSUME \A m \in Range(inbox') : Fits(m), Entry,
               room' = None => Range(inbox') = {} /\ Range(outbox') = {} /\ clientData' = None,
               clientData' = None => Range(inbox') = {}
        PROVE  WiresInv'
    BY <1>1 DEF WiresInv
  \* Messages that are there already: strokes move from the wire to the hash to the canvas.
  <1>2. ASSUME NEW m \in Range(inbox), UNCHANGED <<room, first>>,
               clientData # None => canvas[room] \subseteq canvas'[room],
               astray \subseteq astray', nextId' \in Nat, nextId <= nextId',
               m.id < nextId => m.id \notin Sent' \/ m.id \in Sent,
               \A r \in Rooms : m.id < nextId /\ m.id \in Under(r)' => m.id \in Sent \cup Under(r),
               \A r \in Rooms : m.id < nextId /\ m.id \in Kept(r)' => m.id \in Under(r) \cup Kept(r)
        PROVE  Fits(m)
    <2>1. clientData # None /\ m.strokes \subseteq canvas[room]
      BY DEF WiresInv
    <2>2. \A s : FromHere(s)' <=> FromHere(s)
      BY <1>2 DEF FromHere
    <2>3. m.strokes \subseteq canvas'[room']
      BY <1>2, <2>1
    <2>4. (m.kind \in {"undo", "info"} => m.strokes = {})
          /\ (m.kind = "draw" => \A s \in m.strokes : ~FromHere(s)')
      BY <2>2 DEF WiresInv
    <2>5. ASSUME m.kind = "undo"
          PROVE  /\ m.id \notin Sent' /\ m.id < nextId' /\ \A r \in Rooms : m.id \notin Under(r)'
                 /\ m.id \in astray' \/ \A r \in Rooms : m.id \notin Kept(r)'
      <3>1. /\ m.id \notin Sent /\ m.id < nextId /\ \A r \in Rooms : m.id \notin Under(r)
            /\ m.id \in astray \/ \A r \in Rooms : m.id \notin Kept(r)
        BY <2>5 DEF WiresInv
      <3>2. m.id \in Nat
        BY <1>0
      <3>3. QED
        BY <1>0, <1>2, <3>1, <3>2
    <2>6. QED
      BY <2>3, <2>4, <2>5
  <1>3. ASSUME UNCHANGED <<room, outbox, first, underway, canvas, nextId>>, astray \subseteq astray'
        PROVE  \A m \in Range(inbox) : Fits(m)
    <2>1. Sent' = Sent /\ \A r \in Rooms : Under(r)' = Under(r) /\ Kept(r)' = Kept(r)
      BY <1>3 DEF Sent, Under, Kept
    <2>2. \A s : FromHere(s)' <=> FromHere(s)
      BY <1>3 DEF FromHere
    <2>3. QED
      BY <1>3, <2>1, <2>2 DEF WiresInv
  <1>4. CASE Still
    <2>1. UNCHANGED <<room, outbox, inbox, first, entry, clientData, underway, canvas, nextId, astray>>
      BY <1>4 DEF Still
    <2>2. \A m \in Range(inbox) : Fits(m)
      BY <1>3, <2>1
    <2>3. Entry
      BY <2>1 DEF WiresInv
    <2>4. QED
      BY <1>1, <2>1, <2>2, <2>3 DEF WiresInv
  <1>5. CASE Opened
    <2>1. room = None /\ room' \in Rooms /\ UNCHANGED <<outbox, inbox, entry, clientData>>
      BY <1>5 DEF Opened
    <2>2. QED
      BY <1>0, <1>1, <2>1 DEF WiresInv
  <1>6. CASE Left
    <2>1. /\ room' = None /\ Range(inbox') = {} /\ clientData' = None /\ entry'.pc = "out"
          /\ Range(outbox') = {}
      BY <1>6, EffectSets, OutsideEntry DEF Left
    <2>2. QED
      BY <1>1, <2>1
  <1>7. CASE Joined
    <2>1. /\ UNCHANGED <<room, outbox, inbox, canvas>> /\ room \in Rooms
          /\ clientData = None /\ clientData' # None
          /\ entry'.pc = "joined" /\ entry'.early \subseteq canvas[room]
      BY <1>7 DEF Joined
    <2>2. Range(inbox') = {}
      BY <2>1 DEF WiresInv
    <2>3. QED
      BY <1>0, <1>1, <2>1, <2>2
  <1>8. CASE Named
    <2>1. /\ UNCHANGED <<room, outbox, first, underway, canvas, nextId, astray>>
          /\ clientData # None /\ clientData' # None /\ entry'.pc # "out"
          /\ entry'.early = entry.early
      BY <1>8 DEF Named
    <2>2. \A m \in Range(inbox) : Fits(m)
      BY <1>3, <2>1
    <2>3. PICK ro \in RoleOrNone : Range(inbox') = Range(inbox) \cup {Info(ro)}
      BY <1>8 DEF Named
    <2>4. Fits(Info(ro))
      BY MessageFields
    <2>5. Entry
      BY <2>1 DEF WiresInv
    <2>6. QED
      BY <1>0, <1>1, <2>1, <2>2, <2>3, <2>4, <2>5
  <1>9. ASSUME NEW S \in SUBSET Strokes, Stated(S) PROVE WiresInv'
    <2>1. /\ UNCHANGED <<room, outbox, first, clientData, underway, canvas, nextId>>
          /\ astray \subseteq astray' /\ room \in Rooms /\ clientData # None
          /\ entry'.pc = "in" /\ entry'.early = {} /\ S \subseteq canvas[room]
          /\ Range(inbox') = Range(inbox) \cup {State(S)}
      BY <1>9 DEF Stated
    <2>2. \A m \in Range(inbox) : Fits(m)
      BY <1>3, <2>1
    <2>3. Fits(State(S))
      BY <2>1, MessageFields
    <2>4. QED
      BY <1>0, <1>1, <2>1, <2>2, <2>3
  <1>10. ASSUME NEW s \in Strokes, Drew(s) PROVE WiresInv'
    <2>1. /\ UNCHANGED <<room, inbox, first, entry, clientData, underway, canvas>>
          /\ nextId' = nextId + 1 /\ room # None /\ s.id = nextId
      BY <1>10 DEF Drew
    <2>2. Range(outbox') \subseteq Range(outbox) \cup {s} /\ astray \subseteq astray'
      BY <1>10, EffectSets
    <2>3. Sent' \subseteq Sent \cup {nextId}
      BY <2>1, <2>2 DEF Sent, IdsOf
    <2>4. \A r \in Rooms : Kept(r)' = Kept(r) /\ Under(r)' = Under(r)
      BY <2>1 DEF Kept, Under
    <2>5. \A m \in Range(inbox) : Fits(m)
      BY <1>0, <1>2, <2>1, <2>2, <2>3, <2>4
    <2>6. Entry
      BY <2>1 DEF WiresInv
    <2>7. QED
      BY <1>1, <2>1, <2>5, <2>6 DEF WiresInv
  <1>11. ASSUME NEW s \in Strokes, Served(s) PROVE WiresInv'
    <2>1. s \in Range(outbox) /\ Range(outbox) = {s} \cup Range(outbox')
      BY <1>11, EffectSets
    <2>2. /\ UNCHANGED <<room, inbox, first, entry, clientData, canvas, nextId>>
          /\ astray \subseteq astray'
      BY <1>11 DEF Served
    <2>3. Sent' \subseteq Sent /\ s.id \in Sent
      BY <2>1 DEF Sent, IdsOf
    <2>4. \A r \in Rooms : Kept(r)' = Kept(r)
      BY <2>2 DEF Kept
    <2>5. \A r \in Rooms : Under(r)' \subseteq Under(r) \cup {s.id}
      <3>1. CASE underway' = underway
        BY <3>1 DEF Under
      <3>2. CASE clientData # None /\ underway' = [underway EXCEPT ![room] = @ \cup {s}]
        <4>1. \A r \in Rooms : Under(r)' = IF r = room THEN Under(r) \cup {s.id} ELSE Under(r)
          BY <1>0, <3>2, UnderGrows
        <4>2. QED
          BY <4>1
      <3>3. QED
        BY <1>11, <3>1, <3>2 DEF Served
    <2>6. \A m \in Range(inbox) : Fits(m)
      BY <1>0, <1>2, <2>2, <2>3, <2>4, <2>5
    <2>7. room # None /\ Entry
      BY <2>1, <2>2 DEF WiresInv
    <2>8. QED
      BY <1>1, <2>2, <2>6, <2>7 DEF WiresInv
  <1>12. ASSUME NEW r \in Rooms, NEW s \in Strokes, OtherDrew(r, s) PROVE WiresInv'
    <2>1. /\ UNCHANGED <<room, outbox, inbox, first, entry, clientData, underway, astray>>
          /\ nextId' = nextId + 1 /\ s.id = nextId /\ canvas' = [canvas EXCEPT ![r] = @ \cup {s}]
      BY <1>12 DEF OtherDrew
    <2>2. \A q \in Rooms : /\ Kept(q)' = IF q = r THEN Kept(q) \cup {nextId} ELSE Kept(q)
                           /\ canvas[q] \subseteq canvas'[q]
      <3>1. \A q \in Rooms : canvas'[q] = IF q = r THEN canvas[q] \cup {s} ELSE canvas[q]
        BY <2>1, KeptGrows
      <3>2. \A q \in Rooms : Kept(q)' = IF q = r THEN Kept(q) \cup {s.id} ELSE Kept(q)
        BY <2>1, KeptGrows
      <3>3. QED
        BY <2>1, <3>1, <3>2
    <2>3. Sent' = Sent /\ \A q \in Rooms : Under(q)' = Under(q)
      BY <2>1 DEF Sent, Under
    <2>4. \A m \in Range(inbox) : Fits(m)
      BY <1>0, <1>2, <2>1, <2>2, <2>3
    <2>5. Entry
      BY <1>0, <2>1, <2>2 DEF WiresInv
    <2>6. QED
      BY <1>1, <2>1, <2>4, <2>5 DEF WiresInv
  <1>13. ASSUME NEW r \in Rooms, NEW s \in Strokes, Hashed(r, s) \/ Undone(r, s) PROVE WiresInv'
    <2>1. /\ UNCHANGED <<room, outbox, first, entry, clientData, nextId>> /\ astray \subseteq astray'
          /\ s \in underway[r] /\ underway' = [underway EXCEPT ![r] = @ \ {s}]
          /\ canvas' = canvas \/ canvas' = [canvas EXCEPT ![r] = @ \cup {s}]
      BY <1>13 DEF Hashed, Undone
    <2>2. s.id \in Under(r) /\ s.id < nextId
      BY <1>0, <2>1 DEF Under, IdsOf, Around
    <2>3. \A q \in Rooms : Under(q)' = IF q = r THEN Under(q) \ {s.id} ELSE Under(q)
      BY <2>1, UnderShrinks
    <2>4. \A q \in Rooms : /\ canvas[q] \subseteq canvas'[q]
                           /\ Kept(q)' = Kept(q) \/ (q = r /\ Kept(q)' = Kept(q) \cup {s.id})
      <3>1. CASE canvas' = canvas
        BY <3>1 DEF Kept
      <3>2. CASE canvas' = [canvas EXCEPT ![r] = @ \cup {s}]
        <4>1. \A q \in Rooms : canvas'[q] = IF q = r THEN canvas[q] \cup {s} ELSE canvas[q]
          BY <3>2, KeptGrows
        <4>2. \A q \in Rooms : Kept(q)' = IF q = r THEN Kept(q) \cup {s.id} ELSE Kept(q)
          BY <3>2, KeptGrows
        <4>3. QED
          BY <4>1, <4>2
      <3>3. QED
        BY <2>1, <3>1, <3>2
    <2>5. Sent' = Sent
      BY <2>1 DEF Sent
    <2>6. \A m \in Range(inbox) : Fits(m)
      BY <1>0, <1>2, <2>1, <2>2, <2>3, <2>4, <2>5
    <2>7. Entry
      BY <1>0, <2>1, <2>4 DEF WiresInv
    <2>8. CASE inbox' = inbox
      BY <1>1, <2>1, <2>6, <2>7, <2>8 DEF WiresInv
    <2>9. CASE Undone(r, s) /\ FromHere(s) /\ Range(inbox') = Range(inbox) \cup {Undo(s.id)}
      <3>1. clientData # None
        BY <2>1, <2>9 DEF MineInv
      <3>2. s.id \notin Sent' /\ \A q \in Rooms : s.id \notin Under(q)'
        BY <2>2, <2>3, <2>5 DEF ApartInv
      <3>3. s.id \in astray' \/ \A q \in Rooms : s.id \notin Kept(q)'
        <4>1. \A q \in Rooms : s.id \notin Kept(q)
          BY <2>2 DEF ApartInv
        <4>2. canvas' = canvas \/ s.id \in astray'
          BY <2>9 DEF Undone
        <4>3. QED
          BY <4>1, <4>2 DEF Kept
      <3>4. Fits(Undo(s.id))
        BY <2>1, <2>2, <3>2, <3>3, MessageFields
      <3>5. QED
        BY <1>0, <1>1, <2>1, <2>6, <2>7, <2>9, <3>1, <3>4
    <2>10. QED
      BY <1>13, <2>8, <2>9 DEF Hashed, Undone
  <1>14. ASSUME NEW r \in Rooms, NEW s \in Strokes, Told(r, s) PROVE WiresInv'
    <2>1. /\ UNCHANGED <<room, outbox, first, entry, clientData, underway, canvas, nextId, astray>>
          /\ s \in canvas[r] /\ s.id \in unsent
      BY <1>14 DEF Told
    <2>2. \A m \in Range(inbox) : Fits(m)
      BY <1>3, <2>1
    <2>3. Entry
      BY <2>1 DEF WiresInv
    <2>4. CASE /\ room = r /\ clientData # None /\ ~FromHere(s)
               /\ Range(inbox') = Range(inbox) \cup {Draw(s)}
      <3>1. ~FromHere(s)'
        BY <2>1, <2>4 DEF FromHere
      <3>2. Fits(Draw(s))
        BY <2>1, <2>4, <3>1, MessageFields
      <3>3. QED
        BY <1>0, <1>1, <2>1, <2>2, <2>3, <2>4, <3>2
    <2>5. CASE inbox' = inbox
      BY <1>1, <2>1, <2>2, <2>3, <2>5 DEF WiresInv
    <2>6. QED
      BY <1>14, <2>4, <2>5 DEF Told
  <1>15. ASSUME NEW m \in Messages, Got(m) PROVE WiresInv'
    <2>1. /\ UNCHANGED <<room, outbox, first, entry, clientData, underway, canvas, nextId>>
          /\ Range(inbox') \subseteq Range(inbox) /\ astray \subseteq astray'
      BY <1>15 DEF Got
    <2>2. \A n \in Range(inbox) : Fits(n)
      BY <1>3, <2>1
    <2>3. Entry
      BY <2>1 DEF WiresInv
    <2>4. QED
      BY <1>1, <2>1, <2>2, <2>3 DEF WiresInv
  <1>16. QED
    BY <1>4, <1>5, <1>6, <1>7, <1>8, <1>9, <1>10, <1>11, <1>12, <1>13, <1>14, <1>15, Effects

LEMMA OwnOnceStep ==
  ASSUME TypeInv, AroundInv, MineInv, WiresInv, OwnOnce, [Next]_vars PROVE OwnOnce'
  <1>0. /\ drawEvents \in Seq(Strokes) /\ nextId \in Nat
        /\ \A s \in Range(drawEvents) : s.id \in Nat /\ s.id < nextId
    BY DEF TypeInv, TypeOK, Lists, AroundInv, Around, Strokes, Ids
  <1>1. ASSUME UNCHANGED <<drawEvents, first>> PROVE OwnOnce'
    BY <1>1 DEF OwnOnce
  <1>2. ASSUME NEW s \in Strokes, Drew(s) PROVE OwnOnce'
    <2>1. drawEvents' = Append(drawEvents, s) /\ s.id = nextId /\ first' = first
      BY <1>2 DEF Drew
    <2>2. /\ DOMAIN drawEvents = 1..Len(drawEvents) /\ Len(drawEvents) \in Nat
          /\ DOMAIN drawEvents' = 1..(Len(drawEvents) + 1)
          /\ \A i \in 1..Len(drawEvents) : drawEvents'[i] = drawEvents[i] /\ drawEvents[i] \in Range(drawEvents)
          /\ drawEvents'[Len(drawEvents) + 1] = s
      BY <1>0, <2>1 DEF Range
    <2>3. \A i \in 1..Len(drawEvents) : drawEvents[i].id # nextId
      BY <1>0, <2>2
    <2>4. \A i \in DOMAIN drawEvents' : i \in 1..Len(drawEvents) \/ i = Len(drawEvents) + 1
      BY <2>2
    <2>5. QED
      BY <2>1, <2>2, <2>3, <2>4 DEF OwnOnce
  <1>3. ASSUME NEW m \in Messages, Got(m) PROVE OwnOnce'
    <2>1. /\ m.strokes \in SUBSET Strokes /\ m.kind \in {"state", "draw", "undo", "info"}
          /\ first' = first
      BY <1>3 DEF Messages, Got
    <2> DEFINE w == InOrder(m.strokes)
    <2>2. /\ w \in Seq(m.strokes)
          /\ \A i, j \in DOMAIN w : w[i].id = w[j].id => i = j
      BY <2>1, InOrderLists
    <2> HIDE DEF w
    <2>3. CASE m.kind = "state"
      <3>1. drawEvents' = w
        BY <1>3, <2>3 DEF Got, w
      <3>2. QED
        BY <2>1, <2>2, <3>1 DEF OwnOnce
    <2>4. CASE m.kind = "draw"
      <3>1. drawEvents' = drawEvents \o w
        BY <1>3, <2>4 DEF Got, w
      <3>2. w \in Seq(Strokes)
        BY <2>1, <2>2
      <3>3. /\ DOMAIN drawEvents = 1..Len(drawEvents) /\ Len(drawEvents) \in Nat
            /\ DOMAIN w = 1..Len(w) /\ Len(w) \in Nat
            /\ DOMAIN drawEvents' = 1..(Len(drawEvents) + Len(w))
            /\ \A i \in 1..(Len(drawEvents) + Len(w)) :
                 drawEvents'[i] = IF i <= Len(drawEvents) THEN drawEvents[i] ELSE w[i - Len(drawEvents)]
        BY <1>0, <3>1, <3>2
      \* What is broadcast to the page has no id that it has drawn since it was opened.
      <3>4. \A t \in m.strokes : /\ t.own => ~(t.id >= first)
                                /\ \A s \in Range(drawEvents) :
                                     s.own /\ s.id >= first => s.id # t.id
        <4>1. m \in Range(inbox)
          BY <1>3 DEF Got
        <4>2. /\ room \in Rooms /\ m.strokes \subseteq canvas[room]
              /\ \A t \in m.strokes : t.own => ~(t.id >= first)
          BY <2>4, <4>1, NoneAssumption DEF WiresInv, TypeInv, TypeOK, FromHere
        <4>3. m.strokes \subseteq Around
          BY <4>2 DEF Around
        <4>4. QED
          BY <4>2, <4>3 DEF AroundInv, Around
      <3>5. \A i \in 1..Len(w) : w[i] \in m.strokes
        BY <2>2, <3>3
      <3>6. \A i \in 1..Len(drawEvents) : drawEvents[i] \in Range(drawEvents)
        BY <3>3 DEF Range
      <3>7. ASSUME NEW i \in DOMAIN drawEvents', NEW j \in DOMAIN drawEvents',
                   drawEvents'[i].own, drawEvents'[i].id >= first,
                   drawEvents'[i].id = drawEvents'[j].id
            PROVE  i = j
        <4>1. i <= Len(drawEvents)
          BY <3>3, <3>4, <3>5, <3>7
        <4>2. i \in 1..Len(drawEvents) /\ drawEvents'[i] = drawEvents[i]
          BY <3>3, <4>1
        <4>3. j <= Len(drawEvents)
          <5> SUFFICES ASSUME ~(j <= Len(drawEvents)) PROVE FALSE
            OBVIOUS
          <5>1. drawEvents'[j] = w[j - Len(drawEvents)] /\ j - Len(drawEvents) \in 1..Len(w)
            BY <3>3
          <5>2. QED
            BY <3>4, <3>5, <3>6, <3>7, <4>2, <5>1
        <4>4. j \in 1..Len(drawEvents) /\ drawEvents'[j] = drawEvents[j]
          BY <3>3, <4>3
        <4>5. QED
          BY <3>3, <3>7, <4>2, <4>4 DEF OwnOnce
      <3>8. QED
        BY <2>1, <3>7 DEF OwnOnce
    <2>5. CASE m.kind = "undo"
      <3>1. drawEvents' = Without(m.id)
        BY <1>3, <2>5 DEF Got
      <3>2. PICK f \in [DOMAIN drawEvents' -> DOMAIN drawEvents] :
              /\ \A i, j \in DOMAIN f : f[i] = f[j] => i = j
              /\ \A i \in DOMAIN f : drawEvents'[i] = drawEvents[f[i]]
        <4>1. \E f \in [DOMAIN Without(m.id) -> DOMAIN drawEvents] :
                /\ \A i, j \in DOMAIN f : f[i] = f[j] => i = j
                /\ \A i \in DOMAIN f : Without(m.id)[i] = drawEvents[f[i]]
          BY <1>0, WithoutLists
        <4>2. QED
          BY <3>1, <4>1
      <3>3. QED
        BY <2>1, <3>2 DEF OwnOnce
    <2>6. CASE m.kind = "info"
      BY <1>1, <1>3, <2>6 DEF Got
    <2>7. QED
      BY <2>1, <2>3, <2>4, <2>5, <2>6
  <1>4. CASE Opened
    <2>1. UNCHANGED drawEvents /\ first' = nextId
      BY <1>4 DEF Opened
    <2>2. \A i \in DOMAIN drawEvents : ~(drawEvents[i].id >= nextId)
      BY <1>0 DEF Range
    <2>3. QED
      BY <2>1, <2>2 DEF OwnOnce
  <1>5. CASE Still \/ Left \/ Joined \/ Named
    BY <1>1, <1>5 DEF Still, Left, Joined, Named
  <1>6. ASSUME NEW s \in Strokes, Served(s) PROVE OwnOnce'
    BY <1>1, <1>6 DEF Served
  <1>7. ASSUME NEW r \in Rooms, NEW s \in Strokes,
               OtherDrew(r, s) \/ Hashed(r, s) \/ Undone(r, s) \/ Told(r, s)
        PROVE  OwnOnce'
    BY <1>1, <1>7 DEF OtherDrew, Hashed, Undone, Told
  <1>8. ASSUME NEW S \in SUBSET Strokes, Stated(S) PROVE OwnOnce'
    BY <1>1, <1>8 DEF Stated
  <1>9. QED
    BY <1>2, <1>3, <1>4, <1>5, <1>6, <1>7, <1>8, Effects

-----------------------------------------------------------------------------
(* The page and the server agree about strokes that are not astray, or a   *)
(* message is on its way that makes them agree.                            *)

\* What this socket has drawn is on the page until it is broadcast to the others.
MineShown ==
  /\ Sent \ astray \subseteq OnPage
  /\ \A r \in Rooms : \A s \in underway[r] : FromHere(s) => s.id \in OnPage \cup astray
  /\ \A r \in Rooms : \A s \in canvas[r] :
       FromHere(s) /\ s.id \in unsent => s.id \in OnPage \cup astray

Hashing(i) == \E s \in underway[room] : s.id = i /\ FromHere(s)
TakenBack(i) == \E m \in Range(inbox) : m.kind = "undo" /\ m.id = i
Pictured(i) == \E m \in Range(inbox) : i \in IdsOf(m.strokes)
Awaited(i) == entry.pc # "in" /\ i \in IdsOf(entry.early \cup entry.ahead)
NoState == \A m \in Range(inbox) : m.kind # "state"

\* After CANVAS_STATE the page has nothing else than the server, or it is told so.
NothingOdd ==
  entry.pc = "in" /\ NoState =>
    \A i \in OnPage \ astray : i \in Kept(room) \cup Sent \/ Hashing(i) \/ TakenBack(i)

\* What has been broadcast is on the page, or on its way there.
NothingMissing ==
  clientData # None => \A i \in Kept(room) \ (unsent \cup astray) :
    i \in OnPage \/ Pictured(i) \/ Awaited(i)

AgreeInv == MineShown /\ NothingOdd /\ NothingMissing

LEMMA AgreeStep ==
  ASSUME TypeInv, AroundInv, ApartInv, MineInv, WiresInv, AgreeInv, [Next]_vars PROVE AgreeInv'
  <1>0. /\ canvas \in [Rooms -> SUBSET Strokes] /\ underway \in [Rooms -> SUBSET Strokes]
        /\ nextId \in Nat /\ None \notin Rooms /\ \A s \in Around : s.id \in Nat /\ s.id < nextId
        /\ clientData # None => room \in Rooms
        /\ entry.pc = "in" => clientData # None
    BY NoneAssumption DEF TypeInv, TypeOK, WiresInv, AroundInv, Around, Strokes, Ids
  <1>1. MineShown /\ NothingOdd /\ NothingMissing
    BY DEF AgreeInv
  \* What holds of strokes whose place is the same.
  <1>2. ASSUME UNCHANGED <<room, first>> PROVE \A s : FromHere(s)' <=> FromHere(s)
    BY <1>2 DEF FromHere
  <1>3. ASSUME UNCHANGED <<room, drawEvents, outbox, first, underway, canvas>>,
               unsent' \subseteq unsent, astray \subseteq astray'
        PROVE  /\ MineShown'
               /\ OnPage' = OnPage /\ Sent' = Sent /\ Kept(room)' = Kept(room)
               /\ \A i : Hashing(i)' <=> Hashing(i)
    <2>1. OnPage' = OnPage /\ Sent' = Sent /\ Kept(room)' = Kept(room)
      BY <1>3 DEF OnPage, Sent, Kept
    <2>2. \A s : FromHere(s)' <=> FromHere(s)
      BY <1>2, <1>3
    <2>3. MineShown'
      BY <1>1, <1>3, <2>1, <2>2 DEF MineShown
    <2>4. \A i : Hashing(i)' <=> Hashing(i)
      BY <1>3, <2>2 DEF Hashing
    <2>5. QED
      BY <2>1, <2>3, <2>4
  <1>4. ASSUME Range(inbox) \subseteq Range(inbox')
        PROVE  /\ \A i : (Pictured(i) => Pictured(i)') /\ (TakenBack(i) => TakenBack(i)')
               /\ NoState' => NoState
    BY <1>4 DEF Pictured, TakenBack, NoState
  <1>5. CASE Still
    <2>1. UNCHANGED <<room, drawEvents, outbox, inbox, first, entry, clientData, underway, canvas,
                      unsent, astray>>
      BY <1>5 DEF Still
    <2>2. UNCHANGED <<MineShown, NothingOdd, NothingMissing>>
      BY <2>1 DEF MineShown, NothingOdd, NothingMissing, OnPage, Sent, Kept, Hashing, TakenBack,
                  Pictured, Awaited, NoState, FromHere
    <2>3. QED
      BY <1>1, <2>2 DEF AgreeInv
  <1>6. CASE Opened \/ Left
    <2>1. /\ UNCHANGED <<drawEvents, underway, canvas, unsent>> /\ Range(outbox') = {}
          /\ entry'.pc = "out" /\ clientData' = None
          /\ room' = None \/ first' = nextId
      BY <1>6, EffectSets, OutsideEntry DEF Opened, Left, WiresInv
    <2>2. \A s \in Around : ~FromHere(s)'
      BY <1>0, <2>1 DEF FromHere
    <2>3. \A r \in Rooms : underway[r] \cup canvas[r] \subseteq Around
      BY DEF Around
    <2>4. MineShown'
      BY <2>1, <2>2, <2>3 DEF MineShown, Sent, IdsOf
    <2>5. QED
      BY <2>1, <2>4 DEF AgreeInv, NothingOdd, NothingMissing
  <1>7. CASE Joined
    <2>1. /\ UNCHANGED <<room, drawEvents, outbox, first, underway, canvas, unsent, astray>>
          /\ room \in Rooms /\ entry'.pc = "joined"
          /\ entry'.early \cup entry'.ahead = canvas[room]
      BY <1>7 DEF Joined
    <2>2. MineShown' /\ Kept(room)' = Kept(room)
      BY <1>3, <2>1
    <2>3. \A i \in Kept(room) : i \in IdsOf(entry'.early \cup entry'.ahead)
      BY <2>1 DEF Kept
    <2>4. NothingMissing'
      BY <2>1, <2>2, <2>3 DEF NothingMissing, Awaited
    <2>5. NothingOdd'
      BY <2>1 DEF NothingOdd
    <2>6. QED
      BY <2>2, <2>4, <2>5 DEF AgreeInv
  <1>8. CASE Named
    <2>1. /\ UNCHANGED <<room, drawEvents, outbox, first, underway, canvas, unsent, astray>>
          /\ clientData # None /\ (entry'.pc = "in" <=> entry.pc = "in")
          /\ entry'.early = entry.early /\ entry'.ahead = entry.ahead
          /\ Range(inbox) \subseteq Range(inbox')
      BY <1>8 DEF Named
    <2>2. /\ MineShown' /\ OnPage' = OnPage /\ Sent' = Sent /\ Kept(room)' = Kept(room)
          /\ \A i : Hashing(i)' <=> Hashing(i)
      BY <1>3, <2>1
    <2>3. NothingOdd'
      BY <1>1, <1>4, <2>1, <2>2 DEF NothingOdd
    <2>4. NothingMissing'
      BY <1>1, <1>4, <2>1, <2>2 DEF NothingMissing, Awaited
    <2>5. QED
      BY <2>2, <2>3, <2>4 DEF AgreeInv
  <1>9. ASSUME NEW S \in SUBSET Strokes, Stated(S) PROVE AgreeInv'
    <2>1. /\ UNCHANGED <<room, drawEvents, outbox, first, clientData, underway, canvas, unsent>>
          /\ entry'.pc = "in" /\ entry.early \subseteq S
          /\ Range(inbox') = Range(inbox) \cup {State(S)}
          /\ astray' = astray \cup IdsOf(entry.ahead \ S)
          /\ clientData # None
      BY <1>9 DEF Stated
    <2>2. MineShown' /\ OnPage' = OnPage /\ Kept(room)' = Kept(room)
      BY <1>3, <2>1
    <2>3. State(S).kind = "state" /\ State(S).strokes = S
      BY MessageFields
    <2>4. NothingOdd'
      BY <2>1, <2>3 DEF NothingOdd, NoState
    <2>5. ASSUME NEW i \in Kept(room), i \notin unsent, i \notin astray'
          PROVE  i \in OnPage \/ Pictured(i)'
      <3>1. i \in OnPage \/ Pictured(i) \/ i \in IdsOf(entry.early \cup entry.ahead)
        BY <1>1, <2>1, <2>5 DEF NothingMissing, Awaited
      <3>2. CASE Pictured(i)
        BY <1>4, <2>1, <3>2
      <3>3. CASE i \in IdsOf(entry.early \cup entry.ahead)
        <4>1. PICK s \in entry.early \cup entry.ahead : s.id = i
          BY <3>3 DEF IdsOf
        <4>2. s \notin entry.ahead \ S
          BY <2>1, <2>5, <4>1 DEF IdsOf
        <4>3. i \in IdsOf(S)
          BY <2>1, <4>1, <4>2 DEF IdsOf
        <4>4. QED
          BY <2>1, <2>3, <4>3 DEF Pictured
      <3>4. QED
        BY <3>1, <3>2, <3>3
    <2>6. NothingMissing'
      BY <2>1, <2>2, <2>5 DEF NothingMissing
    <2>7. QED
      BY <2>2, <2>4, <2>6 DEF AgreeInv
  <1>10. ASSUME NEW s \in Strokes, Drew(s) PROVE AgreeInv'
    <2>1. UNCHANGED <<room, inbox, first, entry, clientData, underway, canvas, unsent>>
      BY <1>10 DEF Drew
    <2>2. OnPage' = OnPage \cup {s.id}
      BY <1>10, EffectSets DEF OnPage, IdsOf
    <2>3. \/ Sent' = Sent \cup {s.id} /\ astray' = astray
          \/ Sent' = Sent /\ astray' = astray \cup {s.id}
      <3>1. Range(outbox') = Range(outbox) \cup {s} => Sent' = Sent \cup {s.id}
        BY DEF Sent, IdsOf
      <3>2. outbox' = outbox => Sent' = Sent
        BY DEF Sent
      <3>3. QED
        BY <1>10, <3>1, <3>2, EffectSets
    <2>4. Kept(room)' = Kept(room) /\ \A t : FromHere(t)' <=> FromHere(t)
      BY <1>2, <2>1 DEF Kept
    <2>5. \A i : /\ Hashing(i)' <=> Hashing(i)
                 /\ TakenBack(i)' <=> TakenBack(i)
                 /\ Pictured(i)' <=> Pictured(i)
                 /\ Awaited(i)' <=> Awaited(i)
      BY <2>1, <2>4 DEF Hashing, TakenBack, Pictured, Awaited
    <2>6. MineShown'
      BY <1>1, <2>1, <2>2, <2>3, <2>4 DEF MineShown
    <2>7. NothingOdd'
      BY <1>1, <2>1, <2>2, <2>3, <2>4, <2>5 DEF NothingOdd, NoState
    <2>8. NothingMissing'
      BY <1>1, <2>1, <2>2, <2>3, <2>4, <2>5 DEF NothingMissing
    <2>9. QED
      BY <2>6, <2>7, <2>8 DEF AgreeInv
  <1>11. ASSUME NEW s \in Strokes, Served(s) PROVE AgreeInv'
    <2>1. /\ UNCHANGED <<room, drawEvents, inbox, first, entry, clientData, canvas, unsent>>
          /\ astray \subseteq astray'
      BY <1>11 DEF Served
    <2>2. /\ Sent = {s.id} \cup Sent' /\ s \in Range(outbox) /\ OnPage' = OnPage
          /\ \A r \in Rooms : Kept(r)' = Kept(r)
      BY <1>11, <2>1, EffectSets DEF Sent, IdsOf, OnPage, Kept
    <2>3. s.id \in OnPage \cup astray /\ FromHere(s)
      BY <1>1, <2>2 DEF MineShown, FromHere, MineInv, WiresInv
    <2>4. \A t : FromHere(t)' <=> FromHere(t)
      BY <1>2, <2>1
    <2>5. \/ underway' = underway /\ s.id \in astray'
          \/ clientData # None /\ underway' = [underway EXCEPT ![room] = @ \cup {s}]
      BY <1>11 DEF Served
    <2>6. \A r \in Rooms : \A t \in underway'[r] : t \in underway[r] \/ t = s
      BY <1>0, <2>5
    <2>7. MineShown'
      BY <1>1, <2>1, <2>2, <2>3, <2>4, <2>6 DEF MineShown
    <2>8. \A i : /\ TakenBack(i)' <=> TakenBack(i)
                 /\ Pictured(i)' <=> Pictured(i)
                 /\ Awaited(i)' <=> Awaited(i)
      BY <2>1 DEF TakenBack, Pictured, Awaited
    <2>9. clientData # None => /\ s.id \in astray' \/ Hashing(s.id)'
                               /\ \A i : Hashing(i) => Hashing(i)'
      <3>1. clientData # None => underway[room] \subseteq underway'[room]
        BY <1>0, <2>5
      <3>2. clientData # None /\ s.id \notin astray' => s \in underway'[room]
        BY <1>0, <2>5
      <3>3. QED
        BY <2>1, <2>3, <2>4, <3>1, <3>2 DEF Hashing
    <2>10. NothingOdd'
      <3> SUFFICES ASSUME entry.pc = "in", NoState, NEW i \in OnPage, i \notin astray'
                   PROVE  i \in Kept(room) \cup Sent' \/ Hashing(i)' \/ TakenBack(i)'
        BY <1>0, <2>1, <2>2 DEF NothingOdd, NoState
      <3>1. i \in Kept(room) \cup Sent \/ Hashing(i) \/ TakenBack(i)
        BY <1>1, <2>1 DEF NothingOdd
      <3>2. QED
        BY <1>0, <2>2, <2>8, <2>9, <3>1
    <2>11. NothingMissing'
      BY <1>0, <1>1, <2>1, <2>2, <2>8 DEF NothingMissing
    <2>12. QED
      BY <2>7, <2>10, <2>11 DEF AgreeInv
  <1>12. ASSUME NEW r \in Rooms, NEW s \in Strokes, OtherDrew(r, s) PROVE AgreeInv'
    <2>1. /\ UNCHANGED <<room, drawEvents, outbox, inbox, first, entry, clientData, underway, astray>>
          /\ s.id = nextId /\ ~s.own /\ unsent' = unsent \cup {nextId}
          /\ canvas' = [canvas EXCEPT ![r] = @ \cup {s}]
      BY <1>12 DEF OtherDrew
    <2>2. \A q \in Rooms : canvas'[q] = IF q = r THEN canvas[q] \cup {s} ELSE canvas[q]
      BY <2>1, KeptGrows
    <2>3. \A q \in Rooms : Kept(q)' = IF q = r THEN Kept(q) \cup {nextId} ELSE Kept(q)
      <3>1. \A q \in Rooms : Kept(q)' = IF q = r THEN Kept(q) \cup {s.id} ELSE Kept(q)
        BY <2>1, KeptGrows
      <3>2. QED
        BY <2>1, <3>1
    <2>4. OnPage' = OnPage /\ Sent' = Sent /\ \A t : FromHere(t)' <=> FromHere(t)
      BY <1>2, <2>1 DEF OnPage, Sent
    <2>5. \A i : /\ Hashing(i)' <=> Hashing(i)
                 /\ TakenBack(i)' <=> TakenBack(i)
                 /\ Pictured(i)' <=> Pictured(i)
                 /\ Awaited(i)' <=> Awaited(i)
      BY <2>1, <2>4 DEF Hashing, TakenBack, Pictured, Awaited
    <2>6. MineShown'
      <3>1. \A q \in Rooms : \A t \in canvas'[q] :
              FromHere(t) /\ t.id \in unsent' => t \in canvas[q] /\ t.id \in unsent
        <4>1. \A q \in Rooms : \A t \in canvas[q] : t.id # nextId
          BY <1>0 DEF Around
        <4>2. QED
          BY <2>1, <2>2, <4>1 DEF FromHere
      <3>2. QED
        BY <1>1, <2>1, <2>4, <3>1 DEF MineShown
    <2>7. NothingOdd'
      BY <1>0, <1>1, <2>1, <2>3, <2>4, <2>5 DEF NothingOdd, NoState
    <2>8. NothingMissing'
      BY <1>0, <1>1, <2>1, <2>3, <2>4, <2>5 DEF NothingMissing
    <2>9. QED
      BY <2>6, <2>7, <2>8 DEF AgreeInv
  <1>13. ASSUME NEW r \in Rooms, NEW s \in Strokes, Hashed(r, s) \/ Undone(r, s) PROVE AgreeInv'
    <2>1. /\ UNCHANGED <<room, drawEvents, outbox, first, entry, clientData>>
          /\ s \in underway[r] /\ underway' = [underway EXCEPT ![r] = @ \ {s}]
          /\ Range(inbox) \subseteq Range(inbox')
          /\ \A m \in Range(inbox') : m \in Range(inbox) \/ m = Undo(s.id)
          /\ astray \subseteq astray' /\ unsent \subseteq unsent'
          /\ unsent' \subseteq unsent \cup {s.id}
      BY <1>13 DEF Hashed, Undone
    <2>2. \/ canvas' = canvas /\ (FromHere(s) => Undo(s.id) \in Range(inbox'))
          \/ canvas' = [canvas EXCEPT ![r] = @ \cup {s}] /\ s.id \in unsent' \cup astray'
      BY <1>13 DEF Hashed, Undone
    <2>3. OnPage' = OnPage /\ Sent' = Sent /\ \A t : FromHere(t)' <=> FromHere(t)
      BY <1>2, <2>1 DEF OnPage, Sent
    <2>4. \A q \in Rooms : \A t \in canvas'[q] : t \in canvas[q] \/ t = s
      BY <1>0, <2>2
    <2>5. \A q \in Rooms : underway'[q] \subseteq underway[q]
      BY <1>0, <2>1
    <2>6. \A q \in Rooms : s.id \notin Kept(q)
      BY <2>1 DEF ApartInv, Under, IdsOf
    <2>7. MineShown'
      <3>1. FromHere(s) => s.id \in OnPage \cup astray
        BY <1>1, <2>1 DEF MineShown
      <3>2. \A q \in Rooms : \A t \in canvas[q] : t.id # s.id
        BY <2>6 DEF Kept, IdsOf
      <3>3. \A q \in Rooms : \A t \in canvas'[q] :
              FromHere(t) /\ t.id \in unsent' => t.id \in OnPage \cup astray
        BY <1>1, <2>1, <2>4, <3>1, <3>2 DEF MineShown
      <3>4. QED
        BY <1>1, <2>1, <2>3, <2>5, <3>3 DEF MineShown
    <2>8. Undo(s.id).kind = "undo" /\ Undo(s.id).strokes = {} /\ Undo(s.id).id = s.id
      BY MessageFields
    <2>9. clientData # None => Kept(room) \subseteq Kept(room)'
      <3>1. \A q \in Rooms : canvas[q] \subseteq canvas'[q]
        BY <1>0, <2>2
      <3>2. QED
        BY <1>0, <2>1, <3>1 DEF Kept, IdsOf
    <2>10. ASSUME clientData # None, NEW i, Hashing(i)
           PROVE  i \in Kept(room)' \/ Hashing(i)' \/ TakenBack(i)'
      <3>1. PICK t \in underway[room] : t.id = i /\ FromHere(t)
        BY <2>10 DEF Hashing
      <3>2. CASE t \in underway'[room]
        BY <2>1, <2>3, <3>1, <3>2 DEF Hashing
      <3>3. CASE t \notin underway'[room]
        <4>1. r = room /\ t = s
          BY <1>0, <2>1, <2>10, <3>3
        <4>2. CASE Undo(s.id) \in Range(inbox')
          BY <2>8, <3>1, <4>1, <4>2 DEF TakenBack
        <4>3. CASE canvas' = [canvas EXCEPT ![r] = @ \cup {s}]
          <5>1. s \in canvas'[room]
            BY <1>0, <4>1, <4>3
          <5>2. QED
            BY <2>1, <3>1, <4>1, <5>1 DEF Kept, IdsOf
        <4>4. QED
          BY <2>2, <3>1, <4>1, <4>2, <4>3
      <3>4. QED
        BY <3>2, <3>3
    <2>11. NothingOdd'
      <3> SUFFICES ASSUME entry.pc = "in", NoState', NEW i \in OnPage, i \notin astray'
                   PROVE  i \in Kept(room)' \cup Sent \/ Hashing(i)' \/ TakenBack(i)'
        BY <2>1, <2>3 DEF NothingOdd
      <3>1. i \in Kept(room) \cup Sent \/ Hashing(i) \/ TakenBack(i)
        BY <1>1, <1>4, <2>1 DEF NothingOdd
      <3>2. QED
        BY <1>0, <1>4, <2>1, <2>9, <2>10, <3>1
    <2>12. NothingMissing'
      <3> SUFFICES ASSUME clientData # None, NEW i \in Kept(room)', i \notin unsent', i \notin astray'
                   PROVE  i \in OnPage \/ Pictured(i)' \/ Awaited(i)'
        BY <2>1, <2>3 DEF NothingMissing
      <3>1. i \in Kept(room)
        <4>1. PICK t \in canvas'[room] : t.id = i
          BY <2>1 DEF Kept, IdsOf
        <4>2. t \in canvas[room]
          BY <1>0, <2>2, <4>1
        <4>3. QED
          BY <4>1, <4>2 DEF Kept, IdsOf
      <3>2. i \in OnPage \/ Pictured(i) \/ Awaited(i)
        BY <1>1, <2>1, <3>1 DEF NothingMissing
      <3>3. QED
        BY <1>4, <2>1, <3>2 DEF Awaited
    <2>13. QED
      BY <2>7, <2>11, <2>12 DEF AgreeInv
  <1>14. ASSUME NEW r \in Rooms, NEW s \in Strokes, Told(r, s) PROVE AgreeInv'
    <2>1. /\ UNCHANGED <<room, drawEvents, outbox, first, entry, clientData, underway, canvas, astray>>
          /\ s \in canvas[r] /\ s.id \in unsent /\ unsent' = unsent \ {s.id}
      BY <1>14 DEF Told
    <2>2. /\ MineShown' /\ OnPage' = OnPage /\ Sent' = Sent /\ Kept(room)' = Kept(room)
          /\ \A i : Hashing(i)' <=> Hashing(i)
      BY <1>3, <2>1
    <2>3. /\ Range(inbox) \subseteq Range(inbox')
          /\ \A m \in Range(inbox') : m \in Range(inbox) \/ m = Draw(s)
      BY <1>14 DEF Told
    <2>4. NothingOdd'
      BY <1>1, <1>4, <2>1, <2>2, <2>3 DEF NothingOdd
    <2>5. ASSUME clientData # None, s.id \in Kept(room), s.id \notin astray
          PROVE  s.id \in OnPage \/ Pictured(s.id)'
      <3>1. s.id \in Kept(r)
        BY <2>1 DEF Kept, IdsOf
      <3>2. r = room
        BY <1>0, <2>5, <3>1 DEF ApartInv
      <3>3. CASE FromHere(s)
        BY <1>1, <2>1, <2>5, <3>3 DEF MineShown
      <3>4. CASE ~FromHere(s)
        <4>1. Draw(s) \in Range(inbox')
          BY <1>14, <2>5, <3>2, <3>4 DEF Told
        <4>2. s.id \in IdsOf(Draw(s).strokes)
          BY MessageFields DEF IdsOf
        <4>3. QED
          BY <4>1, <4>2 DEF Pictured
      <3>5. QED
        BY <3>3, <3>4
    <2>6. NothingMissing'
      <3> SUFFICES ASSUME clientData # None, NEW i \in Kept(room), i \notin unsent', i \notin astray
                   PROVE  i \in OnPage \/ Pictured(i)' \/ Awaited(i)'
        BY <2>1, <2>2 DEF NothingMissing
      <3>1. CASE i = s.id
        BY <2>5, <3>1
      <3>2. CASE i # s.id
        <4>1. i \in OnPage \/ Pictured(i) \/ Awaited(i)
          BY <1>1, <2>1, <3>2 DEF NothingMissing
        <4>2. QED
          BY <1>4, <2>1, <2>3, <4>1 DEF Awaited
      <3>3. QED
        BY <3>1, <3>2
    <2>7. QED
      BY <2>2, <2>4, <2>6 DEF AgreeInv
  <1>15. ASSUME NEW m \in Messages, Got(m) PROVE AgreeInv'
    <2>1. /\ UNCHANGED <<room, outbox, first, entry, clientData, underway, canvas, unsent>>
          /\ m \in Range(inbox) /\ Range(inbox) = {m} \cup Range(inbox') /\ astray \subseteq astray'
          /\ m.kind \in {"state", "draw", "undo", "info"}
      BY <1>15 DEF Got, Messages
    <2>2. /\ Sent' = Sent /\ Kept(room)' = Kept(room) /\ \A t : FromHere(t)' <=> FromHere(t)
          /\ \A i : (Hashing(i)' <=> Hashing(i)) /\ (Awaited(i)' <=> Awaited(i))
      <3>1. \A t : FromHere(t)' <=> FromHere(t)
        BY <1>2, <2>1
      <3>2. QED
        BY <2>1, <3>1 DEF Sent, Kept, Hashing, Awaited
    <2>3. clientData # None /\ room \in Rooms
      BY <2>1 DEF WiresInv, TypeInv, TypeOK
    <2>4. IdsOf(m.strokes) \subseteq Kept(room)
      BY <2>1 DEF WiresInv, Kept, IdsOf
    \* The page's own strokes, if what it loses of them is astray now.
    <2>5. ASSUME Sent \cap (OnPage \ OnPage') \subseteq astray',
                 \A s \in underway[room] : s.id \in OnPage => s.id \in OnPage' \cup astray',
                 \A s \in canvas[room] : s.id \in OnPage => s.id \in OnPage' \cup astray'
          PROVE  MineShown'
      <3>1. \A r \in Rooms : \A s \in underway[r] \cup canvas[r] : FromHere(s) => r = room
        BY DEF MineInv
      <3>2. QED
        BY <1>1, <2>1, <2>2, <2>5, <3>1 DEF MineShown
    <2>6. CASE m.kind = "state"
      <3>1. OnPage' = IdsOf(m.strokes) /\ astray' = astray \cup Replaced(m)
        BY <1>15, <2>6, EffectSets DEF OnPage, Got
      <3>2. Replaced(m) = OnPage \cap (Sent \cup Under(room) \cup IdsOf(canvas[room] \ m.strokes))
        BY DEF Replaced, IdsOf, Sent, Under
      <3>3. Kept(room) \subseteq IdsOf(m.strokes) \cup IdsOf(canvas[room] \ m.strokes)
        BY DEF Kept, IdsOf
      <3>4. MineShown'
        <4>1. \A s \in underway[room] : s.id \in Under(room)
          BY DEF Under, IdsOf
        <4>2. \A s \in canvas[room] : s.id \in Kept(room)
          BY DEF Kept, IdsOf
        <4>3. QED
          BY <2>5, <3>1, <3>2, <3>3, <4>1, <4>2
      <3>5. NothingOdd'
        BY <2>2, <2>4, <3>1 DEF NothingOdd
      <3>6. NothingMissing'
        <4> SUFFICES ASSUME NEW i \in Kept(room), i \notin unsent, i \notin astray'
                     PROVE  i \in OnPage' \/ Pictured(i)' \/ Awaited(i)'
          BY <2>1, <2>2 DEF NothingMissing
        <4>1. i \in OnPage \/ Pictured(i) \/ Awaited(i)
          BY <1>1, <2>1, <2>3 DEF NothingMissing
        <4>2. CASE i \in OnPage
          BY <3>1, <3>2, <3>3, <4>2
        <4>3. CASE Pictured(i)
          BY <2>1, <3>1, <4>3 DEF Pictured
        <4>4. QED
          BY <2>2, <4>1, <4>2, <4>3
      <3>7. QED
        BY <3>4, <3>5, <3>6 DEF AgreeInv
    <2>7. CASE m.kind = "draw"
      <3>1. OnPage' = OnPage \cup IdsOf(m.strokes) /\ astray' = astray
        BY <1>15, <2>7, EffectSets DEF OnPage, Got
      <3>2. MineShown'
        BY <2>5, <3>1
      <3>3. NothingOdd'
        <4>1. NoState' => NoState
          BY <2>1, <2>7 DEF NoState
        <4>2. \A i : TakenBack(i) => TakenBack(i)'
          BY <2>1, <2>7 DEF TakenBack
        <4>3. QED
          BY <1>1, <2>1, <2>2, <2>4, <3>1, <4>1, <4>2 DEF NothingOdd
      <3>4. NothingMissing'
        <4>1. \A i : Pictured(i) => Pictured(i)' \/ i \in OnPage'
          BY <2>1, <3>1 DEF Pictured
        <4>2. QED
          BY <1>1, <2>1, <2>2, <3>1, <4>1 DEF NothingMissing
      <3>5. QED
        BY <3>2, <3>3, <3>4 DEF AgreeInv
    <2>8. CASE m.kind = "undo"
      <3>1. astray' = astray
        BY <1>15, <2>8 DEF Got
      <3>2. OnPage' = OnPage \ {m.id}
        BY <1>15, <2>8, EffectSets DEF OnPage, IdsOf
      <3>3. /\ m.id \notin Sent /\ m.strokes = {} /\ m.id \notin Under(room)
            /\ m.id \in astray \/ m.id \notin Kept(room)
        BY <2>1, <2>3, <2>8 DEF WiresInv
      <3>4. MineShown'
        <4>1. \A s \in underway[room] : s.id \in Under(room)
          BY DEF Under, IdsOf
        <4>2. \A s \in canvas[room] : s.id \in Kept(room)
          BY DEF Kept, IdsOf
        <4>3. QED
          BY <2>5, <3>1, <3>2, <3>3, <4>1, <4>2
      <3>5. NothingOdd'
        <4>1. NoState' => NoState
          BY <2>1, <2>8 DEF NoState
        <4>2. \A i : TakenBack(i) => TakenBack(i)' \/ i = m.id
          BY <2>1 DEF TakenBack
        <4>3. QED
          BY <1>1, <2>1, <2>2, <3>1, <3>2, <4>1, <4>2 DEF NothingOdd
      <3>6. NothingMissing'
        <4>1. \A i : Pictured(i) => Pictured(i)'
          BY <2>1, <3>3 DEF Pictured, IdsOf
        <4>2. QED
          BY <1>1, <2>1, <2>2, <3>1, <3>2, <3>3, <4>1 DEF NothingMissing
      <3>7. QED
        BY <3>4, <3>5, <3>6 DEF AgreeInv
    <2>9. CASE m.kind = "info"
      <3>1. astray' = astray /\ OnPage' = OnPage
        BY <1>15, <2>9 DEF Got, OnPage
      <3>2. m.strokes = {}
        BY <2>1, <2>9 DEF WiresInv
      <3>3. MineShown'
        BY <2>5, <3>1
      <3>4. NothingOdd'
        <4>1. (NoState' => NoState) /\ \A i : TakenBack(i) => TakenBack(i)'
          BY <2>1, <2>9 DEF NoState, TakenBack
        <4>2. QED
          BY <1>1, <2>1, <2>2, <3>1, <4>1 DEF NothingOdd
      <3>5. NothingMissing'
        <4>1. \A i : Pictured(i) => Pictured(i)'
          BY <2>1, <3>2 DEF Pictured, IdsOf
        <4>2. QED
          BY <1>1, <2>1, <2>2, <3>1, <4>1 DEF NothingMissing
      <3>6. QED
        BY <3>3, <3>4, <3>5 DEF AgreeInv
    <2>10. QED
      BY <2>1, <2>6, <2>7, <2>8, <2>9
  <1>16. QED
    BY <1>5, <1>6, <1>7, <1>8, <1>9, <1>10, <1>11, <1>12, <1>13, <1>14, <1>15, Effects

PageInv == TypeInv /\ AroundInv /\ ApartInv /\ MineInv /\ WiresInv /\ OwnOnce /\ AgreeInv

\* Once the page has its CANVAS_STATE and nothing is on the wire, the page of a room shows
\* what the server keeps, for any number of rooms, strokes and failures and whichever
\* clocks are ahead; astray strokes are excepted.
THEOREM PageEndsUpRight == Spec => []PageShowsTheCanvas
  <1>1. Init => PageInv
    <2> SUFFICES ASSUME Init PROVE PageInv
      OBVIOUS
    <2>1. TypeInv
      BY TypeInit
    <2>2. Range(<<>>) = {}
      BY DEF Range
    <2>3. /\ Around = {} /\ Sent = {} /\ OnPage = {} /\ Range(inbox) = {}
          /\ \A r \in Rooms : canvas[r] = {} /\ underway[r] = {}
          /\ room = None /\ clientData = None /\ entry = Outside /\ unsent = {}
          /\ first = 1 /\ nextId = 1 /\ outbox = <<>> /\ drawEvents = <<>>
      BY <2>2 DEF Init, Around, Sent, OnPage, IdsOf
    <2>4. \A r \in Rooms : Kept(r) = {} /\ Under(r) = {}
      BY <2>3 DEF Kept, Under, IdsOf
    <2>5. AroundInv /\ AgreeInv /\ WiresInv /\ MineInv
      BY <2>2, <2>3, <2>4, OutsideEntry
         DEF AroundInv, AgreeInv, MineShown, NothingOdd, NothingMissing, WiresInv, MineInv
    <2>6. ApartInv /\ OwnOnce
      BY <2>2, <2>3, <2>4 DEF ApartInv, OwnOnce, Once
    <2>7. QED
      BY <2>1, <2>5, <2>6 DEF PageInv
  <1>2. PageInv /\ [Next]_vars => PageInv'
    <2>1. WiresInv => AtHome
      BY DEF WiresInv, AtHome
    <2>2. QED
      BY <2>1, TypeStep, AroundStep, ApartStep, MineStep, WiresStep, OwnOnceStep, AgreeStep
         DEF PageInv
  <1>3. PageInv => PageShowsTheCanvas
    <2> SUFFICES ASSUME PageInv PROVE PageShowsTheCanvas
      OBVIOUS
    <2>1. ASSUME entry.pc = "in", inbox = <<>>, outbox = <<>>, NEW i \in Ids \ astray
          PROVE  /\ i \in OnPage => i \in IdsOf(canvas[room] \cup underway[room])
                 /\ i \in Kept(room) \ unsent => i \in OnPage
      <3>1. Range(inbox) = {} /\ Sent = {}
        BY <2>1 DEF Range, Sent, IdsOf
      <3>2. NoState /\ ~TakenBack(i) /\ ~Pictured(i) /\ ~Awaited(i)
        BY <2>1, <3>1 DEF NoState, TakenBack, Pictured, Awaited
      <3>3. clientData # None
        BY <2>1 DEF PageInv, WiresInv
      <3>4. i \in OnPage => i \in Kept(room) \/ Hashing(i)
        BY <2>1, <3>1, <3>2 DEF PageInv, AgreeInv, NothingOdd
      <3>5. i \in Kept(room) \ unsent => i \in OnPage
        BY <2>1, <3>2, <3>3 DEF PageInv, AgreeInv, NothingMissing
      <3>6. i \in Kept(room) \/ Hashing(i) => i \in IdsOf(canvas[room] \cup underway[room])
        BY DEF Kept, Hashing, IdsOf
      <3>7. QED
        BY <3>4, <3>5, <3>6
    <2>2. OwnOnce
      BY DEF PageInv
    <2>3. QED
      BY <2>1, <2>2 DEF PageShowsTheCanvas, OnPage, Kept, OwnOnce
  <1>4. QED
    BY <1>1, <1>2, <1>3, PTL DEF Spec
===============================================================================
