-------------------------- MODULE SnapshotDataProofs --------------------------
(***************************************************************************)
(* What becomes of the data of strokes, for any strokes, coordinates and   *)
(* number of flushes: a message is read as it was written, a merge lists   *)
(* every id once and in the order of painting, and so every stroke is in   *)
(* the newest row or the hash as it was drawn (RowInv) while the cache has *)
(* nothing else than that row (CacheInv).                                  *)
(***************************************************************************)
EXTENDS SnapshotData, FiniteSetTheorems, TLAPS

-----------------------------------------------------------------------------
(* Messages on the wire.                                                   *)

\* Fields have different numbers.
Distinct(fields) == \A m, n \in DOMAIN fields : fields[m].no = fields[n].no => m = n

LEMMA FieldNumbers ==
  /\ Distinct(PointFields) /\ DOMAIN PointFields = {"x", "y"}
  /\ Distinct(FillStyleFields) /\ DOMAIN FillStyleFields = {"color", "opacity"}
  /\ Distinct(DrawEventListFields) /\ DOMAIN DrawEventListFields = {"events", "timestamp"}
  BY DEF Distinct, PointFields, FillStyleFields, DrawEventListFields, Field

LEMMA DrawEventNumbers ==
  /\ Distinct(DrawEventFields)
  /\ DOMAIN DrawEventFields =
       {"id", "strokeColor", "strokeWidth", "timestamp", "type", "points", "fillStyle", "from",
        "to", "radius", "center"}
  BY DEF Distinct, DrawEventFields, Field

\* What is written of a message: the fields that differ from their defaults.
Carries(wire, fields, m) ==
  /\ DOMAIN wire \subseteq {fields[n].no : n \in DOMAIN fields}
  /\ \A n \in DOMAIN fields :
       /\ fields[n].no \in DOMAIN wire <=> m[n] # fields[n].default
       /\ m[n] # fields[n].default => wire[fields[n].no] = m[n]

LEMMA Written ==
  ASSUME NEW fields, Distinct(fields), NEW m
  PROVE  Carries(Write(fields, m), fields, m)
  <1> DEFINE written == {n \in DOMAIN fields : m[n] # fields[n].default}
             numbers == {fields[n].no : n \in written}
  <1>1. Write(fields, m) =
          [no \in numbers |-> m[CHOOSE n \in written : fields[n].no = no]]
    BY DEF Write
  <1>2. ASSUME NEW n \in written PROVE (CHOOSE k \in written : fields[k].no = fields[n].no) = n
    BY DEF Distinct
  <1>3. \A n \in DOMAIN fields : fields[n].no \in numbers <=> n \in written
    BY DEF Distinct
  <1>4. DOMAIN Write(fields, m) = numbers
    BY <1>1
  <1>5. ASSUME NEW n \in written PROVE Write(fields, m)[fields[n].no] = m[n]
    <2>1. fields[n].no \in numbers
      OBVIOUS
    <2>2. PICK k : k = (CHOOSE a \in written : fields[a].no = fields[n].no)
      OBVIOUS
    <2>3. k = n
      BY <1>2, <2>2
    <2>4. Write(fields, m)[fields[n].no] = m[k]
      BY <1>1, <2>1, <2>2
    <2>5. QED
      BY <2>3, <2>4
  <1>6. QED
    BY <1>3, <1>4, <1>5 DEF Carries

\* Reading gives the message back.
LEMMA ReadsBack ==
  ASSUME NEW fields, Distinct(fields), NEW m, m = [n \in DOMAIN fields |-> m[n]]
  PROVE  Read(fields, Write(fields, m)) = m
  <1>1. \A n \in DOMAIN fields : Read(fields, Write(fields, m))[n] = m[n]
    BY Written DEF Read, Carries
  <1>2. Read(fields, Write(fields, m)) =
          [n \in DOMAIN fields |-> Read(fields, Write(fields, m))[n]]
    BY DEF Read
  <1>3. QED
    BY <1>1, <1>2

LEMMA PointReadsBack == \A p \in Points : Read(PointFields, Write(PointFields, p)) = p
  <1>1. \A p \in Points : p = [n \in DOMAIN PointFields |-> p[n]]
    BY FieldNumbers DEF Points
  <1>2. QED
    BY <1>1, FieldNumbers, ReadsBack

LEMMA FillStyleReadsBack ==
  \A f \in FillStyles : Read(FillStyleFields, Write(FillStyleFields, f)) = f
  <1>1. \A f \in FillStyles : f = [n \in DOMAIN FillStyleFields |-> f[n]]
    BY FieldNumbers DEF FillStyles
  <1>2. QED
    BY <1>1, FieldNumbers, ReadsBack

\* Draw events with an id.
Strokes == [id : Nat, type : {"line", "circle", "polygon"}, strokeColor : Colors,
            strokeWidth : Int, timestamp : Int, points : Seq(Points) \union {None},
            fillStyle : FillStyles \union {None}, from : Points \union {None},
            to : Points \union {None}, radius : Coordinates, center : Points \union {None}]

LEMMA StrokeFields ==
  ASSUME NEW e \in Strokes
  PROVE  /\ e = [n \in DOMAIN DrawEventFields |-> e[n]]
         /\ DOMAIN e = DOMAIN DrawEventFields
  BY DrawEventNumbers DEF Strokes

\* A message has points.
Filled(e) == [e EXCEPT !.points = PointsOf(e)]

LEMMA FilledFields ==
  ASSUME NEW e \in Strokes
  PROVE  /\ Filled(e) \in Strokes /\ Filled(e).points \in Seq(Points)
         /\ Filled(e).id = e.id /\ Filled(e).timestamp = e.timestamp
         /\ Partial(DrawEventFields, e) = Filled(e)
  <1>1. PICK ps : ps = PointsOf(e)
    OBVIOUS
  <1>2. ps \in Seq(Points)
    BY <1>1 DEF Strokes, PointsOf
  <1>3. PICK p : p = [e EXCEPT !.points = ps]
    OBVIOUS
  <1>4. p = Filled(e)
    BY <1>1, <1>3 DEF Filled
  <1>5. p \in Strokes /\ p.points = ps
    BY <1>2, <1>3 DEF Strokes
  <1>6. p.id = e.id /\ p.timestamp = e.timestamp
    BY <1>3 DEF Strokes
  <1>7. Partial(DrawEventFields, e) = p
    <2>1. ASSUME NEW n \in DOMAIN DrawEventFields
          PROVE  (IF e[n] # None THEN e[n] ELSE DrawEventFields[n].default) = p[n]
      <3>1. CASE n = "points"
        BY <1>1, <1>5, <3>1 DEF DrawEventFields, Field, PointsOf
      <3>2. CASE n \in {"fillStyle", "from", "to", "radius", "center"}
        <4>1. p[n] = e[n]
          BY <1>3, <3>2 DEF Strokes
        <4>2. DrawEventFields[n].default = None
          BY <3>2 DEF DrawEventFields, Field
        <4>3. QED
          BY <4>1, <4>2
      <3>3. CASE n \in {"id", "type", "strokeColor", "strokeWidth", "timestamp"}
        <4>1. p[n] = e[n]
          BY <1>3, <3>3 DEF Strokes
        <4>2. e[n] # None
          BY <3>3, NoneAssumption DEF Strokes
        <4>3. QED
          BY <4>1, <4>2
      <3>4. QED
        BY <3>1, <3>2, <3>3, DrawEventNumbers
    <2>2. Partial(DrawEventFields, e) = [n \in DOMAIN DrawEventFields |-> p[n]]
      BY <2>1 DEF Partial
    <2>3. QED
      BY <1>5, <2>2, StrokeFields
  <1>8. QED
    BY <1>2, <1>4, <1>5, <1>6, <1>7

\* Conversions of coordinates that leave numbers alone.
Conversions == {f \in [Coordinates -> Coordinates] : \A c \in Int : f[c] = c}

LEMMA ConversionsOfTheCode == AsDouble \in Conversions /\ AsJson \in Conversions
  <1>1. \A c \in Coordinates : AsDouble[c] \in Coordinates
    BY OthersAssumption DEF AsDouble, Coordinates
  <1>2. \A c \in Coordinates : AsJson[c] \in Coordinates
    BY DEF AsJson, Coordinates
  <1>3. \A c \in Int : AsDouble[c] = c /\ AsJson[c] = c
    BY OthersAssumption, NoneAssumption DEF AsDouble, AsJson, Coordinates
  <1>4. AsDouble \in [Coordinates -> Coordinates]
    BY <1>1 DEF AsDouble
  <1>5. AsJson \in [Coordinates -> Coordinates]
    BY <1>2 DEF AsJson
  <1>6. QED
    BY <1>3, <1>4, <1>5 DEF Conversions

\* A point and a fill style after a conversion.
ConvertedPoint(f, p) == IF p = None THEN None ELSE [x |-> f[p.x], y |-> f[p.y]]
ConvertedFill(f, s) == IF s = None THEN None ELSE [color |-> s.color, opacity |-> f[s.opacity]]

\* The fields of a stroke after one.
ConvertedFields(f, d, e) ==
  /\ d \in Strokes
  /\ d.id = e.id /\ d.type = e.type /\ d.strokeColor = e.strokeColor
  /\ d.strokeWidth = e.strokeWidth /\ d.timestamp = e.timestamp
  /\ d.fillStyle = ConvertedFill(f, e.fillStyle)
  /\ d.from = ConvertedPoint(f, e.from) /\ d.to = ConvertedPoint(f, e.to)
  /\ d.center = ConvertedPoint(f, e.center)
  /\ d.radius = IF e.radius = None THEN None ELSE f[e.radius]
  /\ PointsOf(d) = [i \in DOMAIN PointsOf(e) |-> ConvertedPoint(f, PointsOf(e)[i])]

LEMMA ConvertConverts ==
  ASSUME NEW e \in Strokes, NEW f \in Conversions
  PROVE  ConvertedFields(f, Convert(f, e), e)
  <1>1. f \in [Coordinates -> Coordinates]
    BY DEF Conversions
  <1>2. \A p \in Points : ConvertedPoint(f, p) \in Points
    BY <1>1, NoneAssumption DEF ConvertedPoint, Points
  <1>3. \A s \in FillStyles : ConvertedFill(f, s) \in FillStyles
    BY <1>1, NoneAssumption DEF ConvertedFill, FillStyles
  <1>4. ConvertedPoint(f, None) = None /\ ConvertedFill(f, None) = None
    BY DEF ConvertedPoint, ConvertedFill
  <1>5. PICK ps : ps = IF e.points = None THEN None
                       ELSE [i \in DOMAIN e.points |-> ConvertedPoint(f, e.points[i])]
    OBVIOUS
  <1>6. PICK r : r = IF e.radius = None THEN None ELSE f[e.radius]
    OBVIOUS
  <1>7. r \in Coordinates
    BY <1>1, <1>6 DEF Strokes, Coordinates
  <1>8. /\ ps \in Seq(Points) \union {None}
        /\ (IF ps = None THEN <<>> ELSE ps) =
             [i \in DOMAIN PointsOf(e) |-> ConvertedPoint(f, PointsOf(e)[i])]
    <2>1. CASE e.points = None
      BY <1>5, <2>1 DEF PointsOf
    <2>2. CASE e.points # None
      <3>1. PICK q \in Seq(Points) : q = e.points
        BY <2>2 DEF Strokes
      <3>2. \A i \in DOMAIN q : q[i] \in Points
        OBVIOUS
      <3>3. DOMAIN q = 1..Len(q) /\ Len(q) \in Nat
        OBVIOUS
      <3>4. ps = [i \in DOMAIN q |-> ConvertedPoint(f, q[i])]
        BY <1>5, <2>2, <3>1
      <3>5. ps \in [1..Len(q) -> Points]
        BY <1>2, <3>2, <3>3, <3>4
      <3>6. ps \in Seq(Points)
        BY <3>3, <3>5
      <3>7. ps # None
        BY <3>6, NoneAssumption
      <3>8. QED
        BY <2>2, <3>1, <3>4, <3>6, <3>7 DEF PointsOf
    <2>3. QED
      BY <2>1, <2>2
  <1>9. PICK d : d = [e EXCEPT !.points = ps, !.fillStyle = ConvertedFill(f, e.fillStyle),
                               !.from = ConvertedPoint(f, e.from), !.to = ConvertedPoint(f, e.to),
                               !.center = ConvertedPoint(f, e.center), !.radius = r]
    OBVIOUS
  <1>10. d = Convert(f, e)
    BY <1>5, <1>6, <1>9 DEF Convert, ConvertedPoint, ConvertedFill, Strokes
  <1>11. /\ ConvertedFill(f, e.fillStyle) \in FillStyles \union {None}
         /\ ConvertedPoint(f, e.from) \in Points \union {None}
         /\ ConvertedPoint(f, e.to) \in Points \union {None}
         /\ ConvertedPoint(f, e.center) \in Points \union {None}
    BY <1>2, <1>3, <1>4 DEF Strokes
  <1>12. /\ d.id = e.id /\ d.type = e.type /\ d.strokeColor = e.strokeColor
         /\ d.strokeWidth = e.strokeWidth /\ d.timestamp = e.timestamp
         /\ d.fillStyle = ConvertedFill(f, e.fillStyle) /\ d.from = ConvertedPoint(f, e.from)
         /\ d.to = ConvertedPoint(f, e.to) /\ d.center = ConvertedPoint(f, e.center)
         /\ d.radius = r /\ d.points = ps
    BY <1>9 DEF Strokes
  <1>13. d \in Strokes
    BY <1>7, <1>8, <1>9, <1>11 DEF Strokes
  <1>14. ConvertedFields(f, d, e)
    BY <1>6, <1>8, <1>12, <1>13 DEF ConvertedFields, PointsOf
  <1>15. QED
    BY <1>10, <1>14

\* A conversion keeps what numbers there are.
LEMMA KeepsConverted ==
  ASSUME NEW f \in Conversions
  PROVE  /\ \A m, p : p \in Points \union {None} /\ Keeps(m, p) /\ (m # None => m \in Points)
                      => Keeps(m, ConvertedPoint(f, p))
         /\ \A m, s : s \in FillStyles \union {None} /\ Keeps(m, s)
                        /\ (m # None => m \in FillStyles) => Keeps(m, ConvertedFill(f, s))
  <1>1. f \in [Coordinates -> Coordinates] /\ \A c \in Int : f[c] = c
    BY DEF Conversions
  <1>2. ASSUME NEW m, NEW p, p \in Points \union {None}, Keeps(m, p), m # None => m \in Points
        PROVE  Keeps(m, ConvertedPoint(f, p))
    <2>1. CASE m = None
      BY <1>2, <2>1 DEF Keeps, ConvertedPoint
    <2>2. CASE m # None
      <3>1. p # None /\ p \in Points /\ m \in Points
        BY <1>2, <2>2 DEF Keeps
      <3>2. PICK q : q = ConvertedPoint(f, p)
        OBVIOUS
      <3>3. q \in Points /\ q.x = f[p.x] /\ q.y = f[p.y]
        BY <1>1, <3>1, <3>2 DEF ConvertedPoint, Points
      <3>4. (m.x \in Int => p.x = m.x) /\ (m.y \in Int => p.y = m.y)
        BY <1>2, <2>2, <3>1 DEF Keeps, Points
      <3>5. (m.x \in Int => q.x = m.x) /\ (m.y \in Int => q.y = m.y)
        BY <1>1, <3>3, <3>4
      <3>6. q # None
        BY <3>3, NoneAssumption
      <3>7. DOMAIN m = {"x", "y"}
        BY <3>1 DEF Points
      <3>8. Keeps(m, q)
        BY <2>2, <3>5, <3>6, <3>7 DEF Keeps
      <3>9. QED
        BY <3>2, <3>8
    <2>3. QED
      BY <2>1, <2>2
  <1>3. ASSUME NEW m, NEW s, s \in FillStyles \union {None}, Keeps(m, s),
               m # None => m \in FillStyles
        PROVE  Keeps(m, ConvertedFill(f, s))
    <2>1. CASE m = None
      BY <1>3, <2>1 DEF Keeps, ConvertedFill
    <2>2. CASE m # None
      <3>1. s # None /\ s \in FillStyles /\ m \in FillStyles
        BY <1>3, <2>2 DEF Keeps
      <3>2. PICK q : q = ConvertedFill(f, s)
        OBVIOUS
      <3>3. q \in FillStyles /\ q.color = s.color /\ q.opacity = f[s.opacity]
        BY <1>1, <3>1, <3>2 DEF ConvertedFill, FillStyles
      <3>4. s.color = m.color /\ (m.opacity \in Int => s.opacity = m.opacity)
        BY <1>3, <2>2, <3>1 DEF Keeps, FillStyles
      <3>5. q.color = m.color /\ (m.opacity \in Int => q.opacity = m.opacity)
        BY <1>1, <3>3, <3>4
      <3>6. q # None
        BY <3>3, NoneAssumption
      <3>7. DOMAIN m = {"color", "opacity"}
        BY <3>1 DEF FillStyles
      <3>8. Keeps(m, q)
        BY <2>2, <3>5, <3>6, <3>7 DEF Keeps
      <3>9. QED
        BY <3>2, <3>8
    <2>3. QED
      BY <2>1, <2>2
  <1>4. QED
    BY <1>2, <1>3

LEMMA PointsOfStroke ==
  \A e \in Strokes : PointsOf(e) \in Seq(Points) /\ \A i \in DOMAIN PointsOf(e) : PointsOf(e)[i] \in Points
  <1>1. ASSUME NEW e \in Strokes PROVE PointsOf(e) \in Seq(Points)
    BY DEF Strokes, PointsOf
  <1>2. \A q \in Seq(Points) : \A i \in DOMAIN q : q[i] \in Points
    OBVIOUS
  <1>3. QED
    BY <1>1, <1>2

\* A stroke stays intact when it is converted, and when it gets its points.
LEMMA IntactConverted ==
  ASSUME NEW d \in Strokes, NEW e \in Strokes, Intact(d, e), NEW f \in Conversions
  PROVE  Intact(d, Convert(f, e))
  <1>1. PICK c : c = Convert(f, e)
    OBVIOUS
  <1>2. ConvertedFields(f, c, e)
    BY <1>1, ConvertConverts
  <1>3. \A n \in {"id", "type", "strokeColor", "strokeWidth", "timestamp"} : c[n] = d[n]
    BY <1>2 DEF ConvertedFields, Intact
  <1>4. Keeps(d.fillStyle, c.fillStyle)
    BY <1>2, KeepsConverted DEF ConvertedFields, Intact, Strokes
  <1>5. Keeps(d.from, c.from) /\ Keeps(d.to, c.to) /\ Keeps(d.center, c.center)
    BY <1>2, KeepsConverted DEF ConvertedFields, Intact, Strokes
  <1>6. d.radius \in Int => c.radius = d.radius
    <2>1. d.radius \in Int => e.radius = d.radius
      BY DEF Intact
    <2>2. \A r \in Int : r # None /\ f[r] = r
      BY NoneAssumption DEF Conversions
    <2>3. QED
      BY <1>2, <2>1, <2>2 DEF ConvertedFields
  <1>7. DOMAIN PointsOf(c) = DOMAIN PointsOf(d)
    BY <1>2 DEF ConvertedFields, Intact
  <1>8. ASSUME NEW i \in DOMAIN PointsOf(d) PROVE Keeps(PointsOf(d)[i], PointsOf(c)[i])
    <2>1. i \in DOMAIN PointsOf(e) /\ Keeps(PointsOf(d)[i], PointsOf(e)[i])
      BY DEF Intact
    <2>2. PointsOf(d)[i] \in Points /\ PointsOf(e)[i] \in Points
      BY <2>1, PointsOfStroke
    <2>3. PointsOf(c)[i] = ConvertedPoint(f, PointsOf(e)[i])
      BY <1>2, <2>1 DEF ConvertedFields
    <2>4. QED
      BY <2>1, <2>2, <2>3, KeepsConverted
  <1>9. Intact(d, c)
    BY <1>3, <1>4, <1>5, <1>6, <1>7, <1>8 DEF Intact
  <1>10. QED
    BY <1>1, <1>9

LEMMA IntactFilled ==
  ASSUME NEW d \in Strokes, NEW e \in Strokes, Intact(d, e)
  PROVE  Intact(d, Filled(e))
  <1>1. PICK c : c = Filled(e)
    OBVIOUS
  <1>2. PointsOf(e) # None
    BY PointsOfStroke, NoneAssumption
  <1>3. \A n \in {"id", "type", "strokeColor", "strokeWidth", "timestamp", "fillStyle", "from",
                   "to", "center", "radius"} : c[n] = e[n]
    BY <1>1 DEF Filled, Strokes
  <1>4. PointsOf(c) = PointsOf(e)
    <2>1. c.points = PointsOf(e)
      BY <1>1 DEF Filled, Strokes
    <2>2. QED
      BY <1>2, <2>1 DEF PointsOf
  <1>5. Intact(d, c)
    BY <1>3, <1>4 DEF Intact
  <1>6. QED
    BY <1>1, <1>5

LEMMA IntactItself == \A e \in Strokes : Intact(e, e)
  BY DEF Intact, Keeps

\* A stroke with its points comes back from the wire as it was.
LEMMA DrawEventReadsBack ==
  ASSUME NEW m \in Strokes, m.points \in Seq(Points)
  PROVE  ReadDrawEvent(WriteDrawEvent(m)) = m
  <1> DEFINE F == DrawEventFields
  <1>1. PICK wire : wire = Write(F, m)
    OBVIOUS
  <1>2. PICK sent : sent = [no \in DOMAIN wire |-> WriteMember(no, wire[no])]
    OBVIOUS
  <1>3. PICK got : got = [no \in DOMAIN sent |-> ReadMember(no, sent[no])]
    OBVIOUS
  <1>4. ReadDrawEvent(WriteDrawEvent(m)) = Read(F, got)
    BY <1>1, <1>2, <1>3 DEF WriteDrawEvent, ReadDrawEvent
  <1>5. \A n \in DOMAIN F : /\ F[n].no \in DOMAIN wire <=> m[n] # F[n].default
                            /\ m[n] # F[n].default => wire[F[n].no] = m[n]
    <2>1. Distinct(F)
      BY DrawEventNumbers
    <2> HIDE DEF F
    <2>2. QED
      BY <1>1, <2>1, Written DEF Carries
  <1>6. ASSUME NEW n \in DOMAIN F, m[n] # F[n].default
        PROVE  ReadMember(F[n].no, WriteMember(F[n].no, m[n])) = m[n]
    <2>1. CASE n = "points"
      <3>1. F[n].no = 6
        BY <2>1 DEF DrawEventFields, Field
      <3>2. PICK ps \in Seq(Points) : ps = m[n]
        BY <2>1
      <3>3. ReadMember(6, WriteMember(6, ps)) =
              [i \in DOMAIN ps |-> Read(PointFields, Write(PointFields, ps[i]))]
        BY DEF ReadMember, WriteMember
      <3>4. \A i \in DOMAIN ps : ps[i] \in Points
        OBVIOUS
      <3>5. [i \in DOMAIN ps |-> Read(PointFields, Write(PointFields, ps[i]))] =
              [i \in DOMAIN ps |-> ps[i]]
        BY <3>4, PointReadsBack
      <3>6. [i \in DOMAIN ps |-> ps[i]] = ps
        OBVIOUS
      <3>7. QED
        BY <3>1, <3>2, <3>3, <3>5, <3>6
    <2>2. CASE n = "fillStyle"
      <3>1. F[n].no = 7 /\ F[n].default = None
        BY <2>2 DEF DrawEventFields, Field
      <3>2. m[n] \in FillStyles
        BY <1>6, <2>2, <3>1 DEF Strokes
      <3>3. QED
        BY <3>1, <3>2, FillStyleReadsBack DEF ReadMember, WriteMember
    <2>3. CASE n \in {"from", "to", "center"}
      <3>1. F[n].no \in {8, 9, 11} /\ F[n].default = None
        BY <2>3 DEF DrawEventFields, Field
      <3>2. m[n] \in Points
        BY <1>6, <2>3, <3>1 DEF Strokes
      <3>3. QED
        BY <3>1, <3>2, PointReadsBack DEF ReadMember, WriteMember
    <2>4. CASE n \in {"id", "strokeColor", "strokeWidth", "timestamp", "type", "radius"}
      <3>1. F[n].no \notin {6, 7, 8, 9, 11}
        BY <2>4 DEF DrawEventFields, Field
      <3>2. QED
        BY <3>1 DEF ReadMember, WriteMember
    <2>5. QED
      BY <2>1, <2>2, <2>3, <2>4, DrawEventNumbers
  <1>7. ASSUME NEW n \in DOMAIN F
        PROVE  (IF F[n].no \in DOMAIN got THEN got[F[n].no] ELSE F[n].default) = m[n]
    <2>1. DOMAIN sent = DOMAIN wire /\ DOMAIN got = DOMAIN wire
      BY <1>2, <1>3
    <2>2. CASE m[n] = F[n].default
      BY <1>5, <2>1, <2>2
    <2>3. CASE m[n] # F[n].default
      <3>1. F[n].no \in DOMAIN wire /\ wire[F[n].no] = m[n]
        BY <1>5, <2>3
      <3>2. sent[F[n].no] = WriteMember(F[n].no, m[n])
        BY <1>2, <3>1
      <3>3. got[F[n].no] = ReadMember(F[n].no, sent[F[n].no])
        BY <1>3, <2>1, <3>1
      <3>4. QED
        BY <1>6, <2>1, <2>3, <3>1, <3>2, <3>3
    <2>4. QED
      BY <2>2, <2>3
  <1>8. Read(F, got) = [n \in DOMAIN F |-> m[n]]
    BY <1>7 DEF Read
  <1>9. QED
    BY <1>4, <1>8, StrokeFields

\* A stroke after it was on the wire.
Sent(e) == Filled(Convert(AsDouble, e))

LEMMA SentStroke ==
  ASSUME NEW e \in Strokes
  PROVE  /\ Sent(e) \in Strokes /\ Sent(e).points \in Seq(Points)
         /\ Sent(e).id = e.id /\ Sent(e).timestamp = e.timestamp
         /\ Partial(DrawEventFields, Convert(AsDouble, e)) = Sent(e)
         /\ \A d \in Strokes : Intact(d, e) => Intact(d, Sent(e))
  <1>1. PICK c : c = Convert(AsDouble, e)
    OBVIOUS
  <1>2. ConvertedFields(AsDouble, c, e)
    BY <1>1, ConversionsOfTheCode, ConvertConverts
  <1>3. c \in Strokes /\ c.id = e.id /\ c.timestamp = e.timestamp
    BY <1>2 DEF ConvertedFields
  <1>4. \A d \in Strokes : Intact(d, e) => Intact(d, c)
    BY <1>1, ConversionsOfTheCode, IntactConverted
  <1>5. QED
    BY <1>1, <1>3, <1>4, FilledFields, IntactFilled DEF Sent

\* What the cache has of a snapshot that was encoded: its strokes, as they were sent.
LEMMA DecodeOfEncode ==
  ASSUME NEW events \in Seq(Strokes), NEW timestamp
  PROVE  /\ Decode(Encode(events, timestamp)) = [i \in DOMAIN events |-> Sent(events[i])]
         /\ DOMAIN Encode(events, timestamp) \subseteq {1, 2}
         /\ events # <<>> => Encode(events, timestamp) # NoKey
  <1> DEFINE F == DrawEventListFields
  <1>1. PICK sent : sent = [i \in DOMAIN events |-> Sent(events[i])]
    OBVIOUS
  <1>2. PICK wires : wires = [i \in DOMAIN sent |-> WriteDrawEvent(sent[i])]
    OBVIOUS
  <1>3. \A i \in DOMAIN events : events[i] \in Strokes
    OBVIOUS
  <1>4. sent = [i \in DOMAIN events |-> Partial(DrawEventFields, Convert(AsDouble, events[i]))]
    BY <1>1, <1>3, SentStroke
  <1>5. PICK list : list = [events |-> wires, timestamp |-> timestamp]
    OBVIOUS
  <1>6. Encode(events, timestamp) = Write(F, list)
    <2>1. PICK l : l = [events |-> sent, timestamp |-> timestamp]
      OBVIOUS
    <2>2. Encode(events, timestamp) = WriteDrawEventList(l)
      BY <1>4, <2>1 DEF Encode
    <2>3. [l EXCEPT !.events = [i \in DOMAIN @ |-> WriteDrawEvent(@[i])]] = list
      BY <1>2, <1>5, <2>1
    <2>4. QED
      BY <2>2, <2>3 DEF WriteDrawEventList
  <1>7. list = [n \in DOMAIN F |-> list[n]]
    BY <1>5, FieldNumbers
  <1>8. Read(F, Write(F, list)) = list
    BY <1>7, FieldNumbers, ReadsBack
  <1>9. Decode(Write(F, list)) = [i \in DOMAIN wires |-> ReadDrawEvent(wires[i])]
    BY <1>5, <1>8 DEF Decode, ReadDrawEventList
  <1>10. \A i \in DOMAIN events : ReadDrawEvent(wires[i]) = sent[i]
    BY <1>1, <1>2, <1>3, SentStroke, DrawEventReadsBack
  <1>11. DOMAIN wires = DOMAIN events /\ DOMAIN sent = DOMAIN events
    BY <1>1, <1>2
  <1>12. [i \in DOMAIN wires |-> ReadDrawEvent(wires[i])] = sent
    BY <1>1, <1>10, <1>11
  <1>13. DOMAIN Write(F, list) \subseteq {1, 2}
    <2>1. \A n \in DOMAIN F : F[n].no \in {1, 2}
      BY DEF DrawEventListFields, Field
    <2>2. Distinct(F)
      BY FieldNumbers
    <2> HIDE DEF F
    <2>3. QED
      BY <2>1, <2>2, Written DEF Carries
  <1>14. ASSUME events # <<>> PROVE Write(F, list) # NoKey
    <2>1. wires # <<>>
      <3>1. Len(events) \in Nat /\ Len(events) # 0 /\ DOMAIN events = 1..Len(events)
        BY <1>14
      <3>2. 1 \in DOMAIN wires
        BY <1>11, <3>1
      <3>3. QED
        BY <3>2
    <2>2. F["events"].no = 1 /\ F["events"].default = <<>> /\ "events" \in DOMAIN F
          /\ list["events"] = wires
      BY <1>5 DEF DrawEventListFields, Field
    <2>3. 1 \in DOMAIN Write(F, list)
      BY <2>1, <2>2, FieldNumbers, Written DEF Carries
    <2>4. QED
      BY <2>3 DEF NoKey
  <1>15. QED
    BY <1>1, <1>6, <1>9, <1>12, <1>13, <1>14

-----------------------------------------------------------------------------
(* The merge.                                                              *)

\* The order of painting.
Before(s, j, i) ==
  \/ s[j].timestamp < s[i].timestamp
  \/ (s[j].timestamp = s[i].timestamp /\ j <= i)

Timed(s, kept) == \A i \in kept : s[i].timestamp \in Int

\* Before is a total order of places.
LEMMA BeforeOrders ==
  ASSUME NEW s, NEW kept \in SUBSET Int, Timed(s, kept)
  PROVE  /\ \A i \in kept : Before(s, i, i)
         /\ \A i, j \in kept : Before(s, i, j) \/ Before(s, j, i)
         /\ \A i, j \in kept : Before(s, i, j) /\ Before(s, j, i) => i = j
         /\ \A i, j, k \in kept : Before(s, i, j) /\ Before(s, j, k) => Before(s, i, k)
  <1>1. \A i \in kept : i \in Int /\ s[i].timestamp \in Int
    BY DEF Timed
  <1>2. ASSUME NEW i \in kept, NEW j \in kept, NEW k \in kept, Before(s, i, j), Before(s, j, k)
        PROVE  Before(s, i, k)
    <2>1. PICK a \in Int, b \in Int, c \in Int :
            a = s[i].timestamp /\ b = s[j].timestamp /\ c = s[k].timestamp
      BY <1>1
    <2>2. i \in Int /\ j \in Int /\ k \in Int
      OBVIOUS
    <2>3. a < b \/ (a = b /\ i <= j)
      BY <1>2, <2>1 DEF Before
    <2>4. b < c \/ (b = c /\ j <= k)
      BY <1>2, <2>1 DEF Before
    <2>5. a < c \/ (a = c /\ i <= k)
      BY <2>1, <2>2, <2>3, <2>4
    <2>6. QED
      BY <2>1, <2>5 DEF Before
  <1>3. ASSUME NEW i \in kept, NEW j \in kept
        PROVE  /\ Before(s, i, i)
               /\ Before(s, i, j) \/ Before(s, j, i)
               /\ Before(s, i, j) /\ Before(s, j, i) => i = j
    <2>1. PICK a \in Int, b \in Int : a = s[i].timestamp /\ b = s[j].timestamp
      BY <1>1
    <2>2. i \in Int /\ j \in Int
      OBVIOUS
    <2>3. Before(s, i, j) <=> (a < b \/ (a = b /\ i <= j))
      BY <2>1 DEF Before
    <2>4. Before(s, j, i) <=> (b < a \/ (b = a /\ j <= i))
      BY <2>1 DEF Before
    <2>5. Before(s, i, i)
      BY <2>2 DEF Before
    <2>6. QED
      BY <2>1, <2>2, <2>3, <2>4, <2>5
  <1>4. QED
    BY <1>2, <1>3

\* Places number what is kept in that order.
Ranks(s, kept) ==
  /\ Cardinality(kept) \in Nat
  /\ \A i \in kept : Place(s, kept, i) \in 1..Cardinality(kept)
  /\ \A i, j \in kept : Before(s, i, j) <=> Place(s, kept, i) <= Place(s, kept, j)
  /\ \A n \in 1..Cardinality(kept) : \E i \in kept : Place(s, kept, i) = n

LEMMA PlacesNumber ==
  ASSUME NEW s, NEW kept \in SUBSET Int, IsFiniteSet(kept), Timed(s, kept)
  PROVE  Ranks(s, kept)
  <1> DEFINE Upto(i) == {j \in kept : Before(s, j, i)}
             place == [i \in kept |-> Cardinality(Upto(i))]
             Places == 1..Cardinality(kept)
  <1>1. Cardinality(kept) \in Nat /\ IsFiniteSet(Places) /\ Cardinality(Places) = Cardinality(kept)
    BY FS_CardinalityType, FS_Interval
  <1>2. \A i \in kept : Place(s, kept, i) = Cardinality(Upto(i))
    BY DEF Place, Before
  <1>3. ASSUME NEW i \in kept PROVE IsFiniteSet(Upto(i)) /\ Cardinality(Upto(i)) \in Places
    <2>1. Upto(i) \subseteq kept /\ i \in Upto(i)
      BY BeforeOrders
    <2> HIDE DEF Upto
    <2>2. IsFiniteSet(Upto(i)) /\ Cardinality(Upto(i)) <= Cardinality(kept)
      BY <2>1, FS_Subset
    <2>3. Cardinality(Upto(i)) \in Nat /\ Cardinality(Upto(i)) # 0
      BY <2>1, <2>2, FS_CardinalityType, FS_EmptySet
    <2>4. QED
      BY <1>1, <2>2, <2>3
  <1>4. ASSUME NEW i \in kept, NEW j \in kept, Before(s, i, j)
        PROVE  /\ Cardinality(Upto(i)) <= Cardinality(Upto(j))
               /\ Cardinality(Upto(i)) = Cardinality(Upto(j)) => i = j
    <2>1. Upto(i) \subseteq Upto(j)
      BY <1>4, BeforeOrders
    <2>2. j \in Upto(j)
      BY BeforeOrders
    <2>3. j \in Upto(i) => i = j
      BY <1>4, BeforeOrders
    <2> HIDE DEF Upto
    <2>4. IsFiniteSet(Upto(j))
      BY <1>3
    <2>5. /\ Cardinality(Upto(i)) <= Cardinality(Upto(j))
          /\ Cardinality(Upto(i)) = Cardinality(Upto(j)) => Upto(i) = Upto(j)
      BY <2>1, <2>4, FS_Subset
    <2>6. QED
      BY <2>2, <2>3, <2>5
  <1>5. \A i, j \in kept : Cardinality(Upto(i)) = Cardinality(Upto(j)) => i = j
    <2>1. \A i, j \in kept : Before(s, i, j) \/ Before(s, j, i)
      BY BeforeOrders
    <2> HIDE DEF Upto
    <2>2. QED
      BY <1>4, <2>1
  <1>6. place \in Injection(kept, Places)
    <2>1. place \in [kept -> Places]
      <3> HIDE DEF Upto
      <3>1. QED
        BY <1>3
    <2>2. \A i, k \in kept : place[i] = place[k] => i = k
      BY <1>5
    <2> HIDE DEF place
    <2>3. QED
      BY <2>1, <2>2 DEF Injection, IsInjective
  <1>7. place \in Surjection(kept, Places)
    <2> HIDE DEF place, Places
    <2>1. QED
      BY <1>1, <1>6, FS_Injection
  <1>8. \A n \in Places : \E i \in kept : Cardinality(Upto(i)) = n
    BY <1>7 DEF Surjection
  <1>9. ASSUME NEW i \in kept, NEW j \in kept
        PROVE  Before(s, i, j) <=> Cardinality(Upto(i)) <= Cardinality(Upto(j))
    <2>1. Before(s, i, j) \/ (Before(s, j, i) /\ i # j)
      BY BeforeOrders
    <2> HIDE DEF Upto
    <2>2. CASE Before(s, i, j)
      BY <1>4, <2>2
    <2>3. CASE Before(s, j, i) /\ i # j /\ ~Before(s, i, j)
      <3>1. Cardinality(Upto(j)) <= Cardinality(Upto(i))
        BY <1>4, <2>3
      <3>2. Cardinality(Upto(j)) # Cardinality(Upto(i))
        BY <1>5, <2>3
      <3>3. Cardinality(Upto(j)) \in Nat /\ Cardinality(Upto(i)) \in Nat
        BY <1>1, <1>3
      <3>4. QED
        BY <2>3, <3>1, <3>2, <3>3
    <2>4. QED
      BY <2>1, <2>2, <2>3
  <1>10. QED
    <2> HIDE DEF Upto
    <2>1. QED
      BY <1>1, <1>2, <1>3, <1>8, <1>9 DEF Ranks

\* SortByTimestamp lists what is kept, once each and in that order: f has the place in s of
\* every member.
Sorts(f, s, kept) ==
  /\ f \in [1..Cardinality(kept) -> kept]
  /\ SortByTimestamp(s, kept) = [k \in 1..Cardinality(kept) |-> s[f[k]]]
  /\ \A i \in kept : \E k \in 1..Cardinality(kept) : f[k] = i
  /\ \A k, l \in 1..Cardinality(kept) : k <= l <=> Before(s, f[k], f[l])

LEMMA SortByTimestampSorts ==
  ASSUME NEW s, NEW kept \in SUBSET Int, IsFiniteSet(kept), Timed(s, kept)
  PROVE  \E f : Sorts(f, s, kept)
  <1> DEFINE f == [k \in 1..Cardinality(kept) |-> CHOOSE i \in kept : Place(s, kept, i) = k]
  <1>1. Ranks(s, kept)
    BY PlacesNumber
  <1>2. \A k \in 1..Cardinality(kept) : f[k] \in kept /\ Place(s, kept, f[k]) = k
    BY <1>1 DEF Ranks
  <1>3. ASSUME NEW i \in kept PROVE f[Place(s, kept, i)] = i
    <2>1. PICK k \in 1..Cardinality(kept) : k = Place(s, kept, i)
      BY <1>1 DEF Ranks
    <2>2. PICK j \in kept : j = f[k]
      BY <1>2
    <2>3. Place(s, kept, j) = k
      BY <1>2, <2>2
    <2>4. Before(s, i, j) /\ Before(s, j, i)
      BY <1>1, <2>1, <2>3 DEF Ranks
    <2>5. i = j
      BY <2>4, BeforeOrders
    <2>6. QED
      BY <2>1, <2>2, <2>5
  <1>4. SortByTimestamp(s, kept) = [k \in 1..Cardinality(kept) |-> s[f[k]]]
    BY DEF SortByTimestamp
  <1>5. f \in [1..Cardinality(kept) -> kept]
    BY <1>2
  <1>6. \A i \in kept : \E k \in 1..Cardinality(kept) : f[k] = i
    <2> HIDE DEF f
    <2>1. QED
      BY <1>1, <1>3 DEF Ranks
  <1>7. ASSUME NEW k \in 1..Cardinality(kept), NEW l \in 1..Cardinality(kept)
        PROVE  k <= l <=> Before(s, f[k], f[l])
    <2> HIDE DEF f
    <2>1. Before(s, f[k], f[l]) <=> Place(s, kept, f[k]) <= Place(s, kept, f[l])
      BY <1>1, <1>2 DEF Ranks
    <2>2. QED
      BY <1>2, <2>1
  <1>8. QED
    <2> HIDE DEF f
    <2>1. Sorts(f, s, kept)
      BY <1>4, <1>5, <1>6, <1>7 DEF Sorts
    <2>2. QED
      BY <2>1

\* A list has a first place of every id.
LEMMA DedupeKeepsFirst ==
  ASSUME NEW S, NEW s \in Seq(S)
  PROVE  /\ DedupeById(s) \subseteq DOMAIN s /\ IsFiniteSet(DedupeById(s))
         /\ DedupeById(s) \in SUBSET Int
         /\ \A i \in DOMAIN s : \E j \in DedupeById(s) : s[j].id = s[i].id /\ j <= i
         /\ \A i, j \in DedupeById(s) : s[i].id = s[j].id => i = j
  <1>1. DOMAIN s = 1..Len(s) /\ Len(s) \in Nat
    OBVIOUS
  <1>2. IsFiniteSet(DOMAIN s)
    <2>1. IsFiniteSet(1..Len(s))
      BY <1>1, FS_Interval
    <2>2. QED
      BY <1>1, <2>1
  <1>3. DedupeById(s) \subseteq DOMAIN s
    BY DEF DedupeById
  <1>4. IsFiniteSet(DedupeById(s))
    BY <1>2, <1>3, FS_Subset
  <1>5. ASSUME NEW i \in DOMAIN s
        PROVE  \E j \in DedupeById(s) : s[j].id = s[i].id /\ j <= i
    <2> DEFINE T == {j \in DOMAIN s : s[j].id = s[i].id}
               t == [j \in T |-> [timestamp |-> 0]]
    <2>1. i \in T /\ T \subseteq DOMAIN s /\ T \in SUBSET Int
      BY <1>1
    <2>2. IsFiniteSet(T)
      <3> HIDE DEF T
      <3>1. QED
        BY <1>2, <2>1, FS_Subset
    <2>3. Timed(t, T)
      BY DEF Timed
    <2>4. \A j, k \in T : Before(t, j, k) <=> j <= k
      BY DEF Before
    <2>5. Ranks(t, T)
      <3> HIDE DEF T, t
      <3>1. QED
        BY <2>1, <2>2, <2>3, PlacesNumber
    <2>6. PICK j \in T : \A k \in T : j <= k
      <3> HIDE DEF T, t
      <3>1. Cardinality(T) \in Nat /\ Place(t, T, i) \in 1..Cardinality(T)
        BY <2>1, <2>5 DEF Ranks
      <3>2. 1 \in 1..Cardinality(T)
        BY <3>1
      <3>3. PICK j \in T : Place(t, T, j) = 1
        BY <2>5, <3>2 DEF Ranks
      <3>4. ASSUME NEW k \in T PROVE j <= k
        <4>1. Place(t, T, k) \in 1..Cardinality(T)
          BY <2>5 DEF Ranks
        <4>2. Place(t, T, j) <= Place(t, T, k)
          BY <3>1, <3>3, <4>1
        <4>3. Before(t, j, k)
          BY <2>5, <4>2 DEF Ranks
        <4>4. QED
          BY <2>4, <4>3
      <3>5. QED
        BY <3>4
    <2>7. j \in DedupeById(s)
      BY <2>6 DEF DedupeById
    <2>8. QED
      BY <2>1, <2>6, <2>7
  <1>6. ASSUME NEW i \in DedupeById(s), NEW j \in DedupeById(s), s[i].id = s[j].id
        PROVE  i = j
    <2>1. i \in DOMAIN s /\ j \in DOMAIN s /\ i <= j /\ j <= i
      BY <1>3, <1>6 DEF DedupeById
    <2>2. QED
      BY <1>1, <2>1
  <1>7. QED
    BY <1>1, <1>3, <1>4, <1>5, <1>6

\* A list has its ids once, and its timestamps ascend.
OnePerId(s) == \A i, j \in DOMAIN s : s[i].id = s[j].id => i = j
Ascends(s) == \A i, j \in DOMAIN s : i < j => s[i].timestamp <= s[j].timestamp

Members(s) == {s[i] : i \in DOMAIN s}

\* i and j of a list do not change places in m.
KeepsOrder(s, m) ==
  \A i, j \in DOMAIN s : i <= j =>
    \E k, l \in DOMAIN m : k <= l /\ m[k].id = s[i].id /\ m[l].id = s[j].id

\* What a merge gives.
Merges(m, last, pending) ==
  /\ m \in Seq(Strokes)
  /\ Members(m) \subseteq Members(last) \union Members(pending)
  /\ IdsIn(m) = IdsIn(last) \union IdsIn(pending)
  /\ OnePerId(m) /\ Ascends(m)
  /\ OnePerId(last) /\ Ascends(last) => KeepsOrder(last, m)

LEMMA MergeMerges ==
  ASSUME NEW last \in Seq(Strokes), NEW pending \in Seq(Strokes)
  PROVE  Merges(MergeSnapshotsWithPendingEvents(last, pending), last, pending)
  <1>1. PICK s \in Seq(Strokes) : s = last \o pending
    <2>1. last \o pending \in Seq(Strokes)
      OBVIOUS
    <2>2. QED
      BY <2>1
  <1>2. PICK kept : kept = DedupeById(s)
    OBVIOUS
  <1>3. PICK m : m = MergeSnapshotsWithPendingEvents(last, pending)
    OBVIOUS
  <1>4. m = SortByTimestamp(s, kept)
    BY <1>1, <1>2, <1>3 DEF MergeSnapshotsWithPendingEvents
  <1>5. /\ kept \subseteq DOMAIN s /\ IsFiniteSet(kept) /\ kept \in SUBSET Int
        /\ \A i \in DOMAIN s : \E j \in kept : s[j].id = s[i].id /\ j <= i
        /\ \A i, j \in kept : s[i].id = s[j].id => i = j
    BY <1>2, DedupeKeepsFirst
  <1>6. \A i \in DOMAIN s : s[i] \in Strokes /\ s[i].timestamp \in Int
    <2>1. \A i \in DOMAIN s : s[i] \in Strokes
      OBVIOUS
    <2>2. \A e \in Strokes : e.timestamp \in Int
      BY DEF Strokes
    <2>3. QED
      BY <2>1, <2>2
  <1>7. Timed(s, kept)
    BY <1>5, <1>6 DEF Timed
  <1>8. PICK f : Sorts(f, s, kept)
    BY <1>5, <1>7, SortByTimestampSorts
  <1>9. Cardinality(kept) \in Nat
    BY <1>5, FS_CardinalityType
  <1>10. PICK n \in Nat : n = Cardinality(kept)
    BY <1>9
  <1>11. /\ f \in [1..n -> kept] /\ m = [k \in 1..n |-> s[f[k]]]
         /\ \A i \in kept : \E k \in 1..n : f[k] = i
         /\ \A k, l \in 1..n : k <= l <=> Before(s, f[k], f[l])
    BY <1>4, <1>8, <1>10 DEF Sorts
  <1>12. m \in Seq(Strokes) /\ DOMAIN m = 1..n
    <2>1. m \in [1..n -> Strokes]
      BY <1>5, <1>6, <1>11
    <2>2. QED
      BY <2>1
  <1>13. ASSUME NEW i \in DOMAIN s
         PROVE  \/ \E a \in DOMAIN last : s[i] = last[a]
                \/ \E b \in DOMAIN pending : s[i] = pending[b]
    <2>1. DOMAIN last = 1..Len(last) /\ DOMAIN pending = 1..Len(pending)
          /\ DOMAIN s = 1..(Len(last) + Len(pending)) /\ Len(last) \in Nat /\ Len(pending) \in Nat
      BY <1>1
    <2>2. CASE i <= Len(last)
      BY <1>1, <2>1, <2>2
    <2>3. CASE i > Len(last)
      <3>1. i - Len(last) \in DOMAIN pending /\ s[i] = pending[i - Len(last)]
        BY <1>1, <2>1, <2>3
      <3>2. QED
        BY <3>1
    <2>4. QED
      BY <2>1, <2>2, <2>3
  <1>14. ASSUME NEW a \in DOMAIN last PROVE a \in DOMAIN s /\ s[a] = last[a]
    BY <1>1
  <1>15. ASSUME NEW b \in DOMAIN pending PROVE \E i \in DOMAIN s : s[i] = pending[b]
    <2>1. Len(last) + b \in DOMAIN s /\ s[Len(last) + b] = pending[b]
      BY <1>1
    <2>2. QED
      BY <2>1
  <1>16. Members(m) \subseteq Members(last) \union Members(pending)
    <2>1. ASSUME NEW k \in DOMAIN m PROVE m[k] \in Members(last) \union Members(pending)
      <3>1. f[k] \in DOMAIN s /\ m[k] = s[f[k]]
        BY <1>5, <1>11, <1>12
      <3>2. QED
        BY <1>13, <3>1 DEF Members
    <2>2. QED
      BY <2>1 DEF Members
  <1>17. IdsIn(m) = IdsIn(s)
    <2>1. ASSUME NEW k \in DOMAIN m PROVE m[k].id \in IdsIn(s)
      <3>1. f[k] \in DOMAIN s /\ m[k] = s[f[k]]
        BY <1>5, <1>11, <1>12
      <3>2. QED
        BY <3>1 DEF IdsIn
    <2>2. ASSUME NEW i \in DOMAIN s PROVE s[i].id \in IdsIn(m)
      <3>1. PICK j \in kept : s[j].id = s[i].id
        BY <1>5
      <3>2. PICK k \in 1..n : f[k] = j
        BY <1>11
      <3>3. m[k].id = s[i].id
        BY <1>11, <3>1, <3>2
      <3>4. QED
        BY <1>12, <3>3 DEF IdsIn
    <2>3. QED
      BY <2>1, <2>2 DEF IdsIn
  <1>18. IdsIn(s) = IdsIn(last) \union IdsIn(pending)
    <2>1. ASSUME NEW i \in DOMAIN s PROVE s[i].id \in IdsIn(last) \union IdsIn(pending)
      BY <1>13 DEF IdsIn
    <2>2. ASSUME NEW a \in DOMAIN last PROVE last[a].id \in IdsIn(s)
      BY <1>14 DEF IdsIn
    <2>3. ASSUME NEW b \in DOMAIN pending PROVE pending[b].id \in IdsIn(s)
      BY <1>15 DEF IdsIn
    <2>4. QED
      BY <2>1, <2>2, <2>3 DEF IdsIn
  <1>19. OnePerId(m)
    <2>1. ASSUME NEW k \in 1..n, NEW l \in 1..n, m[k].id = m[l].id PROVE k = l
      <3>1. f[k] \in kept /\ f[l] \in kept /\ m[k] = s[f[k]] /\ m[l] = s[f[l]]
        BY <1>11
      <3>2. f[k] = f[l]
        BY <1>5, <2>1, <3>1
      <3>3. Before(s, f[k], f[l]) /\ Before(s, f[l], f[k])
        BY <1>5, <1>7, <3>1, <3>2, BeforeOrders
      <3>4. k <= l /\ l <= k
        BY <1>11, <3>3
      <3>5. QED
        BY <3>4
    <2>2. QED
      BY <1>12, <2>1 DEF OnePerId
  <1>20. Ascends(m)
    <2>1. ASSUME NEW k \in 1..n, NEW l \in 1..n, k < l
          PROVE  m[k].timestamp <= m[l].timestamp
      <3>1. f[k] \in kept /\ f[l] \in kept /\ m[k] = s[f[k]] /\ m[l] = s[f[l]]
        BY <1>11
      <3>2. k <= l
        BY <2>1
      <3>3. Before(s, f[k], f[l])
        BY <1>11, <3>2
      <3>4. s[f[k]].timestamp \in Int /\ s[f[l]].timestamp \in Int
        BY <1>5, <1>6, <3>1
      <3>5. QED
        BY <3>1, <3>3, <3>4 DEF Before
    <2>2. QED
      BY <1>12, <2>1 DEF Ascends
  <1>21. ASSUME OnePerId(last), Ascends(last) PROVE KeepsOrder(last, m)
    <2>1. ASSUME NEW i \in DOMAIN last
          PROVE  i \in kept
      <3>1. i \in DOMAIN s /\ s[i] = last[i]
        BY <1>14
      <3>2. PICK j \in kept : s[j].id = s[i].id /\ j <= i
        BY <1>5, <3>1
      <3>3. j \in DOMAIN last
        <4>1. j \in Nat /\ j >= 1 /\ i \in Nat /\ i <= Len(last) /\ Len(last) \in Nat
          BY <1>5, <1>1, <3>2
        <4>2. QED
          BY <3>2, <4>1
      <3>4. i = j
        BY <1>14, <1>21, <3>1, <3>2, <3>3 DEF OnePerId
      <3>5. QED
        BY <3>2, <3>4
    <2>2. ASSUME NEW i \in DOMAIN last, NEW j \in DOMAIN last, i <= j
          PROVE  \E k, l \in DOMAIN m : k <= l /\ m[k].id = last[i].id /\ m[l].id = last[j].id
      <3>1. i \in kept /\ j \in kept /\ s[i] = last[i] /\ s[j] = last[j]
        BY <1>14, <2>1
      <3>2. Before(s, i, j)
        <4>1. PICK a \in Int, b \in Int : a = last[i].timestamp /\ b = last[j].timestamp
          BY <1>5, <1>6, <3>1
        <4>2. i \in Int /\ j \in Int
          BY <1>5, <3>1
        <4>3. i < j => a <= b
          BY <1>21, <4>1 DEF Ascends
        <4>4. i = j => a = b
          BY <4>1
        <4>5. a < b \/ (a = b /\ i <= j)
          BY <2>2, <4>1, <4>2, <4>3, <4>4
        <4>6. QED
          BY <3>1, <4>1, <4>5 DEF Before
      <3>3. PICK k \in 1..n : f[k] = i
        BY <1>11, <3>1
      <3>4. PICK l \in 1..n : f[l] = j
        BY <1>11, <3>1
      <3>5. k <= l
        BY <1>11, <3>2, <3>3, <3>4
      <3>6. m[k] = last[i] /\ m[l] = last[j]
        BY <1>11, <3>1, <3>3, <3>4
      <3>7. QED
        BY <1>12, <3>5, <3>6
    <2>3. QED
      BY <2>2 DEF KeepsOrder
  <1>22. QED
    BY <1>3, <1>12, <1>16, <1>17, <1>18, <1>19, <1>20, <1>21 DEF Merges

-----------------------------------------------------------------------------
(* What hash, cache and row have of the strokes.                           *)

\* A list of strokes as they were drawn, but for what was no number, in order.
Faithful(s, d) ==
  /\ s \in Seq(Strokes) /\ OnePerId(s) /\ Ascends(s)
  /\ \A e \in Members(s) : e.id \in DOMAIN d /\ Intact(d[e.id], e)

\* Two lists of the same ids in the same order.
Alike(l, r) ==
  /\ DOMAIN l = DOMAIN r
  /\ \A i \in DOMAIN r : l[i].id = r[i].id /\ l[i].timestamp = r[i].timestamp

DrawnInv ==
  /\ drawn \in Seq(Strokes) /\ Len(drawn) <= MaxStrokes
  /\ \A i \in DOMAIN drawn : drawn[i].id = i /\ Accepted(drawn[i])

\* Every stroke is in the newest row or pending.
RowInv ==
  /\ Faithful(row, drawn) /\ hash \subseteq DOMAIN drawn
  /\ IdsIn(row) \union hash = DOMAIN drawn

\* The cache has the strokes of the newest row, encoded before or after they went there.
Caches(c, m, r) ==
  m \in Seq(Strokes) /\ m # <<>> /\ Faithful(m, drawn) /\ Alike(m, r) /\ c = Encode(m, Empty)
CacheInv == cached = NoKey \/ \E m : Caches(cached, m, row)

Inv == DrawnInv /\ RowInv /\ CacheInv

\* A list of strokes that were converted.
LEMMA ConvertedList ==
  ASSUME DrawnInv, NEW s, Faithful(s, drawn), NEW l, DOMAIN l = DOMAIN s,
         \A i \in DOMAIN s : /\ l[i] \in Strokes /\ l[i].id = s[i].id
                              /\ l[i].timestamp = s[i].timestamp
                              /\ \A d \in Strokes : Intact(d, s[i]) => Intact(d, l[i]),
         l = [i \in DOMAIN s |-> l[i]]
  PROVE  /\ Faithful(l, drawn) /\ Alike(l, s) /\ IdsIn(l) = IdsIn(s)
  <1>1. s \in Seq(Strokes) /\ OnePerId(s) /\ Ascends(s)
    BY DEF Faithful
  <1>2. l \in Seq(Strokes)
    <2>1. DOMAIN s = 1..Len(s) /\ Len(s) \in Nat
      BY <1>1
    <2>2. l \in [1..Len(s) -> Strokes]
      BY <2>1
    <2>3. QED
      BY <2>1, <2>2
  <1>3. IdsIn(l) = IdsIn(s)
    BY DEF IdsIn
  <1>4. OnePerId(l) /\ Ascends(l)
    BY <1>1 DEF OnePerId, Ascends
  <1>5. ASSUME NEW i \in DOMAIN l
        PROVE  l[i].id \in DOMAIN drawn /\ Intact(drawn[l[i].id], l[i])
    <2>1. s[i] \in Members(s)
      BY DEF Members
    <2>2. s[i].id \in DOMAIN drawn /\ Intact(drawn[s[i].id], s[i])
      BY <2>1 DEF Faithful
    <2>3. drawn \in Seq(Strokes)
      BY DEF DrawnInv
    <2>4. \A k \in DOMAIN drawn : drawn[k] \in Strokes
      BY <2>3
    <2>5. PICK d \in Strokes : d = drawn[s[i].id]
      BY <2>2, <2>4
    <2>6. Intact(d, l[i])
      BY <2>2, <2>5
    <2>7. QED
      BY <2>2, <2>5, <2>6
  <1>6. Faithful(l, drawn)
    BY <1>2, <1>4, <1>5 DEF Faithful, Members
  <1>7. Alike(l, s)
    BY DEF Alike
  <1>8. QED
    BY <1>3, <1>6, <1>7

\* Reading a snapshot gives its strokes.
LEMMA DecodedList ==
  ASSUME DrawnInv, NEW m, m \in Seq(Strokes), Faithful(m, drawn)
  PROVE  /\ Faithful(Decode(Encode(m, Empty)), drawn) /\ Alike(Decode(Encode(m, Empty)), m)
         /\ IdsIn(Decode(Encode(m, Empty))) = IdsIn(m)
  <1>1. PICK l : l = Decode(Encode(m, Empty))
    OBVIOUS
  <1>2. l = [i \in DOMAIN m |-> Sent(m[i])]
    BY <1>1, DecodeOfEncode
  <1>3. \A i \in DOMAIN m : m[i] \in Strokes
    OBVIOUS
  <1>4. DOMAIN l = DOMAIN m /\ l = [i \in DOMAIN m |-> l[i]]
    BY <1>2
  <1>5. \A i \in DOMAIN m : /\ l[i] \in Strokes /\ l[i].id = m[i].id
                             /\ l[i].timestamp = m[i].timestamp
                             /\ \A d \in Strokes : Intact(d, m[i]) => Intact(d, l[i])
    BY <1>2, <1>3, SentStroke
  <1>6. Faithful(l, drawn) /\ Alike(l, m) /\ IdsIn(l) = IdsIn(m)
    BY <1>4, <1>5, ConvertedList
  <1>7. QED
    BY <1>1, <1>6

\* So does writing them into a row.
LEMMA PayloadList ==
  ASSUME DrawnInv, NEW m, m \in Seq(Strokes), Faithful(m, drawn)
  PROVE  /\ Faithful(Payload(m), drawn) /\ Alike(Payload(m), m)
         /\ IdsIn(Payload(m)) = IdsIn(m)
  <1>1. PICK l : l = Payload(m)
    OBVIOUS
  <1>2. l = [i \in DOMAIN m |-> Convert(AsJson, m[i])]
    BY <1>1 DEF Payload
  <1>3. \A i \in DOMAIN m : m[i] \in Strokes
    OBVIOUS
  <1>4. DOMAIN l = DOMAIN m /\ l = [i \in DOMAIN m |-> l[i]]
    BY <1>2
  <1>5. ASSUME NEW i \in DOMAIN m
        PROVE  /\ l[i] \in Strokes /\ l[i].id = m[i].id
               /\ l[i].timestamp = m[i].timestamp
               /\ \A d \in Strokes : Intact(d, m[i]) => Intact(d, l[i])
    <2>1. PICK e \in Strokes : e = m[i]
      BY <1>3
    <2>2. l[i] = Convert(AsJson, e)
      BY <1>2, <2>1
    <2>3. ConvertedFields(AsJson, l[i], e)
      BY <2>2, ConversionsOfTheCode, ConvertConverts
    <2>4. \A d \in Strokes : Intact(d, e) => Intact(d, l[i])
      BY <2>2, ConversionsOfTheCode, IntactConverted
    <2>5. QED
      BY <2>1, <2>3, <2>4 DEF ConvertedFields
  <1>6. Faithful(l, drawn) /\ Alike(l, m) /\ IdsIn(l) = IdsIn(m)
    BY <1>4, <1>5, ConvertedList
  <1>7. QED
    BY <1>1, <1>6

LEMMA LatestIsTheRow ==
  ASSUME Inv
  PROVE  /\ Alike(LatestSnapshot, row) /\ Faithful(LatestSnapshot, drawn)
         /\ IdsIn(LatestSnapshot) = IdsIn(row)
  <1>1. CASE cached = NoKey
    <2>1. LatestSnapshot = row
      BY <1>1 DEF LatestSnapshot
    <2>2. Faithful(row, drawn)
      BY DEF Inv, RowInv
    <2>3. QED
      BY <2>1, <2>2 DEF Alike
  <1>2. CASE cached # NoKey
    <2>1. PICK m : Caches(cached, m, row)
      BY <1>2 DEF Inv, CacheInv
    <2>2. PICK l : l = LatestSnapshot
      OBVIOUS
    <2>3. l = Decode(Encode(m, Empty))
      BY <1>2, <2>1, <2>2 DEF LatestSnapshot, Caches
    <2>4. Faithful(l, drawn) /\ Alike(l, m)
      BY <2>1, <2>3, DecodedList DEF Caches, Inv
    <2>5. Alike(l, row)
      BY <2>1, <2>4 DEF Caches, Alike
    <2>6. IdsIn(l) = IdsIn(row)
      BY <2>5 DEF Alike, IdsIn
    <2>7. QED
      BY <2>2, <2>4, <2>5, <2>6
  <1>3. QED
    BY <1>1, <1>2

\* Whatever their order, the pending strokes are those of the hash.
LEMMA PendingsAreTheHash ==
  ASSUME Inv, NEW p \in Pendings
  PROVE  /\ p \in Seq(Strokes) /\ IdsIn(p) = hash
         /\ \A e \in Members(p) : e.id \in DOMAIN drawn /\ e = drawn[e.id]
  <1>1. /\ drawn \in Seq(Strokes) /\ hash \subseteq DOMAIN drawn
        /\ \A i \in DOMAIN drawn : drawn[i].id = i
    BY DEF Inv, DrawnInv, RowInv
  <1>2. Cardinality(hash) \in Nat
    <2>1. IsFiniteSet(1..Len(drawn)) /\ DOMAIN drawn = 1..Len(drawn)
      <3>1. Len(drawn) \in Nat /\ DOMAIN drawn = 1..Len(drawn)
        BY <1>1
      <3>2. QED
        BY <3>1, FS_Interval
    <2>2. QED
      BY <1>1, <2>1, FS_Subset, FS_CardinalityType
  <1>3. PICK ids \in Orders : p = [k \in DOMAIN ids |-> drawn[ids[k]]]
    BY DEF Pendings
  <1>4. PICK n \in Nat : n = Cardinality(hash)
    BY <1>2
  <1>5. ids \in [1..n -> hash] /\ \A id \in hash : \E k \in 1..n : ids[k] = id
    BY <1>3, <1>4 DEF Orders
  <1>6. \A i \in DOMAIN drawn : drawn[i] \in Strokes
    BY <1>1
  <1>7. p = [k \in 1..n |-> drawn[ids[k]]]
    BY <1>3, <1>5
  <1>8. \A k \in 1..n : ids[k] \in DOMAIN drawn /\ p[k] = drawn[ids[k]] /\ p[k].id = ids[k]
    BY <1>1, <1>5, <1>7
  <1>9. p \in Seq(Strokes) /\ DOMAIN p = 1..n
    <2>1. p \in [1..n -> Strokes]
      BY <1>6, <1>7, <1>8
    <2>2. QED
      BY <2>1
  <1>10. IdsIn(p) = hash
    BY <1>5, <1>8, <1>9 DEF IdsIn
  <1>11. QED
    BY <1>8, <1>9, <1>10 DEF Members

\* What a merge makes of the latest snapshot and the hash is every stroke that was drawn.
LEMMA CanvasesAreFaithful ==
  ASSUME Inv, NEW m \in Canvases
  PROVE  /\ Faithful(m, drawn) /\ IdsIn(m) = DOMAIN drawn
         /\ KeepsOrder(row, m)
  <1> DEFINE l == LatestSnapshot
  <1>1. PICK p \in Pendings : m = MergeSnapshotsWithPendingEvents(l, p)
    BY DEF Canvases
  <1>2. Alike(l, row) /\ Faithful(l, drawn) /\ IdsIn(l) = IdsIn(row)
    BY LatestIsTheRow
  <1> HIDE DEF l
  <1>3. /\ p \in Seq(Strokes) /\ IdsIn(p) = hash
        /\ \A e \in Members(p) : e.id \in DOMAIN drawn /\ e = drawn[e.id]
    BY PendingsAreTheHash
  <1>4. l \in Seq(Strokes) /\ OnePerId(l) /\ Ascends(l)
    BY <1>2 DEF Faithful
  <1>5. Merges(m, l, p)
    BY <1>1, <1>3, <1>4, MergeMerges
  <1>6. IdsIn(m) = DOMAIN drawn
    BY <1>2, <1>3, <1>5 DEF Merges, Inv, RowInv
  <1>7. Faithful(m, drawn)
    <2>1. ASSUME NEW e \in Members(m) PROVE e.id \in DOMAIN drawn /\ Intact(drawn[e.id], e)
      <3>1. CASE e \in Members(l)
        BY <1>2, <3>1 DEF Faithful
      <3>2. CASE e \in Members(p)
        <4>1. e.id \in DOMAIN drawn /\ e = drawn[e.id]
          BY <1>3, <3>2
        <4>2. drawn \in Seq(Strokes)
          BY DEF Inv, DrawnInv
        <4>3. e \in Strokes
          BY <4>1, <4>2
        <4>4. Intact(e, e)
          BY <4>3, IntactItself
        <4>5. QED
          BY <4>1, <4>4
      <3>3. QED
        BY <1>5, <3>1, <3>2 DEF Merges
    <2>2. QED
      BY <1>5, <2>1 DEF Merges, Faithful
  <1>8. KeepsOrder(row, m)
    <2>1. KeepsOrder(l, m)
      BY <1>4, <1>5 DEF Merges
    <2>2. QED
      BY <1>2, <2>1 DEF KeepsOrder, Alike
  <1>9. QED
    BY <1>6, <1>7, <1>8

LEMMA InvInit == Init => Inv
  <1> SUFFICES ASSUME Init PROVE Inv
    OBVIOUS
  <1> USE DEF Init
  <1>1. <<>> \in Seq(Strokes) /\ DOMAIN <<>> = {} /\ Len(<<>>) = 0
    OBVIOUS
  <1>2. DrawnInv
    BY <1>1, BoundAssumption DEF DrawnInv
  <1>3. Faithful(<<>>, drawn)
    BY <1>1 DEF Faithful, OnePerId, Ascends, Members
  <1>4. RowInv
    BY <1>1, <1>3 DEF RowInv, IdsIn
  <1>5. CacheInv
    BY DEF CacheInv, Caches
  <1>6. QED
    BY <1>2, <1>4, <1>5 DEF Inv

\* A list stays as it was drawn when another stroke is.
LEMMA StaysFaithful ==
  ASSUME NEW s, NEW d \in Seq(Strokes), NEW e \in Strokes, Faithful(s, d)
  PROVE  Faithful(s, Append(d, e))
  <1>1. PICK c : c = Append(d, e)
    OBVIOUS
  <1>2. \A i \in DOMAIN d : i \in DOMAIN c /\ c[i] = d[i]
    BY <1>1
  <1>3. QED
    BY <1>1, <1>2 DEF Faithful

LEMMA DrawKeepsInv ==
  ASSUME Inv, HandleDraw PROVE Inv'
  <1>1. PICK v \in Events :
          /\ Accepted(v) /\ Len(drawn) < MaxStrokes
          /\ drawn' = Append(drawn, WithId(Len(drawn) + 1, v))
          /\ hash' = hash \union {Len(drawn) + 1}
          /\ UNCHANGED <<cached, row>>
    BY DrawnAssumption DEF HandleDraw
  <1>2. drawn \in Seq(Strokes)
    BY DEF Inv, DrawnInv
  <1>3. PICK n \in Nat : n = Len(drawn)
    BY <1>2
  <1>4. PICK e : e = WithId(n + 1, v)
    OBVIOUS
  <1>5. e \in Strokes
    BY <1>4 DEF WithId, Events, Strokes
  <1>6. e.id = n + 1
    BY <1>4 DEF WithId
  <1>7. Accepted(e)
    <2>1. /\ e.strokeWidth = v.strokeWidth /\ e.timestamp = v.timestamp /\ e.type = v.type
          /\ e.from = v.from /\ e.to = v.to /\ e.center = v.center /\ e.radius = v.radius
          /\ e.fillStyle = v.fillStyle /\ e.points = v.points
      BY <1>4 DEF WithId
    <2>2. QED
      BY <1>1, <2>1 DEF Accepted
  <1>8. drawn' = Append(drawn, e)
    BY <1>1, <1>3, <1>4
  <1>9. /\ drawn' \in Seq(Strokes) /\ Len(drawn') = n + 1 /\ DOMAIN drawn' = 1..(n + 1)
        /\ DOMAIN drawn = 1..n
        /\ \A i \in 1..n : drawn'[i] = drawn[i]
        /\ drawn'[n + 1] = e
    BY <1>2, <1>3, <1>5, <1>8
  <1>10. DrawnInv'
    <2>1. Len(drawn') <= MaxStrokes
      BY <1>1, <1>3, <1>9, BoundAssumption
    <2>2. ASSUME NEW i \in DOMAIN drawn' PROVE drawn'[i].id = i /\ Accepted(drawn'[i])
      <3>1. CASE i = n + 1
        BY <1>6, <1>7, <1>9, <3>1
      <3>2. CASE i \in 1..n
        BY <1>9, <3>2 DEF Inv, DrawnInv
      <3>3. QED
        BY <1>9, <3>1, <3>2
    <2>3. QED
      BY <1>9, <2>1, <2>2 DEF DrawnInv
  <1>11. RowInv'
    <2>1. Faithful(row, drawn')
      BY <1>2, <1>5, <1>8, StaysFaithful DEF Inv, RowInv
    <2>2. hash' \subseteq DOMAIN drawn' /\ IdsIn(row) \union hash' = DOMAIN drawn'
      <3>1. hash \subseteq 1..n /\ IdsIn(row) \union hash = 1..n
        BY <1>9 DEF Inv, RowInv
      <3>2. hash' = hash \union {n + 1}
        BY <1>1, <1>3
      <3>3. 1..(n + 1) = 1..n \union {n + 1}
        OBVIOUS
      <3>4. QED
        BY <1>9, <3>1, <3>2, <3>3
    <2>3. row' = row
      BY <1>1
    <2>4. QED
      BY <2>1, <2>2, <2>3 DEF RowInv
  <1>12. CacheInv'
    <2>1. ASSUME NEW m, Caches(cached, m, row)
          PROVE  /\ m \in Seq(Strokes) /\ m # <<>> /\ Faithful(m, drawn') /\ Alike(m, row')
                 /\ cached' = Encode(m, Empty)
      BY <1>1, <1>2, <1>5, <1>8, <2>1, StaysFaithful DEF Caches
    <2>2. cached' = cached
      BY <1>1
    <2>3. QED
      BY <2>1, <2>2 DEF Inv, CacheInv, Caches
  <1>13. QED
    BY <1>10, <1>11, <1>12 DEF Inv

LEMMA FillCacheCaches ==
  ASSUME Inv PROVE FillCache = NoKey \/ Caches(FillCache, row, row)
  <1>1. row \in Seq(Strokes) /\ Faithful(row, drawn)
    BY DEF Inv, RowInv, Faithful
  <1>2. Alike(row, row)
    BY DEF Alike
  <1>3. QED
    BY <1>1, <1>2 DEF Caches, FillCache

\* A flush whose encoding does not fail makes the canvas the newest row.
LEMMA FlushSaves ==
  ASSUME Inv, NEW byServer \in BOOLEAN, Flush(byServer)
  PROVE  /\ drawn' = drawn
         /\ \/ /\ \E m \in Canvases : row' = Payload(m) /\ cached' = Encode(m, Empty)
               /\ hash' \in {{}, hash} /\ hash # {}
            \/ /\ row' = row /\ hash' = hash /\ cached' \in {cached, FillCache}
  BY DEF Flush

\* The cache is filled from the row, or left.
LEMMA CacheFilled ==
  ASSUME Inv, UNCHANGED <<drawn, hash, row>>, cached' \in {cached, FillCache, NoKey}
  PROVE  Inv'
  <1>1. DrawnInv' /\ RowInv'
    BY DEF Inv, DrawnInv, RowInv
  <1>2. cached' = NoKey \/ \E m : Caches(cached', m, row)
    BY FillCacheCaches DEF Inv, CacheInv
  <1>3. CacheInv'
    BY <1>2 DEF CacheInv, Caches
  <1>4. QED
    BY <1>1, <1>3 DEF Inv

LEMMA FlushKeepsInv ==
  ASSUME Inv, NEW byServer \in BOOLEAN, Flush(byServer)
  PROVE  Inv'
  <1>1. drawn' = drawn
    BY FlushSaves
  <1>2. DrawnInv /\ DrawnInv'
    BY <1>1 DEF Inv, DrawnInv
  <1>3. CASE row' = row /\ hash' = hash /\ cached' \in {cached, FillCache}
    BY <1>1, <1>3, CacheFilled
  <1>4. CASE /\ \E m \in Canvases : row' = Payload(m) /\ cached' = Encode(m, Empty)
             /\ hash' \in {{}, hash} /\ hash # {}
    <2>1. PICK m \in Canvases : row' = Payload(m) /\ cached' = Encode(m, Empty)
      BY <1>4
    <2>2. Faithful(m, drawn) /\ IdsIn(m) = DOMAIN drawn
      BY CanvasesAreFaithful
    <2>3. m \in Seq(Strokes)
      BY <2>2 DEF Faithful
    <2>4. Faithful(row', drawn) /\ Alike(row', m) /\ IdsIn(row') = IdsIn(m)
      BY <1>2, <2>1, <2>2, <2>3, PayloadList
    <2>5. hash' \subseteq DOMAIN drawn
      BY <1>4 DEF Inv, RowInv
    <2>6. RowInv'
      BY <1>1, <2>2, <2>4, <2>5 DEF RowInv
    <2>7. m # <<>>
      <3>1. IdsIn(m) # {}
        BY <1>4, <2>2 DEF Inv, RowInv
      <3>2. QED
        BY <3>1 DEF IdsIn
    <2>8. Alike(m, row')
      BY <2>4 DEF Alike
    <2>9. Caches(cached, m, row)'
      BY <1>1, <2>1, <2>2, <2>3, <2>7, <2>8 DEF Caches
    <2>10. CacheInv'
      BY <2>9 DEF CacheInv
    <2>11. QED
      BY <1>2, <2>6, <2>10 DEF Inv
  <1>5. QED
    BY <1>3, <1>4, FlushSaves

LEMMA InvNext == Inv /\ [Next]_vars => Inv'
  <1> SUFFICES ASSUME Inv, [Next]_vars PROVE Inv'
    OBVIOUS
  <1>1. CASE HandleDraw
    BY <1>1, DrawKeepsInv
  <1>2. CASE \E byServer \in BOOLEAN : Flush(byServer)
    BY <1>2, FlushKeepsInv
  <1>3. CASE Join \/ ExpireSnapshot \/ UNCHANGED vars
    BY <1>3, CacheFilled DEF Join, ExpireSnapshot, vars
  <1>4. QED
    BY <1>1, <1>2, <1>3 DEF Next

LEMMA InvHolds == Spec => []Inv
  BY InvInit, InvNext, PTL DEF Spec

-----------------------------------------------------------------------------
(* Results.                                                                *)

\* Values keep their types: the hash names strokes that were drawn, the cache has known
\* fields, and the newest row is in order of timestamps.
THEOREM SnapshotsTypeCorrect == Spec => []TypeOK
  <1>1. Inv => TypeOK
    <2> SUFFICES ASSUME Inv PROVE TypeOK
      OBVIOUS
    <2>1. DOMAIN cached \subseteq {1, 2}
      <3>1. CASE cached = NoKey
        BY <3>1 DEF NoKey
      <3>2. ASSUME NEW m, Caches(cached, m, row) PROVE DOMAIN cached \subseteq {1, 2}
        BY <3>2, DecodeOfEncode DEF Caches
      <3>3. QED
        BY <3>1, <3>2 DEF Inv, CacheInv
    <2>2. \A i, j \in DOMAIN row : i < j => row[i].timestamp <= row[j].timestamp
      BY DEF Inv, RowInv, Faithful, Ascends
    <2>3. QED
      BY <2>1, <2>2 DEF Inv, DrawnInv, RowInv, TypeOK
  <1>2. QED
    BY <1>1, InvHolds, PTL

\* Lists with the same ids, once each, have the same length.
LEMMA SameIdsSameLength ==
  ASSUME NEW m \in Seq(Strokes), OnePerId(m), NEW n \in Nat, IdsIn(m) = 1..n
  PROVE  Len(m) = n
  <1> DEFINE f == [k \in 1..Len(m) |-> m[k].id]
  <1>1. Len(m) \in Nat /\ DOMAIN m = 1..Len(m)
    OBVIOUS
  <1>2. f \in [1..Len(m) -> 1..n]
    BY <1>1 DEF IdsIn
  <1>3. \A k, l \in 1..Len(m) : f[k] = f[l] => k = l
    BY <1>1 DEF OnePerId
  <1>4. \A id \in 1..n : \E k \in 1..Len(m) : f[k] = id
    BY <1>1 DEF IdsIn
  <1> HIDE DEF f
  <1>5. f \in Bijection(1..Len(m), 1..n)
    BY <1>2, <1>3, <1>4 DEF Bijection, Injection, Surjection, IsInjective
  <1>6. ExistsBijection(1..Len(m), 1..n)
    BY <1>5 DEF ExistsBijection
  <1>7. /\ IsFiniteSet(1..Len(m)) /\ Cardinality(1..Len(m)) = Len(m)
        /\ Cardinality(1..n) = n
    <2>1. \A k \in Nat : IsFiniteSet(1..k) /\ Cardinality(1..k) = k
      BY FS_Interval
    <2>2. QED
      BY <1>1, <2>1
  <1>8. QED
    BY <1>6, <1>7, FS_Bijection

\* CANVAS_STATE has every accepted stroke once and as it was drawn, whatever the order of the
\* hash and whichever of cache and row was read, for any strokes the DTOs let in.
THEOREM StrokesKeepTheirData == Spec => []StrokesStayIntact
  <1>1. Inv => StrokesStayIntact
    <2> SUFFICES ASSUME Inv, NEW m \in Canvases
                 PROVE  /\ Len(m) = Len(drawn)
                        /\ \A i \in DOMAIN drawn : \E k \in DOMAIN m : Intact(drawn[i], m[k])
      BY DEF StrokesStayIntact
    <2>1. /\ m \in Seq(Strokes) /\ OnePerId(m) /\ IdsIn(m) = DOMAIN drawn
          /\ \A e \in Members(m) : e.id \in DOMAIN drawn /\ Intact(drawn[e.id], e)
      BY CanvasesAreFaithful DEF Faithful
    <2>2. Len(drawn) \in Nat /\ DOMAIN drawn = 1..Len(drawn)
      BY DEF Inv, DrawnInv
    <2>3. Len(m) = Len(drawn)
      BY <2>1, <2>2, SameIdsSameLength
    <2>4. \A k \in DOMAIN m : Intact(drawn[m[k].id], m[k])
      BY <2>1 DEF Members
    <2>5. \A i \in DOMAIN drawn : \E k \in DOMAIN m : m[k].id = i
      BY <2>1 DEF IdsIn
    <2>6. QED
      BY <2>3, <2>4, <2>5
  <1>2. QED
    BY <1>1, InvHolds, PTL

\* What was painted on top in a checkpoint stays on top in every later one.
THEOREM CheckpointsKeepTheirOrder == Spec => CheckpointOrderIsKept
  <1> DEFINE A == \A i, j \in DOMAIN row : i <= j =>
                    \E k, l \in DOMAIN row' : /\ k <= l
                                              /\ row'[k].id = row[i].id /\ row'[l].id = row[j].id
  <1>1. Inv /\ [Next]_vars => [A]_vars
    <2> SUFFICES ASSUME Inv, [Next]_vars PROVE A \/ UNCHANGED vars
      OBVIOUS
    <2>1. CASE row' = row
      BY <2>1
    <2>2. ASSUME NEW byServer \in BOOLEAN, Flush(byServer) PROVE A
      <3>1. row' = row \/ \E m \in Canvases : row' = Payload(m)
        BY <2>2, FlushSaves
      <3>2. ASSUME NEW m \in Canvases, row' = Payload(m) PROVE A
        <4>1. KeepsOrder(row, m) /\ Faithful(m, drawn)
          BY CanvasesAreFaithful
        <4>2. Alike(row', m)
          BY <3>2, <4>1, PayloadList DEF Inv, Faithful
        <4>3. KeepsOrder(row, row')
          BY <4>1, <4>2 DEF KeepsOrder, Alike
        <4>4. QED
          BY <4>3 DEF KeepsOrder
      <3>3. QED
        BY <2>1, <3>1, <3>2
    <2>3. QED
      BY <2>1, <2>2 DEF Next, HandleDraw, Join, ExpireSnapshot, vars
  <1>2. QED
    BY <1>1, InvHolds, PTL DEF Spec, CheckpointOrderIsKept

\* A stroke leaves the hash only for a snapshot that cache and row hold alike.
THEOREM FlushesDeleteWhatTheySaved == Spec => FlushedIsCheckpointed
  <1> DEFINE A == ~(hash \subseteq hash') =>
                    \A latest \in {LatestSnapshot'} :
                      hash \ hash' \subseteq IdsIn(latest) /\ Order(latest) = Order(row')
  <1>1. Inv /\ [Next]_vars => [A]_vars
    <2> SUFFICES ASSUME Inv, [Next]_vars, ~(hash \subseteq hash')
                 PROVE  /\ hash \ hash' \subseteq IdsIn(LatestSnapshot')
                        /\ Order(LatestSnapshot') = Order(row')
      OBVIOUS
    <2>1. PICK byServer \in BOOLEAN : Flush(byServer)
      BY DEF Next, HandleDraw, Join, ExpireSnapshot, vars
    <2>2. PICK m \in Canvases : row' = Payload(m) /\ cached' = Encode(m, Empty)
      BY <2>1, FlushSaves
    <2>3. Faithful(m, drawn) /\ IdsIn(m) = DOMAIN drawn
      BY CanvasesAreFaithful
    <2>4. m \in Seq(Strokes) /\ DrawnInv
      BY <2>3 DEF Faithful, Inv
    <2>5. Alike(row', m)
      BY <2>2, <2>3, <2>4, PayloadList
    <2>6. drawn' = drawn /\ Inv'
      BY <2>1, FlushSaves, InvNext
    <2>7. PICK l : l = LatestSnapshot'
      OBVIOUS
    <2>8. Alike(l, row')
      <3>1. CASE cached' = NoKey
        BY <2>7, <3>1 DEF LatestSnapshot, Alike
      <3>2. CASE cached' # NoKey
        <4>1. l = Decode(Encode(m, Empty))
          BY <2>2, <2>7, <3>2 DEF LatestSnapshot
        <4>2. Alike(l, m)
          BY <2>3, <2>4, <4>1, DecodedList
        <4>3. QED
          BY <2>5, <4>2 DEF Alike
      <3>3. QED
        BY <3>1, <3>2
    <2>9. IdsIn(l) = DOMAIN drawn
      <3>1. DOMAIN l = DOMAIN m /\ \A i \in DOMAIN m : l[i].id = m[i].id
        BY <2>5, <2>8 DEF Alike
      <3>2. IdsIn(l) = IdsIn(m)
        BY <3>1 DEF IdsIn
      <3>3. QED
        BY <2>3, <3>2
    <2>10. Order(l) = Order(row')
      BY <2>8 DEF Alike, Order
    <2>11. hash \subseteq DOMAIN drawn
      BY DEF Inv, RowInv
    <2>12. QED
      BY <2>7, <2>9, <2>10, <2>11
  <1>2. QED
    BY <1>1, InvHolds, PTL DEF Spec, FlushedIsCheckpointed
=============================================================================
