---------------------------- MODULE ListingsProofs ----------------------------
(***************************************************************************)
(* The lists of the website, for any rows, scopes and size of a page, and  *)
(* with any failures: a page has Limit rows at most, later pages have      *)
(* older rows, a walk that was not cut misses nothing, and what the user   *)
(* removed goes. QueryInv and FetchInv say of the walk that is shown and   *)
(* of the one that runs where the rows are that it has not listed yet;     *)
(* RemovalInv says what a fetch can still know of removed rows.            *)
(***************************************************************************)
EXTENDS Listings, FiniteSetTheorems, WellFoundedInduction, TLAPS

-----------------------------------------------------------------------------
(* Finite sets of rows.                                                    *)

\* A finite set that is not empty has a least and a greatest member.
LEMMA Extremes ==
  ASSUME NEW S \in SUBSET Nat, IsFiniteSet(S), S # {}
  PROVE  /\ \E r \in S : \A s \in S : r <= s
         /\ \E r \in S : \A s \in S : s <= r
  <1> DEFINE Below(r) == {s \in S : s < r}
             Beyond(r) == {s \in S : s > r}
  <1>1. ASSUME NEW T \in SUBSET SUBSET S, T # {}
        PROVE  \E x \in T : \A y \in T : y \subseteq x => y = x
    <2>1. IsWellFoundedOn(StrictSubsetOrdering(S), SUBSET S)
      BY FS_StrictSubsetOrderingWellFounded, FS_FiniteSubsetsOfFinite
    <2>2. PICK x \in T : \A y \in T : <<y, x>> \notin StrictSubsetOrdering(S)
      BY <1>1, <2>1, WFMin
    <2>3. QED
      BY <2>2, <1>1 DEF StrictSubsetOrdering
  <1>2. \E r \in S : \A s \in S : r <= s
    <2>1. PICK x \in {Below(r) : r \in S} : \A y \in {Below(r) : r \in S} : y \subseteq x => y = x
      <3> DEFINE T == {Below(r) : r \in S}
      <3>1. T \in SUBSET SUBSET S /\ T # {}
        OBVIOUS
      <3> HIDE DEF T
      <3>2. \E x \in T : \A y \in T : y \subseteq x => y = x
        BY <1>1, <3>1
      <3>3. QED
        BY <3>2 DEF T
    <2>2. PICK r \in S : x = Below(r)
      BY <2>1
    <2>3. ASSUME NEW s \in S, s < r PROVE FALSE
      <3>1. s \in Nat /\ r \in Nat /\ \A t \in S : t \in Nat
        OBVIOUS
      <3>2. \A t \in S : t < s => t < r
        BY <2>3, <3>1
      <3>3. ~(s < s)
        BY <3>1
      <3>4. Below(s) \subseteq Below(r) /\ s \in Below(r) /\ s \notin Below(s)
        BY <2>3, <3>2, <3>3
      <3>5. QED
        BY <2>1, <2>2, <3>4
    <2>4. QED
      BY <2>3
  <1>3. \E r \in S : \A s \in S : s <= r
    <2>1. PICK x \in {Beyond(r) : r \in S} : \A y \in {Beyond(r) : r \in S} : y \subseteq x => y = x
      <3> DEFINE T == {Beyond(r) : r \in S}
      <3>1. T \in SUBSET SUBSET S /\ T # {}
        OBVIOUS
      <3> HIDE DEF T
      <3>2. \E x \in T : \A y \in T : y \subseteq x => y = x
        BY <1>1, <3>1
      <3>3. QED
        BY <3>2 DEF T
    <2>2. PICK r \in S : x = Beyond(r)
      BY <2>1
    <2>3. ASSUME NEW s \in S, s > r PROVE FALSE
      <3>1. s \in Nat /\ r \in Nat /\ \A t \in S : t \in Nat
        OBVIOUS
      <3>2. \A t \in S : t > s => t > r
        BY <2>3, <3>1
      <3>3. ~(s > s)
        BY <3>1
      <3>4. Beyond(s) \subseteq Beyond(r) /\ s \in Beyond(r) /\ s \notin Beyond(s)
        BY <2>3, <3>2, <3>3
      <3>5. QED
        BY <2>1, <2>2, <3>4
    <2>4. QED
      BY <2>3
  <1>4. QED
    BY <1>2, <1>3

Above(r, rows) == {s \in rows : s > r}

\* The rows above a row are finitely many, and fewer than those above an older one.
LEMMA AboveShrinks ==
  ASSUME NEW S \in SUBSET Nat, IsFiniteSet(S), NEW r \in S
  PROVE  /\ Cardinality(Above(r, S)) \in Nat
         /\ IsFiniteSet(Above(r, S))
         /\ \A s \in S : s > r => Cardinality(Above(s, S)) < Cardinality(Above(r, S))
  <1>1. ASSUME NEW s \in S
        PROVE IsFiniteSet(Above(s, S)) /\ Cardinality(Above(s, S)) \in Nat
    <2>1. Above(s, S) \in SUBSET S
      BY DEF Above
    <2>2. QED
      BY <2>1, FS_Subset, FS_CardinalityType
  <1>2. ASSUME NEW s \in S, s > r
        PROVE  Cardinality(Above(s, S)) < Cardinality(Above(r, S))
    <2>1. /\ Above(s, S) \in SUBSET Above(r, S)
          /\ s \in Above(r, S) /\ s \notin Above(s, S)
      <3>1. s \in Nat /\ r \in Nat /\ \A t \in S : t \in Nat
        OBVIOUS
      <3>2. (\A t \in S : t > s => t > r) /\ ~(s > s)
        BY <1>2, <3>1
      <3>3. QED
        BY <1>2, <3>2 DEF Above
    <2>2. /\ Cardinality(Above(s, S)) <= Cardinality(Above(r, S))
          /\ Cardinality(Above(s, S)) # Cardinality(Above(r, S))
      BY <1>1, <2>1, FS_Subset
    <2>3. QED
      BY <1>1, <2>2
  <1>3. QED
    BY <1>1, <1>2

\* Newest takes the n newest rows: at most n, none that is older than one it leaves, and
\* all of them when they are fewer.
LEMMA NewestRows ==
  ASSUME NEW S \in SUBSET Nat, IsFiniteSet(S), NEW n \in Nat
  PROVE  /\ Newest(n, S) \subseteq S /\ IsFiniteSet(Newest(n, S))
         /\ Cardinality(Newest(n, S)) \in Nat
         /\ Cardinality(Newest(n, S)) <= n
         /\ \A r \in Newest(n, S), s \in S : s > r => s \in Newest(n, S)
         /\ Cardinality(Newest(n, S)) < n => Newest(n, S) = S
  <1> DEFINE N == Newest(n, S)
  <1>1. N \in SUBSET S /\ \A r \in S : r \in N <=> Cardinality(Above(r, S)) < n
    BY DEF Newest, Above
  <1>2. ASSUME NEW r \in N, NEW s \in S, s > r PROVE s \in N
    <2>1. r \in S /\ Cardinality(Above(r, S)) < n
      BY <1>1
    <2>2. Cardinality(Above(s, S)) < Cardinality(Above(r, S))
      BY <1>2, <2>1, AboveShrinks
    <2>3. Cardinality(Above(s, S)) \in Nat /\ Cardinality(Above(r, S)) \in Nat
      BY <2>1, AboveShrinks
    <2>4. Cardinality(Above(s, S)) < n
      BY <2>1, <2>2, <2>3
    <2>5. QED
      BY <1>1, <2>4
  <1>3. IsFiniteSet(N) /\ Cardinality(N) \in Nat
    BY <1>1, FS_Subset, FS_CardinalityType
  <1> HIDE DEF N
  <1>4. Cardinality(N) <= n
    <2>1. CASE N = {}
      BY <2>1, FS_EmptySet
    <2>2. CASE N # {}
      <3>1. PICK m \in N : \A s \in N : m <= s
        BY <1>1, <1>3, <2>2, Extremes
      <3>2. m \in S /\ Cardinality(Above(m, S)) < n /\ Cardinality(Above(m, S)) \in Nat
            /\ IsFiniteSet(Above(m, S))
        BY <1>1, AboveShrinks
      <3>3. N \ {m} \in SUBSET Above(m, S)
        BY <1>1, <3>1 DEF Above
      <3>4. Cardinality(N \ {m}) <= Cardinality(Above(m, S)) /\ IsFiniteSet(N \ {m})
        BY <3>2, <3>3, FS_Subset
      <3>5. Cardinality(N \ {m}) = Cardinality(N) - 1
        BY <1>3, FS_RemoveElement
      <3>6. QED
        BY <1>3, <3>2, <3>4, <3>5
    <2>3. QED
      BY <2>1, <2>2
  <1>5. ASSUME Cardinality(N) < n, N # S PROVE FALSE
    <2>1. S \ N # {} /\ S \ N \in SUBSET Nat /\ IsFiniteSet(S \ N)
      <3>1. S \ N # {} /\ S \ N \in SUBSET S
        BY <1>1, <1>5
      <3>2. QED
        BY <3>1, FS_Subset
    <2>2. PICK m \in S \ N : \A s \in S \ N : s <= m
      BY <2>1, Extremes
    <2>3. Cardinality(Above(m, S)) \in Nat /\ ~(Cardinality(Above(m, S)) < n)
      BY <1>1, AboveShrinks
    <2>4. Above(m, S) \in SUBSET N
      <3>1. m \in Nat /\ \A s \in S : s \in Nat
        OBVIOUS
      <3>2. \A s \in S : s > m => ~(s <= m)
        BY <3>1
      <3>3. QED
        BY <2>2, <3>2 DEF Above
    <2>5. Cardinality(Above(m, S)) <= Cardinality(N)
      BY <1>3, <2>4, FS_Subset
    <2>6. QED
      BY <1>3, <1>5, <2>3, <2>5
  <1>6. QED
    BY <1>1, <1>2, <1>3, <1>4, <1>5 DEF N

-----------------------------------------------------------------------------
(* A page of the server, and a page more on the list.                      *)

USE RowsAssumption, LimitAssumption, ScopeAssumption, NoneAssumption

\* The rows a request asks for: the cursor and what is older, when it still matches.
Asked(scope, cursor) ==
  {r \in Matches(scope) : cursor # None => cursor \in Matches(scope) /\ r <= cursor}

\* A page has the newest of these rows, Limit at most, and its cursor is the newest of
\* those it leaves.
LEMMA PageRows ==
  ASSUME NEW scope, NEW cursor, NEW page, page = GetPage(scope, cursor)
  PROVE  /\ page \in Pages
         /\ page.data \subseteq Asked(scope, cursor)
         /\ Cardinality(page.data) <= Limit
         /\ page.cursor # None => /\ page.cursor \in Asked(scope, cursor)
                                  /\ \A r \in page.data : r > page.cursor
         /\ \A r \in Asked(scope, cursor) :
              r \in page.data \/ (page.cursor # None /\ r <= page.cursor)
  <1> DEFINE W == Asked(scope, cursor)
             F == Newest(Limit + 1, W)
             D == Newest(Limit, F)
  <1>1. W \in SUBSET Rows /\ W \in SUBSET Nat /\ IsFiniteSet(W)
    <2>1. W \in SUBSET Rows
      BY DEF Asked, Matches
    <2>2. QED
      BY <2>1, FS_Subset
  <1>2. /\ page.data = D
        /\ page.cursor = IF Cardinality(F) > Limit THEN Oldest(F) ELSE None
        /\ page = [data |-> D, cursor |-> page.cursor]
    BY DEF GetPage, FindMany, Asked
  <1> HIDE DEF W
  <1>3. /\ F \in SUBSET W /\ IsFiniteSet(F) /\ Cardinality(F) \in Nat
        /\ Cardinality(F) <= Limit + 1
        /\ \A r \in F, s \in W : s > r => s \in F
        /\ Cardinality(F) < Limit + 1 => F = W
    <2>1. Limit + 1 \in Nat
      OBVIOUS
    <2>2. QED
      BY <1>1, <2>1, NewestRows
  <1>4. \A r : r \in D <=> r \in F /\ Cardinality(Above(r, F)) < Limit
    BY DEF Newest, Above
  <1> HIDE DEF F
  <1>5. D \in SUBSET F /\ Cardinality(D) <= Limit
    BY <1>1, <1>3, NewestRows
  <1> HIDE DEF D
  <1>6. \A r \in F : /\ r \in Nat /\ Cardinality(Above(r, F)) \in Nat
                     /\ Above(r, F) \in SUBSET F /\ r \notin Above(r, F)
    <2>1. F \in SUBSET Nat
      BY <1>1, <1>3
    <2>2. ASSUME NEW r \in F
          PROVE  r \in Nat /\ Above(r, F) \in SUBSET F /\ r \notin Above(r, F)
      BY <2>1 DEF Above
    <2>3. \A r \in F : Cardinality(Above(r, F)) \in Nat
      BY <1>3, <2>1, AboveShrinks
    <2>4. QED
      BY <2>2, <2>3
  <1>7. CASE Cardinality(F) <= Limit
    <2>1. F = W /\ page.cursor = None
      BY <1>2, <1>3, <1>7
    <2>2. ASSUME NEW r \in F PROVE r \in D
      <3>1. Cardinality(Above(r, F)) <= Cardinality(F) /\ Cardinality(Above(r, F)) # Cardinality(F)
        BY <1>3, <1>6, FS_Subset
      <3>2. QED
        BY <1>3, <1>4, <1>6, <1>7, <3>1
    <2>3. QED
      BY <1>1, <1>2, <1>5, <2>1, <2>2 DEF W, Pages
  <1>8. CASE Cardinality(F) = Limit + 1
    <2>1. F # {}
      BY <1>8, FS_EmptySet
    <2>2. F \in SUBSET Nat
      BY <1>1, <1>3
    <2>3. \E o \in F : \A s \in F : o <= s
      BY <1>3, <2>1, <2>2, Extremes
    <2>4. PICK o : o = page.cursor
      OBVIOUS
    <2>5. o \in F /\ \A s \in F : o <= s
      BY <1>2, <1>8, <2>3, <2>4 DEF Oldest
    <2>6. Cardinality(Above(o, F)) = Limit
      <3>1. Above(o, F) = F \ {o}
        <4>1. o \in Nat /\ \A s \in F : s \in Nat
          BY <2>2, <2>5
        <4>2. \A s \in F : s > o <=> s # o
          BY <2>5, <4>1
        <4>3. QED
          BY <4>2 DEF Above
      <3>2. Cardinality(F \ {o}) = Cardinality(F) - 1
        BY <1>3, <2>5, FS_RemoveElement
      <3>3. QED
        BY <1>8, <3>1, <3>2
    <2>7. o \notin D
      BY <1>4, <2>6
    <2>8. ASSUME NEW r \in F, r > o PROVE r \in D
      <3>1. Cardinality(Above(r, F)) < Cardinality(Above(o, F))
        BY <1>3, <2>2, <2>5, <2>8, AboveShrinks
      <3>2. QED
        BY <1>4, <2>6, <3>1
    <2>9. \A r \in D : r > o
      <3>1. \A r \in D : r \in F /\ r # o /\ r \in Nat
        BY <1>5, <2>2, <2>7
      <3>2. o \in Nat
        BY <2>2, <2>5
      <3>3. QED
        BY <2>5, <3>1, <3>2
    <2>10. ASSUME NEW r \in W PROVE r \in D \/ r <= o
      <3>1. r \in Nat /\ o \in Nat
        BY <1>1, <2>2, <2>5
      <3>2. r > o => r \in F
        BY <1>3, <2>5
      <3>3. QED
        BY <2>8, <3>1, <3>2
    <2>11. o \in Rows /\ o \in W /\ o # None
      BY <1>1, <1>3, <2>5
    <2>12. QED
      BY <1>1, <1>2, <1>3, <1>5, <2>4, <2>9, <2>10, <2>11 DEF W, Pages
  <1>9. QED
    BY <1>3, <1>7, <1>8

\* A list with a page more.
Grows(pages, page, more) ==
  /\ more \in Seq(Pages) /\ more # <<>> /\ Len(more) = Len(pages) + 1
  /\ DOMAIN pages = 1..Len(pages) /\ DOMAIN more = 1..(Len(pages) + 1)
  /\ \A i \in DOMAIN pages : more[i] = pages[i]
  /\ more[Len(pages) + 1] = page
  /\ Flat(more) = Flat(pages) \union page.data
  /\ NextCursor(more) = page.cursor

LEMMA PageMore ==
  ASSUME NEW pages \in Seq(Pages), NEW page \in Pages
  PROVE  Grows(pages, page, Append(pages, page))
  <1>0. PICK more : more = Append(pages, page)
    OBVIOUS
  <1>1. /\ more \in Seq(Pages) /\ more # <<>> /\ Len(more) = Len(pages) + 1
        /\ DOMAIN pages = 1..Len(pages) /\ DOMAIN more = 1..(Len(pages) + 1)
        /\ \A i \in DOMAIN pages : more[i] = pages[i]
        /\ more[Len(pages) + 1] = page
    BY <1>0
  <1>2. Flat(more) = Flat(pages) \union page.data
    BY <1>1 DEF Flat
  <1>3. QED
    BY <1>0, <1>1, <1>2 DEF Grows, NextCursor

-----------------------------------------------------------------------------
(* The inductive invariant.                                                *)

\* A page has Limit rows at most; later pages have older rows, and what the cursor names
\* and everything after it is older still.
Slim(pages) == \A i \in DOMAIN pages : Cardinality(pages[i].data) <= Limit
Descending(pages) ==
  /\ \A i, j \in DOMAIN pages :
       i < j => \A r \in pages[i].data, s \in pages[j].data : r > s
  /\ pages # <<>> /\ NextCursor(pages) # None => \A r \in Flat(pages) : r > NextCursor(pages)

\* The rows that were there when the first page was asked for have been listed if they
\* still match, or are to come: they are not newer than the cursor.
Complete(walk) ==
  /\ \A r \in walk.steady : status[r] \notin {"none", "open"}
  /\ walk.pages # <<>> /\ ~walk.cut =>
       \A r \in walk.steady \intersect Matches(walk.scope) :
         \/ r \in Flat(walk.pages)
         \/ NextCursor(walk.pages) # None /\ r <= NextCursor(walk.pages)

Walk(walk) == Slim(walk.pages) /\ Descending(walk.pages) /\ Complete(walk)

QueryInv == query # None => Walk(query)
FetchInv == fetch # None => Walk(fetch)

\* What the page knows to be removed is gone for good. The fetch that runs either began
\* after that, or has no such row but excused ones.
RemovalInv ==
  /\ \A r \in settled : status[r] = "gone"
  /\ mutation # None /\ mutation.kind = "remove" /\ mutation.reply = "ok"
       => status[mutation.row] = "gone"
  /\ fetch # None => /\ fetch.knows \subseteq settled
                     /\ settled \intersect Flat(fetch.pages) \subseteq excused
  /\ OwnRemovalShows

IInv == TypeOK /\ QueryInv /\ FetchInv /\ RemovalInv

\* What a step may do to rows: one that was there does not come back, and one that is
\* gone stays gone.
StatusMoves ==
  /\ UNCHANGED list
  /\ \A r \in Rows : \/ status'[r] = status[r]
                     \/ status[r] \in {"none", "open"}
                     \/ status[r] \in {"pending", "expired"} /\ status'[r] = "gone"
                     \/ status[r] = "pending" /\ status'[r] = "expired"

LEMMA Moves == ASSUME TypeOK, [Next]_vars PROVE StatusMoves
  <1> USE DEF TypeOK, StatusMoves
  <1>1. ASSUME NEW r \in Rows, Begin(r) PROVE StatusMoves BY <1>1 DEF Begin
  <1>2. ASSUME NEW r \in Rows, End(r) PROVE StatusMoves BY <1>2 DEF End
  <1>3. ASSUME NEW r \in Rows, Vanish(r) PROVE StatusMoves BY <1>3 DEF Vanish
  <1>4. ASSUME NEW r \in Rows, Expire(r) PROVE StatusMoves BY <1>4 DEF Expire
  <1>5. ASSUME NEW r \in Rows, Send(r) PROVE StatusMoves BY <1>5 DEF Send
  <1>6. ASSUME Serve PROVE StatusMoves
    <2>1. mutation.row \in Rows BY <1>6 DEF Serve, Mutations
    <2>2. CASE mutation.kind = "remove"
      BY <1>6, <2>1, <2>2 DEF Serve
    <2>3. CASE mutation.kind # "remove"
      BY <1>6, <2>1, <2>3 DEF Serve
    <2>4. QED
      BY <2>2, <2>3
  <1>7. ASSUME UNCHANGED <<list, status>> PROVE StatusMoves
    BY <1>7
  <1>8. QED
    BY <1>1, <1>2, <1>3, <1>4, <1>5, <1>6, <1>7
       DEF Next, vars, Dismiss, Open, Leave, Collect, LoadMore, Refetch, FetchPage, FetchEnds,
           FetchFails, Invalidate, Complain

\* A step that leaves a list alone leaves it complete, whatever happens to the rows.
LEMMA QueryKept ==
  ASSUME TypeOK, QueryInv, StatusMoves, UNCHANGED query
  PROVE  QueryInv'
  <1> SUFFICES ASSUME query # None PROVE Walk(query)'
    BY DEF QueryInv
  <1>1. PICK q : q = query
    OBVIOUS
  <1>2. q' = q /\ query' = q
    BY <1>1
  <1>3. q \in Queries /\ Walk(q)
    BY <1>1 DEF TypeOK, QueryInv
  <1>4. \A r \in q.steady : r \in Rows
    BY <1>3 DEF Queries
  <1>5. \A r \in q.steady : status'[r] \notin {"none", "open"}
    BY <1>3, <1>4 DEF Walk, Complete, StatusMoves
  <1>6. \A r \in q.steady : r \in Matches(q.scope)' => r \in Matches(q.scope)
    BY <1>3, <1>4 DEF Walk, Complete, StatusMoves, Matches
  <1>7. QED
    BY <1>1, <1>2, <1>3, <1>5, <1>6 DEF Walk, Slim, Descending, Complete, Flat, NextCursor

LEMMA FetchKept ==
  ASSUME TypeOK, FetchInv, StatusMoves, UNCHANGED fetch
  PROVE  FetchInv'
  <1> SUFFICES ASSUME fetch # None PROVE Walk(fetch)'
    BY DEF FetchInv
  <1>1. PICK q : q = fetch
    OBVIOUS
  <1>2. q' = q /\ fetch' = q
    BY <1>1
  <1>3. q \in Fetches /\ Walk(q)
    BY <1>1 DEF TypeOK, FetchInv
  <1>4. \A r \in q.steady : r \in Rows
    BY <1>3 DEF Fetches
  <1>5. \A r \in q.steady : status'[r] \notin {"none", "open"}
    BY <1>3, <1>4 DEF Walk, Complete, StatusMoves
  <1>6. \A r \in q.steady : r \in Matches(q.scope)' => r \in Matches(q.scope)
    BY <1>3, <1>4 DEF Walk, Complete, StatusMoves, Matches
  <1>7. QED
    BY <1>1, <1>2, <1>3, <1>5, <1>6 DEF Walk, Slim, Descending, Complete, Flat, NextCursor

\* A fetch that begins has no page yet, and the rows that match are there.
LEMMA FetchBegins ==
  ASSUME TypeOK, UNCHANGED <<list, status>>,
         NEW scope \in Scopes, NEW knows \in SUBSET Rows, fetch' = FetchAll(scope, knows)
  PROVE  /\ fetch' \in Fetches /\ fetch' # None
         /\ fetch'.pages = <<>> /\ Len(fetch'.pages) <= fetch'.target
         /\ fetch'.knows = knows /\ Flat(fetch'.pages) = {}
         /\ FetchInv'
  <1>1. Matches(scope) \in SUBSET Rows
    BY DEF Matches
  <1>2. (IF query = None THEN 1 ELSE Len(query.pages)) \in Nat
    BY DEF TypeOK, Queries
  <1>3. <<>> \in Seq(Pages) /\ Len(<<>>) = 0
    OBVIOUS
  <1>4. fetch' \in Fetches /\ fetch'.pages = <<>> /\ fetch'.knows = knows
        /\ fetch'.steady = Matches(scope) /\ Len(fetch'.pages) <= fetch'.target
    BY <1>1, <1>2, <1>3 DEF FetchAll, Fetches
  <1>5. fetch' # None /\ Flat(fetch'.pages) = {}
    BY <1>4 DEF Flat
  <1>6. \A r \in Matches(scope) : status'[r] \notin {"none", "open"}
    BY DEF Matches
  <1>7. Walk(fetch)'
    BY <1>3, <1>4, <1>6 DEF Walk, Slim, Descending, Complete
  <1>8. QED
    BY <1>4, <1>5, <1>7 DEF FetchInv

\* A page more comes.
LEMMA PageComes ==
  ASSUME TypeOK, FetchInv, FetchPage
  PROVE  /\ fetch' \in Fetches /\ fetch' # None
         /\ Len(fetch'.pages) <= fetch'.target /\ fetch'.knows = fetch.knows
         /\ \E page \in Pages : /\ \A r \in page.data : status[r] \in {"pending", "expired"}
                                /\ Flat(fetch'.pages) = Flat(fetch.pages) \union page.data
         /\ FetchInv'
  <1>1. /\ fetch \in Fetches /\ fetch.pages \in Seq(Pages) /\ fetch.steady \in SUBSET Rows
        /\ Len(fetch.pages) < fetch.target /\ fetch.target \in Nat
        /\ Walk(fetch) /\ UNCHANGED <<list, status>>
    BY DEF TypeOK, FetchPage, Fetches, FetchInv
  <1>2. PICK pages, scope : pages = fetch.pages /\ scope = fetch.scope
    OBVIOUS
  <1> DEFINE cursor == IF pages = <<>> THEN None ELSE NextCursor(pages)
  <1>3. PICK c, page : c = cursor /\ page = GetPage(scope, c)
    OBVIOUS
  <1>4. PICK more : more = Append(pages, page)
    OBVIOUS
  <1>5. /\ page \in Pages
        /\ page.data \subseteq Asked(scope, c)
        /\ Cardinality(page.data) <= Limit
        /\ page.cursor # None => /\ page.cursor \in Asked(scope, c)
                                 /\ \A r \in page.data : r > page.cursor
        /\ \A r \in Asked(scope, c) :
             r \in page.data \/ (page.cursor # None /\ r <= page.cursor)
    BY <1>3, PageRows
  <1>6. /\ more \in Seq(Pages) /\ more # <<>> /\ Len(more) = Len(pages) + 1
        /\ DOMAIN pages = 1..Len(pages) /\ DOMAIN more = 1..(Len(pages) + 1)
        /\ \A i \in DOMAIN pages : more[i] = pages[i]
        /\ more[Len(pages) + 1] = page
        /\ Flat(more) = Flat(pages) \union page.data
        /\ NextCursor(more) = page.cursor
    <2>1. pages \in Seq(Pages) /\ page \in Pages
      BY <1>1, <1>2, <1>5
    <2>2. Grows(pages, page, more)
      BY <1>4, <2>1, PageMore
    <2>3. QED
      BY <2>2 DEF Grows
  <1>7. /\ fetch' \in Fetches /\ fetch'.pages = more /\ fetch'.knows = fetch.knows
        /\ fetch'.target = fetch.target /\ fetch'.steady = fetch.steady /\ fetch'.scope = scope
        /\ fetch'.cut \in BOOLEAN
        /\ pages # <<>> => c # None /\ (~fetch'.cut => ~fetch.cut /\ c \in Matches(scope))
    <2>1. CASE pages = <<>>
      <3>1. fetch' = [fetch EXCEPT !.pages = <<GetPage(fetch.scope, None)>>]
        BY <1>2, <2>1 DEF FetchPage
      <3>2. more = <<page>>
        BY <1>4, <1>5, <2>1
      <3>3. fetch' = [fetch EXCEPT !.pages = more]
        BY <1>2, <1>3, <2>1, <3>1, <3>2
      <3>4. QED
        BY <1>1, <1>2, <1>6, <2>1, <3>3 DEF Fetches
    <2>2. CASE pages # <<>>
      <3>1. /\ NextCursor(fetch.pages) # None
            /\ fetch' = [fetch EXCEPT
                 !.pages = Append(@, GetPage(fetch.scope, NextCursor(fetch.pages))),
                 !.cut = @ \/ NextCursor(fetch.pages) \notin Matches(fetch.scope)]
        BY <1>2, <2>2 DEF FetchPage
      <3>2. c = NextCursor(fetch.pages)
        BY <1>2, <1>3, <2>2
      <3>3. PICK cut \in BOOLEAN : cut = (fetch.cut \/ c \notin Matches(scope))
        OBVIOUS
      <3>4. fetch' = [fetch EXCEPT !.pages = more, !.cut = cut]
        BY <1>1, <1>2, <1>3, <1>4, <3>1, <3>2, <3>3
      <3>5. QED
        BY <1>1, <1>2, <1>6, <3>1, <3>2, <3>3, <3>4 DEF Fetches
    <2>3. QED
      BY <2>1, <2>2
  <1>8. Asked(scope, c) \subseteq Matches(scope) /\ Matches(scope) \in SUBSET Rows
    BY DEF Asked, Matches
  <1>9. pages # <<>> => /\ c \in Rows /\ (\A r \in Flat(pages) : r > c)
                        /\ \A r \in Asked(scope, c) : r <= c
    <2> SUFFICES ASSUME pages # <<>>
        PROVE c \in Rows /\ (\A r \in Flat(pages) : r > c) /\ \A r \in Asked(scope, c) : r <= c
      OBVIOUS
    <2>1. c = NextCursor(pages) /\ c # None
      BY <1>3, <1>7
    <2>2. pages[Len(pages)] \in Pages
      BY <1>1, <1>2
    <2>3. c \in Rows
      BY <2>1, <2>2 DEF NextCursor, Pages
    <2>4. \A r \in Flat(pages) : r > c
      BY <1>1, <1>2, <2>1 DEF Walk, Descending
    <2>5. QED
      BY <2>1, <2>3, <2>4 DEF Asked
  <1>10. \A r \in Flat(pages) : r \in Rows
    <2>1. ASSUME NEW i \in DOMAIN pages PROVE pages[i].data \in SUBSET Rows
      <3>1. pages[i] \in Pages
        BY <1>1, <1>2
      <3>2. QED
        BY <3>1 DEF Pages
    <2>2. QED
      BY <2>1 DEF Flat
  <1>11. Slim(more)
    BY <1>1, <1>2, <1>5, <1>6 DEF Walk, Slim
  <1>12. Descending(more)
    <2>1. ASSUME NEW i \in DOMAIN more, NEW j \in DOMAIN more, i < j,
                 NEW r \in more[i].data, NEW s \in more[j].data
          PROVE  r > s
      <3>1. CASE j = Len(pages) + 1
        <4>1. i \in DOMAIN pages /\ pages # <<>> /\ r \in pages[i].data /\ s \in page.data
          BY <1>1, <1>2, <1>6, <2>1, <3>1
        <4>2. r \in Flat(pages) /\ r > c /\ s <= c
          BY <1>5, <1>9, <4>1 DEF Flat
        <4>3. r \in Nat /\ s \in Nat /\ c \in Nat
          BY <1>5, <1>8, <1>9, <1>10, <4>1, <4>2
        <4>4. QED
          BY <4>2, <4>3
      <3>2. CASE j # Len(pages) + 1
        <4>1. i \in DOMAIN pages /\ j \in DOMAIN pages
          BY <1>1, <1>2, <1>6, <2>1, <3>2
        <4>2. QED
          BY <1>1, <1>2, <1>6, <2>1, <4>1 DEF Walk, Descending
      <3>3. QED
        BY <3>1, <3>2
    <2>2. ASSUME page.cursor # None, NEW r \in Flat(more) PROVE r > page.cursor
      <3>1. CASE r \in page.data
        BY <1>5, <2>2, <3>1
      <3>2. CASE r \in Flat(pages)
        <4>1. pages # <<>>
          BY <1>1, <1>2, <3>2 DEF Flat
        <4>2. r > c /\ page.cursor <= c
          BY <1>5, <1>9, <2>2, <3>2, <4>1
        <4>3. r \in Nat /\ c \in Nat /\ page.cursor \in Nat
          BY <1>5, <1>8, <1>9, <1>10, <2>2, <3>2, <4>1
        <4>4. QED
          BY <4>2, <4>3
      <3>3. QED
        BY <1>6, <2>2, <3>1, <3>2
    <2>3. QED
      BY <1>6, <2>1, <2>2 DEF Descending
  <1>13. ASSUME ~fetch'.cut, NEW r \in fetch.steady \intersect Matches(scope)
         PROVE  r \in Flat(more) \/ (page.cursor # None /\ r <= page.cursor)
    <2>1. r \in Flat(pages) \/ r \in Asked(scope, c)
      <3>1. CASE pages = <<>>
        BY <1>3, <1>13, <3>1 DEF Asked
      <3>2. CASE pages # <<>>
        <4>1. ~fetch.cut /\ c \in Matches(scope) /\ c # None /\ c = NextCursor(pages)
          BY <1>3, <1>7, <1>13, <3>2
        <4>2. r \in Flat(pages) \/ r <= c
          BY <1>1, <1>2, <1>13, <3>2, <4>1 DEF Walk, Complete
        <4>3. QED
          BY <1>13, <4>1, <4>2 DEF Asked
      <3>3. QED
        BY <3>1, <3>2
    <2>2. QED
      BY <1>5, <1>6, <2>1
  <1>14. Walk(fetch)'
    <2>1. \A r \in fetch'.steady : status'[r] \notin {"none", "open"}
      BY <1>1, <1>7 DEF Walk, Complete
    <2>2. Matches(scope)' = Matches(scope)
      BY <1>1 DEF Matches
    <2>3. Complete(fetch)'
      BY <1>6, <1>7, <1>13, <2>1, <2>2 DEF Complete, Flat, NextCursor, Matches
    <2>4. QED
      BY <1>7, <1>11, <1>12, <2>3 DEF Walk, Slim, Descending, Flat, NextCursor
  <1>15. \A r \in page.data : status[r] \in {"pending", "expired"}
    BY <1>5, <1>8 DEF Matches
  <1>16. Len(fetch'.pages) <= fetch'.target
    <2>1. Len(pages) \in Nat
      BY <1>1, <1>2
    <2>2. QED
      BY <1>1, <1>2, <1>6, <1>7, <2>1
  <1>17. QED
    BY <1>2, <1>5, <1>6, <1>7, <1>14, <1>15, <1>16 DEF FetchInv

-----------------------------------------------------------------------------
(* Every step keeps the invariant.                                         *)

LEMMA InitInv == Init => IInv
  <1> SUFFICES ASSUME Init PROVE IInv
    OBVIOUS
  <1>1. TypeOK
    BY DEF Init, TypeOK
  <1>2. QED
    BY <1>1 DEF Init, IInv, QueryInv, FetchInv, RemovalInv, OwnRemovalShows

LEMMA TypeStep == ASSUME IInv, [Next]_vars PROVE TypeOK'
  <1> USE DEF IInv, TypeOK
  <1>1. ASSUME NEW r \in Rows, Begin(r) PROVE TypeOK' BY <1>1 DEF Begin
  <1>2. ASSUME NEW r \in Rows, End(r) PROVE TypeOK' BY <1>2 DEF End
  <1>3. ASSUME NEW r \in Rows, Vanish(r) PROVE TypeOK' BY <1>3 DEF Vanish
  <1>4. ASSUME NEW r \in Rows, Expire(r) PROVE TypeOK' BY <1>4 DEF Expire
  <1>5. ASSUME NEW r \in Rows, Dismiss(r) PROVE TypeOK'
    <2>1. mutation' \in Mutations
      BY <1>5 DEF Dismiss, Mutations
    <2>2. QED
      BY <1>5, <2>1 DEF Dismiss
  <1>6. ASSUME NEW r \in Rows, Send(r) PROVE TypeOK'
    <2>1. ScopeOf[list][r] \in Scopes
      OBVIOUS
    <2>2. mutation' \in Mutations
      BY <1>6, <2>1 DEF Send, Mutations
    <2>3. QED
      BY <1>6, <2>2 DEF Send
  <1>7. ASSUME NEW r \in Rows, Open(ScopeOf[list][r]) PROVE TypeOK'
    <2>1. ScopeOf[list][r] \in Scopes
      OBVIOUS
    <2>2. CASE fetch = None
      BY <1>7, <2>1, <2>2, FetchBegins DEF Open
    <2>3. CASE fetch # None
      BY <1>7, <2>1, <2>3 DEF Open
    <2>4. QED
      BY <2>2, <2>3
  <1>8. ASSUME Leave PROVE TypeOK' BY <1>8 DEF Leave
  <1>9. ASSUME Collect PROVE TypeOK' BY <1>9 DEF Collect
  <1>10. ASSUME LoadMore PROVE TypeOK'
    <2>1. query # None /\ query \in Queries /\ shown \in Scopes
      BY <1>10 DEF LoadMore, Listed
    <2>2. fetch' \in Fetches /\ Len(fetch'.pages) <= fetch'.target
      BY <1>10, <2>1 DEF LoadMore, Queries, Fetches
    <2>3. excused' \subseteq settled
      BY <1>10 DEF LoadMore, RemovalInv
    <2>4. QED
      BY <1>10, <2>2, <2>3 DEF LoadMore
  <1>11. ASSUME Refetch PROVE TypeOK'
    BY <1>11, FetchBegins DEF Refetch
  <1>12. ASSUME FetchPage PROVE TypeOK'
    <2>1. fetch' \in Fetches /\ Len(fetch'.pages) <= fetch'.target
      BY <1>12, PageComes
    <2>2. QED
      BY <1>12, <2>1 DEF FetchPage
  <1>13. ASSUME FetchEnds PROVE TypeOK'
    <2>1. fetch \in Fetches /\ Slim(fetch.pages) /\ fetch.pages # <<>>
      BY <1>13 DEF FetchEnds, FetchInv, Walk
    <2>2. query' \in Queries /\ query'.pages = fetch.pages
      BY <1>13, <2>1 DEF FetchEnds, Queries, Fetches
    <2>3. QED
      BY <1>13, <2>1, <2>2 DEF FetchEnds, Slim
  <1>14. ASSUME FetchFails PROVE TypeOK'
    BY <1>14 DEF FetchFails, RemovalInv
  <1>15. ASSUME Serve PROVE TypeOK'
    <2>1. mutation \in Mutations /\ mutation.row \in Rows
      BY <1>15 DEF Serve, Mutations
    <2>2. mutation' \in Mutations
      BY <1>15, <2>1 DEF Serve, Mutations
    <2>3. status' \in [Rows -> {"none", "open", "pending", "expired", "gone"}]
      BY <1>15, <2>1 DEF Serve
    <2>4. QED
      BY <1>15, <2>2, <2>3 DEF Serve
  <1>16. ASSUME Invalidate PROVE TypeOK'
    <2>1. mutation.row \in Rows /\ Settled \in SUBSET Rows /\ settled \subseteq Settled
      BY <1>16 DEF Invalidate, Mutations, Settled
    <2>2. CASE shown = None \/ (fetch # None /\ query = None)
      BY <1>16, <2>1, <2>2 DEF Invalidate
    <2>3. CASE ~(shown = None \/ (fetch # None /\ query = None))
      <3>1. shown \in Scopes /\ fetch' = FetchAll(shown, Settled) /\ failed' = "no"
            /\ UNCHANGED <<list, status, shown, query, excused>> /\ mutation' = None
            /\ settled' = Settled
        BY <1>16, <2>3 DEF Invalidate
      <3>2. fetch' \in Fetches /\ Len(fetch'.pages) <= fetch'.target
        BY <2>1, <3>1, FetchBegins
      <3>3. QED
        BY <2>1, <3>1, <3>2
    <2>4. QED
      BY <2>2, <2>3
  <1>17. ASSUME Complain PROVE TypeOK' BY <1>17 DEF Complain
  <1>18. ASSUME UNCHANGED vars PROVE TypeOK' BY <1>18 DEF vars
  <1>19. QED
    BY <1>1, <1>2, <1>3, <1>4, <1>5, <1>6, <1>7, <1>8, <1>9, <1>10, <1>11, <1>12, <1>13, <1>14,
       <1>15, <1>16, <1>17, <1>18 DEF Next

\* The query only changes when a fetch ends or the list is dropped.
LEMMA QueryStep == ASSUME IInv, [Next]_vars PROVE QueryInv'
  <1>1. TypeOK /\ QueryInv /\ FetchInv /\ StatusMoves
    BY Moves DEF IInv
  <1>2. ASSUME FetchEnds PROVE QueryInv'
    <2>1. PICK w : w = fetch
      OBVIOUS
    <2>2. Walk(w)
      BY <1>1, <1>2, <2>1 DEF FetchEnds, FetchInv
    <2>3. /\ query'.pages = w.pages /\ query'.steady = w.steady
          /\ query'.scope = w.scope /\ query'.cut = w.cut
          /\ UNCHANGED <<list, status>>
      BY <1>2, <2>1 DEF FetchEnds
    <2>4. QED
      BY <2>2, <2>3
         DEF QueryInv, Walk, Slim, Descending, Complete, Flat, NextCursor, Matches
  <1>3. ASSUME Collect PROVE QueryInv'
    BY <1>3 DEF Collect, QueryInv
  <1>4. ASSUME UNCHANGED query PROVE QueryInv'
    BY <1>1, <1>4, QueryKept
  <1>5. QED
    BY <1>2, <1>3, <1>4
       DEF Next, vars, Begin, End, Vanish, Expire, Dismiss, Send, Serve, Complain,
           Open, Leave, LoadMore, Refetch, FetchPage, FetchFails, Invalidate

\* A fetch begins, goes on from the pages there are, gets a page more, or is left alone.
LEMMA FetchStep == ASSUME IInv, [Next]_vars PROVE FetchInv'
  <1>1. TypeOK /\ QueryInv /\ FetchInv /\ StatusMoves
    BY Moves DEF IInv
  <1>2. ASSUME NEW scope \in Scopes, NEW knows \in SUBSET Rows, UNCHANGED <<list, status>>,
               fetch' = FetchAll(scope, knows)
        PROVE  FetchInv'
    BY <1>1, <1>2, FetchBegins
  <1>3. ASSUME UNCHANGED fetch PROVE FetchInv'
    BY <1>1, <1>3, FetchKept
  <1>4. ASSUME fetch' = None PROVE FetchInv'
    BY <1>4 DEF FetchInv
  <1>5. ASSUME LoadMore PROVE FetchInv'
    <2>1. PICK w : w = query
      OBVIOUS
    <2>2. w # None /\ w \in Queries /\ Walk(w)
      BY <1>1, <1>5, <2>1 DEF LoadMore, Listed, QueryInv, TypeOK
    <2>3. /\ fetch'.pages = w.pages /\ fetch'.steady = w.steady
          /\ fetch'.scope = shown /\ fetch'.cut = (w.cut \/ w.scope # shown)
          /\ UNCHANGED <<list, status>>
      BY <1>5, <2>1 DEF LoadMore
    <2>4. ~fetch'.cut => ~w.cut /\ fetch'.scope = w.scope
      BY <2>3
    <2>5. QED
      BY <2>2, <2>3, <2>4
         DEF FetchInv, Walk, Slim, Descending, Complete, Flat, NextCursor, Matches
  <1>6. ASSUME NEW r \in Rows, Open(ScopeOf[list][r]) PROVE FetchInv'
    <2>1. ScopeOf[list][r] \in Scopes /\ settled \in SUBSET Rows
      BY <1>1 DEF TypeOK
    <2>2. QED
      BY <1>2, <1>3, <1>6, <2>1 DEF Open
  <1>7. ASSUME Refetch PROVE FetchInv'
    BY <1>1, <1>2, <1>7 DEF Refetch, TypeOK
  <1>8. ASSUME Invalidate PROVE FetchInv'
    <2>1. Settled \in SUBSET Rows
      BY <1>1, <1>8 DEF Invalidate, Settled, TypeOK, Mutations
    <2>2. QED
      BY <1>1, <1>2, <1>3, <1>8, <2>1 DEF Invalidate, TypeOK
  <1>9. ASSUME FetchPage PROVE FetchInv'
    BY <1>1, <1>9, PageComes
  <1>10. QED
    BY <1>3, <1>4, <1>5, <1>6, <1>7, <1>8, <1>9
       DEF Next, vars, Begin, End, Vanish, Expire, Dismiss, Send, Serve, Complain,
           Leave, Collect, FetchEnds, FetchFails

\* What is gone stays gone, so a fetch that began after the removal does not list it.
LEMMA RemovalStep == ASSUME IInv, [Next]_vars PROVE RemovalInv'
  <1> DEFINE Gone == \A r \in settled : status[r] = "gone"
             Told == mutation # None /\ mutation.kind = "remove" /\ mutation.reply = "ok"
                       => status[mutation.row] = "gone"
             Fetched == fetch # None => /\ fetch.knows \subseteq settled
                                        /\ settled \intersect Flat(fetch.pages) \subseteq excused
  <1>1. TypeOK /\ TypeOK' /\ StatusMoves
    BY Moves, TypeStep DEF IInv
  <1>2. Gone /\ Told /\ Fetched /\ OwnRemovalShows
    BY DEF IInv, RemovalInv
  <1>3. settled \in SUBSET Rows /\ excused \in SUBSET Rows
    BY <1>1 DEF TypeOK
  <1>4. \A r \in Rows : status[r] = "gone" => status'[r] = "gone"
    BY <1>1 DEF StatusMoves
  <1>5. ASSUME UNCHANGED settled PROVE Gone'
    BY <1>2, <1>3, <1>4, <1>5
  <1>6. ASSUME UNCHANGED mutation PROVE Told'
    <2>1. mutation # None => mutation.row \in Rows
      BY <1>1 DEF TypeOK, Mutations
    <2>2. QED
      BY <1>2, <1>4, <1>6, <2>1
  <1>7. ASSUME mutation' = None PROVE Told'
    BY <1>7
  <1>8. ASSUME UNCHANGED <<query, fetch, settled, excused>> PROVE Fetched' /\ OwnRemovalShows'
    BY <1>2, <1>8 DEF OwnRemovalShows, Listed, Flat
  <1>9. ASSUME UNCHANGED <<query, mutation, settled, excused>>,
               fetch' \in Fetches, fetch'.knows = settled, Flat(fetch'.pages) = {}
        PROVE  RemovalInv'
    <2>1. fetch' # None /\ fetch'.knows = settled' /\ settled' = settled
      BY <1>9
    <2>2. Flat(fetch'.pages) = Flat(fetch.pages)'
      BY DEF Flat
    <2>3. Fetched'
      BY <1>9, <2>1, <2>2
    <2>4. OwnRemovalShows'
      BY <2>1 DEF OwnRemovalShows
    <2>5. QED
      BY <1>5, <1>6, <1>9, <2>3, <2>4 DEF RemovalInv
  <1>10. ASSUME NEW r \in Rows, \/ Begin(r) \/ End(r) \/ Vanish(r) \/ Expire(r)
         PROVE  RemovalInv'
    <2>1. UNCHANGED <<query, fetch, mutation, settled, excused>>
      BY <1>10 DEF Begin, End, Vanish, Expire
    <2>2. QED
      BY <1>5, <1>6, <1>8, <2>1 DEF RemovalInv
  <1>11. ASSUME NEW r \in Rows, Dismiss(r) \/ Send(r) PROVE RemovalInv'
    <2>1. UNCHANGED <<query, fetch, settled, excused>> /\ mutation'.reply = None
      BY <1>11 DEF Dismiss, Send
    <2>2. Told'
      BY <2>1
    <2>3. QED
      BY <1>5, <1>8, <2>1, <2>2 DEF RemovalInv
  <1>12. ASSUME NEW r \in Rows, Open(ScopeOf[list][r]) PROVE RemovalInv'
    <2>1. CASE fetch = None
      <3>1. ScopeOf[list][r] \in Scopes
        BY <1>1 DEF TypeOK
      <3>2. fetch' \in Fetches /\ fetch'.knows = settled /\ Flat(fetch'.pages) = {}
        BY <1>1, <1>3, <1>12, <2>1, <3>1, FetchBegins DEF Open
      <3>3. QED
        BY <1>9, <1>12, <3>2 DEF Open
    <2>2. CASE fetch # None
      <3>1. UNCHANGED <<query, fetch, mutation, settled, excused>>
        BY <1>12, <2>2 DEF Open
      <3>2. QED
        BY <1>5, <1>6, <1>8, <3>1 DEF RemovalInv
    <2>3. QED
      BY <2>1, <2>2
  <1>13. ASSUME Leave \/ UNCHANGED vars PROVE RemovalInv'
    <2>1. UNCHANGED <<query, fetch, mutation, settled, excused>>
      BY <1>13 DEF Leave, vars
    <2>2. QED
      BY <1>5, <1>6, <1>8, <2>1 DEF RemovalInv
  <1>14. ASSUME Collect PROVE RemovalInv'
    <2>1. UNCHANGED <<fetch, mutation, settled, excused>> /\ fetch = None /\ query' = None
      BY <1>14 DEF Collect
    <2>2. QED
      BY <1>5, <1>6, <2>1 DEF RemovalInv, OwnRemovalShows, Listed
  <1>15. ASSUME LoadMore PROVE RemovalInv'
    <2>0. fetch' # None
      <3>1. query # None /\ query \in Queries /\ shown \in Scopes
        BY <1>1, <1>15 DEF LoadMore, Listed, TypeOK
      <3>2. fetch' \in Fetches
        BY <1>15, <3>1 DEF LoadMore, Queries, Fetches
      <3>3. QED
        BY <3>2
    <2>1. /\ query # None /\ fetch'.pages = query.pages /\ fetch'.knows = {} /\ fetch' # None
          /\ UNCHANGED <<query, mutation, settled>>
          /\ excused' = IF fetch = None THEN excused ELSE excused \union fetch.knows
      BY <1>15, <2>0 DEF LoadMore, Listed
    <2>2. settled \intersect Flat(query.pages) \subseteq excused'
      BY <1>2, <2>1 DEF OwnRemovalShows, Listed
    <2>3. Flat(fetch'.pages) = Flat(query.pages) /\ Flat(fetch.pages)' = Flat(query.pages)
          /\ Flat(query.pages)' = Flat(query.pages)
      BY <2>1 DEF Flat
    <2>4. QED
      BY <1>5, <1>6, <2>1, <2>2, <2>3 DEF RemovalInv, OwnRemovalShows, Listed
  <1>16. ASSUME Refetch PROVE RemovalInv'
    <2>1. shown \in Scopes
      BY <1>1, <1>16 DEF Refetch, TypeOK
    <2>2. fetch' \in Fetches /\ fetch'.knows = settled /\ Flat(fetch'.pages) = {}
      BY <1>1, <1>3, <1>16, <2>1, FetchBegins DEF Refetch
    <2>3. QED
      BY <1>9, <1>16, <2>2 DEF Refetch
  <1>17. ASSUME FetchPage PROVE RemovalInv'
    <2>1. UNCHANGED <<query, mutation, settled, excused>> /\ fetch # None
      BY <1>17 DEF FetchPage
    <2>2. PICK page \in Pages : /\ \A r \in page.data : status[r] \in {"pending", "expired"}
                                /\ Flat(fetch'.pages) = Flat(fetch.pages) \union page.data
      BY <1>17, PageComes DEF IInv
    <2>3. fetch'.knows = fetch.knows
      BY <1>17, PageComes DEF IInv
    <2>4. settled \intersect page.data = {}
      BY <1>2, <2>2
    <2>5. Flat(fetch.pages)' = Flat(fetch'.pages)
      BY DEF Flat
    <2>6. Fetched'
      BY <1>2, <2>1, <2>2, <2>3, <2>4, <2>5
    <2>7. OwnRemovalShows'
      BY <1>1, <1>2, <1>17, <2>1, <2>3, PageComes DEF IInv, OwnRemovalShows, Listed, Flat
    <2>8. QED
      BY <1>5, <1>6, <2>1, <2>6, <2>7 DEF RemovalInv
  <1>18. ASSUME FetchEnds PROVE RemovalInv'
    <2>0. query' # None
      <3>1. fetch \in Fetches
        BY <1>1, <1>18 DEF FetchEnds, TypeOK
      <3>2. query' \in Queries
        BY <1>18, <3>1 DEF FetchEnds, Queries, Fetches
      <3>3. QED
        BY <3>2
    <2>1. /\ UNCHANGED <<mutation, settled, excused>> /\ fetch # None /\ fetch' = None
          /\ query' # None /\ query'.pages = fetch.pages
      BY <1>18, <2>0 DEF FetchEnds
    <2>2. Listed' = Flat(fetch.pages)
      BY <2>1 DEF Listed, Flat
    <2>3. OwnRemovalShows'
      BY <1>2, <2>1, <2>2 DEF OwnRemovalShows
    <2>4. QED
      BY <1>5, <1>6, <2>1, <2>3 DEF RemovalInv
  <1>19. ASSUME FetchFails PROVE RemovalInv'
    <2>1. /\ UNCHANGED <<query, mutation, settled>> /\ fetch # None /\ fetch' = None
          /\ excused' = excused \union fetch.knows
      BY <1>19 DEF FetchFails
    <2>2. OwnRemovalShows'
      BY <1>2, <2>1 DEF OwnRemovalShows, Listed, Flat
    <2>3. QED
      BY <1>5, <1>6, <2>1, <2>2 DEF RemovalInv
  <1>20. ASSUME Serve PROVE RemovalInv'
    <2>1. UNCHANGED <<query, fetch, settled, excused>> /\ mutation.row \in Rows
      BY <1>1, <1>20 DEF Serve, TypeOK, Mutations
    <2>2. CASE mutation.kind = "remove"
      BY <1>1, <1>5, <1>8, <1>20, <2>1, <2>2 DEF Serve, TypeOK, Mutations, RemovalInv
    <2>3. CASE mutation.kind # "remove"
      <3>1. mutation'.kind # "remove"
        BY <1>1, <1>20, <2>3 DEF Serve, TypeOK, Mutations
      <3>2. QED
        BY <1>5, <1>8, <2>1, <3>1 DEF RemovalInv
    <2>4. QED
      BY <2>2, <2>3
  <1>21. ASSUME Invalidate PROVE RemovalInv'
    <2>1. /\ mutation' = None /\ settled' = Settled /\ settled \subseteq Settled
          /\ Settled \in SUBSET Rows /\ UNCHANGED <<status, query>>
      BY <1>1, <1>21 DEF Invalidate, Settled, TypeOK, Mutations
    <2>2. Gone'
      BY <1>2, <1>21, <2>1 DEF Settled, Invalidate
    <2>3. CASE shown = None \/ (fetch # None /\ query = None)
      <3>1. UNCHANGED fetch /\ excused' = excused \union (Settled \ settled)
        BY <1>21, <2>3 DEF Invalidate
      <3>2. settled' \ settled \subseteq excused' /\ excused \subseteq excused'
            /\ settled \subseteq settled'
        BY <2>1, <3>1
      <3>3. Flat(fetch.pages)' = Flat(fetch.pages) /\ Listed' = Listed
        BY <2>1, <3>1 DEF Flat, Listed
      <3>4. Fetched'
        BY <1>2, <3>1, <3>2, <3>3
      <3>5. OwnRemovalShows'
        BY <1>2, <3>1, <3>2, <3>3 DEF OwnRemovalShows
      <3>6. QED
        BY <1>7, <2>1, <2>2, <3>4, <3>5 DEF RemovalInv
    <2>4. CASE ~(shown = None \/ (fetch # None /\ query = None))
      <3>1. shown \in Scopes /\ fetch' = FetchAll(shown, Settled) /\ UNCHANGED <<list, status>>
        BY <1>1, <1>21, <2>4 DEF Invalidate, TypeOK
      <3>2. fetch' # None /\ fetch'.knows = Settled /\ Flat(fetch'.pages) = {}
        BY <1>1, <2>1, <3>1, FetchBegins
      <3>3. Flat(fetch'.pages) = Flat(fetch.pages)'
        BY DEF Flat
      <3>4. Fetched'
        BY <2>1, <3>2, <3>3
      <3>5. OwnRemovalShows'
        BY <2>1, <3>2 DEF OwnRemovalShows
      <3>6. QED
        BY <1>7, <2>1, <2>2, <3>4, <3>5 DEF RemovalInv
    <2>5. QED
      BY <2>3, <2>4
  <1>22. ASSUME Complain PROVE RemovalInv'
    <2>1. UNCHANGED <<query, fetch, settled, excused>> /\ mutation' = None
      BY <1>22 DEF Complain
    <2>2. QED
      BY <1>5, <1>7, <1>8, <2>1 DEF RemovalInv
  <1>23. QED
    BY <1>10, <1>11, <1>12, <1>13, <1>14, <1>15, <1>16, <1>17, <1>18, <1>19, <1>20, <1>21, <1>22
       DEF Next

-----------------------------------------------------------------------------
LEMMA InvHolds == Spec => []IInv
  <1>1. IInv /\ [Next]_vars => IInv'
    BY TypeStep, QueryStep, FetchStep, RemovalStep DEF IInv
  <1>2. QED
    BY InitInv, <1>1, PTL DEF Spec

\* Every variable keeps its type, a page has Limit rows at most, and a fetch never brings
\* more pages than it was to bring.
THEOREM ListsTypeCorrect == Spec => []TypeOK
  <1>1. IInv => TypeOK
    BY DEF IInv
  <1>2. QED
    BY InvHolds, <1>1, PTL

\* However rows come and go between the requests of a walk, and whatever fetch takes the
\* place of another, a list shows no row twice and newer pages first.
THEOREM PagesDescend == Spec => []NewestFirst
  <1>1. IInv => NewestFirst
    BY DEF IInv, QueryInv, Walk, Descending, NewestFirst
  <1>2. QED
    BY InvHolds, <1>1, PTL

\* A walk that reached its end without losing the row of a cursor missed no row that was
\* there when it began and still is.
THEOREM WalksMissNothing == Spec => []CompleteUnlessCut
  <1>1. IInv => CompleteUnlessCut
    <2> SUFFICES ASSUME IInv, query # None, NextCursor(query.pages) = None, ~query.cut
                 PROVE  query.steady \intersect Matches(query.scope) \subseteq Listed
      BY DEF CompleteUnlessCut
    <2>1. query.pages # <<>> /\ Complete(query)
      BY DEF IInv, TypeOK, QueryInv, Walk
    <2>2. QED
      BY <2>1 DEF Complete, Listed
  <1>2. QED
    BY InvHolds, <1>1, PTL

\* An invite the user revoked or answered leaves the list by the fetch that follows, unless
\* that fetch failed, was replaced, or was not made.
THEOREM RemovedRowsDisappear == Spec => []OwnRemovalShows
  <1>1. IInv => OwnRemovalShows
    BY DEF IInv, RemovalInv
  <1>2. QED
    BY InvHolds, <1>1, PTL
=============================================================================
