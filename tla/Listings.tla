------------------------------- MODULE Listings -------------------------------
(*****************************************************************************)
(* The paginated lists of the website: the rooms and the invites of a user   *)
(* on the dashboard, and the pending invites of a room in its panel. The     *)
(* server answers a page with Limit rows and, as the cursor of the next      *)
(* page, the row after them; the website keeps the pages of a list under a   *)
(* query key and fetches them again when the list is shown and after the     *)
(* user changed it.                                                          *)
(*                                                                           *)
(* A page is the set of its rows: within a page the database's ORDER BY puts *)
(* the newest first, and the website keeps that order. Rows are numbered in  *)
(* the order of created_at, which a transaction takes before it commits;     *)
(* rows with the same created_at, which the database returns in any order    *)
(* and of which a cursor may skip or repeat some, are left out. The list of  *)
(* the panel is kept under one key for all rooms; the lists of the dashboard *)
(* are lists of one scope. Prisma and TanStack Query are modelled from how   *)
(* they are used here.                                                       *)
(*                                                                           *)
(* Bounds: Rows, and one change by the user in flight at a time.             *)
(*****************************************************************************)
EXTENDS Integers, Sequences, FiniteSets

CONSTANTS
  Lists,      \* which of "rooms", "invites" and "room-invites" are modelled
  Rows,       \* memberships or invites, numbered
  Scopes,     \* the rooms whose panel is opened, or the users
  ScopeOf,    \* the scope a row belongs to, by list
  Limit,
  None

ASSUME RowsAssumption == Rows \subseteq Nat /\ IsFiniteSet(Rows)
ASSUME LimitAssumption == Limit \in Nat \ {0}
ASSUME ScopeAssumption == ScopeOf \in [Lists -> [Rows -> Scopes]]

\* What a fetch has brought so far, and what the page keeps of it.
Pages == [data : SUBSET Rows, cursor : Rows \union {None}]
Queries == [scope : Scopes, pages : Seq(Pages), steady : SUBSET Rows, cut : BOOLEAN]
Fetches == [scope : Scopes, pages : Seq(Pages), steady : SUBSET Rows, cut : BOOLEAN,
            target : Nat, knows : SUBSET Rows]
Mutations == [kind : {"remove", "send"}, row : Rows, scope : Scopes, reply : {None, "ok", "error"}]

ASSUME NoneAssumption ==
  /\ None \notin Rows /\ None \notin Scopes /\ None \notin {"ok", "error"}
  /\ None \notin Queries /\ None \notin Fetches /\ None \notin Mutations

VARIABLES
  list,      \* the list of this behaviour
  status,    \* of a row: "none", "open" (its transaction), "pending", "expired", "gone"
  shown,     \* the scope whose list is on the page, or None
  query,     \* the data under the query key: [scope, pages, steady, cut], or None
  fetch,     \* the fetch that is running: [scope, pages, target, steady, cut, knows], or None
  failed,    \* "no", or what the last fetch was when it failed: "all", "next"
  mutation,  \* the change in flight: [kind, row, scope, reply], or None
  settled,   \* history: rows this page removed, when the page knows
  excused    \* history: of these, the rows whose refetch failed, was given up or not made

vars == <<list, status, shown, query, fetch, failed, mutation, settled, excused>>

-------------------------------------------------------------------------------
(* The server.                                                             *)

\* The where clause; only the invites of a user are filtered by expires_at.
Matches(scope) ==
  {r \in Rows : /\ ScopeOf[list][r] = scope
                /\ status[r] = "pending" \/ (list = "room-invites" /\ status[r] = "expired")}

\* The first n rows, newest first.
Newest(n, rows) == {r \in rows : Cardinality({s \in rows : s > r}) < n}
Oldest(rows) == CHOOSE r \in rows : \A s \in rows : r <= s

\* Variant: the row of the cursor is skipped.
FindManyAfter(scope, cursor) ==
  Newest(Limit + 1, {r \in Matches(scope) :
                       cursor # None => cursor \in Matches(scope) /\ r < cursor})

\* findMany by created_at, newest first, from the row of the cursor on. When that row is
\* not among the matching ones there is nothing.
FindMany(scope, cursor) ==
  Newest(Limit + 1, {r \in Matches(scope) :
                       cursor # None => cursor \in Matches(scope) /\ r <= cursor})

\* Variant: the row over the limit is sent, too.
GetPageUnsliced(scope, cursor) ==
  LET found == FindMany(scope, cursor)
  IN [data |-> found,
      cursor |-> IF Cardinality(found) > Limit THEN Oldest(found) ELSE None]

\* Variant: the cursor is the last row that is sent.
GetPageLastRow(scope, cursor) ==
  LET found == FindMany(scope, cursor)
  IN [data |-> Newest(Limit, found),
      cursor |-> IF Cardinality(found) > Limit THEN Oldest(Newest(Limit, found)) ELSE None]

\* getRooms, getInvites: the row over the limit is the cursor of the next page.
GetPage(scope, cursor) ==
  LET found == FindMany(scope, cursor)
  IN [data |-> Newest(Limit, found),
      cursor |-> IF Cardinality(found) > Limit THEN Oldest(found) ELSE None]

\* inviteUser, createRoom, the acceptance of an invite: a transaction begins.
Begin(r) ==
  /\ status[r] = "none" /\ \A s \in Rows : s < r => status[s] # "none"
  /\ status' = [status EXCEPT ![r] = "open"]
  /\ UNCHANGED <<list, shown, query, fetch, failed, mutation, settled, excused>>

\* It commits, or is rolled back: the mail of an invite could not be sent.
End(r) ==
  /\ status[r] = "open" /\ \E s \in {"pending", "gone"} : status' = [status EXCEPT ![r] = s]
  /\ UNCHANGED <<list, shown, query, fetch, failed, mutation, settled, excused>>

\* Somebody else answers or revokes an invite, or removes the member.
Vanish(r) ==
  /\ status[r] \in {"pending", "expired"} /\ status' = [status EXCEPT ![r] = "gone"]
  /\ UNCHANGED <<list, shown, query, fetch, failed, mutation, settled, excused>>

Expire(r) ==
  /\ list # "rooms" /\ status[r] = "pending"
  /\ status' = [status EXCEPT ![r] = "expired"]
  /\ UNCHANGED <<list, shown, query, fetch, failed, mutation, settled, excused>>

-------------------------------------------------------------------------------
(* The website.                                                            *)

Flat(pages) == UNION {pages[i].data : i \in DOMAIN pages}
Listed == IF query = None THEN {} ELSE Flat(query.pages)
NextCursor(pages) == pages[Len(pages)].cursor

\* A fetch of all the pages there are, of the first one when there are none.
FetchAll(scope, knows) ==
  [scope |-> scope, pages |-> <<>>, steady |-> Matches(scope), cut |-> FALSE, knows |-> knows,
   target |-> IF query = None THEN 1 ELSE Len(query.pages)]

\* useInfiniteQuery mounts: a fetch that is running is joined, of whatever scope it is.
Open(scope) ==
  /\ shown = None /\ shown' = scope
  /\ IF fetch = None THEN fetch' = FetchAll(scope, settled) /\ failed' = "no"
     ELSE UNCHANGED <<fetch, failed>>
  /\ UNCHANGED <<list, status, query, mutation, settled, excused>>

\* Another tab or page; a fetch goes on.
Leave ==
  /\ shown # None /\ shown' = None
  /\ UNCHANGED <<list, status, query, fetch, failed, mutation, settled, excused>>

\* The data of a list nobody shows is dropped after gcTime.
Collect ==
  /\ shown = None /\ fetch = None /\ query # None /\ query' = None
  /\ UNCHANGED <<list, status, shown, fetch, failed, mutation, settled, excused>>

\* Load More: fetchNextPage takes the place of a refetch that is running.
LoadMore ==
  /\ shown # None /\ Listed # {} /\ NextCursor(query.pages) # None
  /\ failed # "next" /\ (fetch # None => fetch.target <= Len(query.pages))
  /\ fetch' = [scope |-> shown, pages |-> query.pages, steady |-> query.steady,
               cut |-> query.cut \/ query.scope # shown, knows |-> {},
               target |-> Len(query.pages) + 1]
  /\ excused' = IF fetch = None THEN excused ELSE excused \union fetch.knows
  /\ failed' = "no"
  /\ UNCHANGED <<list, status, shown, query, mutation, settled>>

\* Retry, offered when the first page or a further one could not be loaded.
Refetch ==
  /\ shown # None
  /\ failed = "next" \/ (failed = "all" /\ query = None)
  /\ fetch' = FetchAll(shown, settled) /\ failed' = "no"
  /\ UNCHANGED <<list, status, shown, query, mutation, settled, excused>>

\* The server answers the request for the next page of the fetch.
FetchPage ==
  /\ fetch # None /\ Len(fetch.pages) < fetch.target
  /\ \/ fetch.pages = <<>> /\ fetch' = [fetch EXCEPT !.pages = <<GetPage(fetch.scope, None)>>]
     \/ /\ fetch.pages # <<>> /\ NextCursor(fetch.pages) # None
        /\ LET cursor == NextCursor(fetch.pages)
           IN fetch' = [fetch EXCEPT !.pages = Append(@, GetPage(fetch.scope, cursor)),
                                     !.cut = @ \/ cursor \notin Matches(fetch.scope)]
  /\ UNCHANGED <<list, status, shown, query, failed, mutation, settled, excused>>

FetchEnds ==
  /\ fetch # None /\ fetch.pages # <<>>
  /\ (Len(fetch.pages) < fetch.target => NextCursor(fetch.pages) = None)
  /\ query' = [scope |-> fetch.scope, pages |-> fetch.pages, steady |-> fetch.steady,
               cut |-> fetch.cut]
  /\ fetch' = None
  /\ UNCHANGED <<list, status, shown, failed, mutation, settled, excused>>

\* A request failed more often than it is retried: the list stays as it is.
FetchFails ==
  /\ fetch # None
  /\ failed' = IF query # None /\ fetch.target > Len(query.pages) THEN "next" ELSE "all"
  /\ fetch' = None /\ excused' = excused \union fetch.knows
  /\ UNCHANGED <<list, status, shown, query, mutation, settled>>

\* Revoke in the panel, Accept or Decline on the dashboard.
Dismiss(r) ==
  /\ list # "rooms" /\ shown # None /\ mutation = None
  /\ r \in Listed
  /\ mutation' = [kind |-> "remove", row |-> r, scope |-> shown, reply |-> None]
  /\ UNCHANGED <<list, status, shown, query, fetch, failed, settled, excused>>

\* Send Invite: the server has begun the transaction.
Send(r) ==
  /\ list = "room-invites" /\ shown = ScopeOf[list][r] /\ mutation = None
  /\ status[r] = "none" /\ \A s \in Rows : s < r => status[s] # "none"
  /\ status' = [status EXCEPT ![r] = "open"]
  /\ mutation' = [kind |-> "send", row |-> r, scope |-> shown, reply |-> None]
  /\ UNCHANGED <<list, shown, query, fetch, failed, settled, excused>>

\* revokeInvite looks for the invite in the room, updateInvite for the invite; both want
\* it pending, and neither looks at expires_at.
Serve ==
  /\ mutation # None /\ mutation.reply = None
  /\ LET r == mutation.row
         found == /\ status[r] \in {"pending", "expired"}
                  /\ list = "room-invites" => ScopeOf[list][r] = mutation.scope
     IN \/ /\ mutation.kind = "remove"
           /\ status' = IF found THEN [status EXCEPT ![r] = "gone"] ELSE status
           /\ mutation' = [mutation EXCEPT !.reply = IF found THEN "ok" ELSE "error"]
        \/ /\ mutation.kind = "send" /\ status[r] # "open"
           /\ mutation' = [mutation EXCEPT !.reply = IF status[r] = "gone" THEN "error" ELSE "ok"]
           /\ UNCHANGED status
  /\ UNCHANGED <<list, shown, query, fetch, failed, settled, excused>>

Settled == IF mutation.kind = "remove" /\ mutation.reply = "ok" THEN settled \union {mutation.row}
           ELSE settled

\* Variant: a fetch that is running is joined.
InvalidateJoins ==
  /\ mutation # None /\ mutation.reply = "ok" /\ mutation' = None
  /\ settled' = Settled
  /\ IF shown = None \/ (fetch # None /\ query = None)
     THEN excused' = excused \union (Settled \ settled) /\ UNCHANGED <<fetch, failed>>
     ELSE /\ fetch' = IF fetch # None THEN fetch ELSE FetchAll(shown, Settled)
          /\ failed' = "no" /\ UNCHANGED excused
  /\ UNCHANGED <<list, status, shown, query>>

\* onSuccess: invalidateQueries. The list is fetched again when it is shown, in place of a
\* fetch that is running unless that is the first one.
Invalidate ==
  /\ mutation # None /\ mutation.reply = "ok" /\ mutation' = None
  /\ settled' = Settled
  /\ IF shown = None \/ (fetch # None /\ query = None)
     THEN excused' = excused \union (Settled \ settled) /\ UNCHANGED <<fetch, failed>>
     ELSE fetch' = FetchAll(shown, Settled) /\ failed' = "no" /\ UNCHANGED excused
  /\ UNCHANGED <<list, status, shown, query>>

\* onError: a toast.
Complain ==
  /\ mutation # None /\ mutation.reply = "error" /\ mutation' = None
  /\ UNCHANGED <<list, status, shown, query, fetch, failed, settled, excused>>

-------------------------------------------------------------------------------
Init ==
  /\ list \in Lists
  /\ \E n \in 0..Cardinality(Rows) : status = [r \in Rows |-> IF r <= n THEN "pending" ELSE "none"]
  /\ shown = None /\ query = None /\ fetch = None /\ failed = "no" /\ mutation = None
  /\ settled = {} /\ excused = {}

Next ==
  \/ \E r \in Rows : Begin(r) \/ End(r) \/ Vanish(r) \/ Expire(r) \/ Dismiss(r) \/ Send(r)
  \/ \E r \in Rows : Open(ScopeOf[list][r])
  \/ Leave \/ Collect \/ LoadMore \/ Refetch \/ FetchPage \/ FetchEnds \/ FetchFails
  \/ Serve \/ Invalidate \/ Complain

Spec == Init /\ [][Next]_vars

-------------------------------------------------------------------------------
(* Properties.                                                             *)

\* Every variable has its type, and a page has at most Limit rows.
TypeOK ==
  /\ list \in Lists /\ status \in [Rows -> {"none", "open", "pending", "expired", "gone"}]
  /\ shown \in Scopes \union {None} /\ failed \in {"no", "all", "next"}
  /\ query \in Queries \union {None} /\ fetch \in Fetches \union {None}
  /\ mutation \in Mutations \union {None}
  /\ excused \subseteq settled /\ settled \subseteq Rows
  /\ query # None => /\ query.pages # <<>>
                     /\ \A i \in DOMAIN query.pages : Cardinality(query.pages[i].data) <= Limit
  /\ fetch # None => Len(fetch.pages) <= fetch.target

\* However the rows change between the requests for two pages, and whichever fetch joins
\* or takes the place of another: a list shows no row twice, and the newest first.
NewestFirst ==
  query # None => \A i, j \in DOMAIN query.pages :
    i < j => \A r \in query.pages[i].data, s \in query.pages[j].data : r > s

\* A list that offers no further page has every row that was there when its first page
\* was asked for and still is, unless the row of a cursor vanished during the walk.
CompleteUnlessCut ==
  query # None /\ NextCursor(query.pages) = None /\ ~query.cut =>
    query.steady \intersect Matches(query.scope) \subseteq Listed

\* An invite the user revoked or answered, and was told so, leaves the list by the fetch
\* that follows; it stays only when that fetch failed, was replaced by Load More, or was
\* not made because the list was not shown.
OwnRemovalShows ==
  \A r \in settled \intersect Listed : r \in excused \/ (fetch # None /\ r \in fetch.knows)
===============================================================================
