------------------------------- MODULE Accounts -------------------------------
(*****************************************************************************)
(* The account of one person: sign-in with Google, the cached copy of the    *)
(* user, its update and deletion, and the settings page. Every await of a    *)
(* handler ends an action.                                                   *)
(*                                                                           *)
(* The person has one email; a user who is deleted and signs in again has a  *)
(* new id. A name is known by the request that wrote it. Google gives a code *)
(* for every authorization and takes it once. PostgreSQL keeps emails unique *)
(* and refresh tokens of users that exist.                                   *)
(*                                                                           *)
(* Bounds: Requests are made once each, Users and Authorizations, MaxFaults  *)
(* failures. A failure is a call to Redis, PostgreSQL or Google that fails,  *)
(* carried out or not, a server that dies, an answer that gets lost, or a    *)
(* guard that refuses.                                                       *)
(*****************************************************************************)
EXTENDS Integers, FiniteSets

CONSTANTS
  Requests, Users, Authorizations,
  GoogleName,   \* the name a user begins with
  None,
  MaxFaults

ASSUME UsersAssumption == Users = 1..Cardinality(Users) /\ 1 \in Users
ASSUME NoneAssumption ==
  /\ None \notin Users \union Requests \union Authorizations \union {GoogleName}
  /\ None \notin {"get", "update", "delete", "callback"}
  /\ GoogleName \notin Requests
ASSUME FaultAssumption == MaxFaults \in Nat

VARIABLES
  name,     \* of the row of a user; None before it is made and after it is deleted
  used,     \* the users that have been created
  cache,    \* the cached name of a user, or None
  oauth,    \* the OAuth states in the cache
  code,     \* of an authorization: "none", "fresh", "used"
  req,      \* a request: [kind, pc, user, val, auth]
  cookie,   \* the user of the access token of the browser, or None
  page,     \* the settings page: [info, get, got, save, saved, failed]
  suspect,  \* history: users whose cached name may be stale, by a failure or by Holders
  replaced, \* history: of an update, the name it replaced
  doubted,  \* history: requests that were answered with the cached name of a suspect
  late,     \* history: authorizations whose state expired
  moved,    \* history: requests during which others created or deleted the user
  faults

vars == <<name, used, cache, oauth, code, req, cookie, page, suspect, replaced, doubted, late, moved, faults>>

Row == <<name, used>>
SignIn == <<oauth, code, late>>
History == <<suspect, replaced, doubted, moved>>

Idle == [kind |-> None, pc |-> "idle", user |-> None, val |-> None, auth |-> None]
ClosedPage ==
  [info |-> None, get |-> None, got |-> None, save |-> None, saved |-> None, failed |-> FALSE]
Running(r) == req[r].pc \notin {"idle", "done", "refused"}
At(r, kind, pc) == req[r].kind = kind /\ req[r].pc = pc
Goto(r, pc) == req' = [req EXCEPT ![r].pc = pc]

Calls == faults' = faults
Fails == faults < MaxFaults /\ faults' = faults + 1

-------------------------------------------------------------------------------
(* The cached account.                                                     *)

\* Requests that hold a name of the user and have yet to store it.
Holders(u) == {r \in Requests : req[r].user = u /\ req[r].pc = "store"}

Start(r, kind, pc) ==
  /\ cookie # None /\ req[r] = Idle
  /\ req' = [req EXCEPT ![r] = [Idle EXCEPT !.kind = kind, !.pc = pc, !.user = cookie]]

\* After a failure the user is suspect if the cache keeps another name than the row's.
Doubt(u, stale) == suspect' = IF stale THEN suspect \union {u} ELSE suspect

\* A guard refuses, or a call or a server fails, before the row is read or written.
Refuse(r) ==
  /\ req[r].pc \in {"cache", "row"} /\ Fails /\ Goto(r, "refused")
  /\ UNCHANGED <<Row, cache, SignIn, cookie, page, History>>

\* setInCache of a name, as the last await of getAccount and updateAccount. When it
\* fails that is only logged.
StoreAccount(r) ==
  LET u == req[r].user
      stored == [cache EXCEPT ![u] = req[r].val]
  IN /\ req[r].pc = "store"
     /\ \/ Calls /\ cache' = stored /\ Goto(r, "done") /\ UNCHANGED suspect
        \/ Fails /\ cache' \in {cache, stored} /\ \E end \in {"done", "refused"} : Goto(r, end)
           /\ Doubt(u, cache'[u] \notin {None, name[u]})
     /\ UNCHANGED <<Row, SignIn, cookie, page, replaced, doubted, moved>>

\* getAccount.
ReadCachedAccount(r) ==
  LET u == req[r].user
  IN /\ At(r, "get", "cache")
     /\ \/ /\ Calls /\ cache[u] # None
           /\ req' = [req EXCEPT ![r].pc = "done", ![r].val = cache[u]]
           /\ doubted' = IF u \in suspect THEN doubted \union {r} ELSE doubted
        \/ (IF cache[u] = None THEN Calls ELSE Fails) /\ Goto(r, "row") /\ UNCHANGED doubted
     /\ UNCHANGED <<Row, cache, SignIn, cookie, page, suspect, replaced, moved>>

FindAccount(r) ==
  LET u == req[r].user
  IN /\ At(r, "get", "row")
     /\ IF name[u] = None THEN Goto(r, "refused")
        ELSE req' = [req EXCEPT ![r].pc = "store", ![r].val = name[u]]
     /\ UNCHANGED <<Row, cache, SignIn, cookie, page, History, faults>>

\* The row is written and the handler goes on to the cache, or the reply gets lost and the
\* cache keeps what it has.
Written(r, next) ==
  LET u == req[r].user
  IN \/ Calls /\ next /\ Doubt(u, Holders(u) # {})
     \/ Fails /\ Goto(r, "refused") /\ Doubt(u, Holders(u) # {} \/ cache[u] # None)

\* updateAccount.
UpdateRow(r) ==
  LET u == req[r].user
  IN /\ At(r, "update", "row")
     /\ \/ name[u] = None /\ Calls /\ Goto(r, "refused") /\ UNCHANGED <<name, suspect, replaced>>
        \/ /\ name[u] # None /\ name' = [name EXCEPT ![u] = r]
           /\ replaced' = [replaced EXCEPT ![r] = name[u]]
           /\ Written(r, req' = [req EXCEPT ![r].pc = "store", ![r].val = r])
     /\ UNCHANGED <<used, cache, SignIn, cookie, page, doubted, moved>>

\* deleteAccount: the refresh tokens and the memberships go with the row.
DeleteRow(r) ==
  LET u == req[r].user
  IN /\ At(r, "delete", "row")
     /\ \/ name[u] = None /\ Calls /\ Goto(r, "refused") /\ UNCHANGED <<name, suspect, moved>>
        \/ /\ name[u] # None /\ name' = [name EXCEPT ![u] = None]
           /\ moved' = moved \union {q \in Requests : Running(q)}
           /\ Written(r, Goto(r, "drop"))
     /\ UNCHANGED <<used, cache, SignIn, cookie, page, replaced, doubted>>

\* Variant: the cache is left alone.
DropNothing(r) ==
  /\ At(r, "delete", "drop") /\ Goto(r, "done")
  /\ cookie' = None /\ page' \in {ClosedPage, page}
  /\ UNCHANGED <<Row, cache, SignIn, History, faults>>

\* The cookies are cleared with the answer, and the page that asked goes to the front page.
DropCachedAccount(r) ==
  LET u == req[r].user
      dropped == [cache EXCEPT ![u] = None]
      answered == Goto(r, "done") /\ cookie' = None /\ page' \in {ClosedPage, page}
  IN /\ At(r, "delete", "drop")
     /\ \/ Calls /\ cache' = dropped /\ answered /\ UNCHANGED suspect
        \/ Fails /\ cache' \in {cache, dropped} /\ Doubt(u, cache'[u] # None)
           /\ (answered \/ (Goto(r, "refused") /\ UNCHANGED <<cookie, page>>))
     /\ UNCHANGED <<Row, SignIn, replaced, doubted, moved>>

\* The cached account reaches its TTL, or the cache Redis is full and evicts it.
ExpireAccount(u) ==
  /\ cache[u] # None /\ cache' = [cache EXCEPT ![u] = None]
  /\ suspect' = IF Holders(u) = {} THEN suspect \ {u} ELSE suspect
  /\ UNCHANGED <<Row, SignIn, req, cookie, page, replaced, doubted, moved, faults>>

-------------------------------------------------------------------------------
(* The pages. The account is kept under one query key and never stale.     *)

\* The first component that shows the account mounts.
OpenPage(r) ==
  /\ page = ClosedPage /\ Start(r, "get", "cache")
  /\ page' = [page EXCEPT !.get = r]
  /\ UNCHANGED <<Row, cache, SignIn, cookie, History, faults>>

\* Retry, by the user or the query client, when the account could not be fetched.
RetryPage(r) ==
  /\ page.failed /\ page.get = None /\ Start(r, "get", "cache")
  /\ page' = [page EXCEPT !.get = r, !.failed = FALSE]
  /\ UNCHANGED <<Row, cache, SignIn, cookie, History, faults>>

\* The answer to the GET the query waits for; that of a cancelled one is not looked at.
ReceiveAccount ==
  LET r == page.get
  IN /\ r # None /\ ~Running(r)
     /\ \/ req[r].pc = "done" /\ Calls /\ page' = [page EXCEPT !.get = None, !.got = r, !.info = req[r].val]
        \/ /\ IF req[r].pc = "done" THEN Fails ELSE Calls
           /\ page' = [page EXCEPT !.get = None, !.failed = TRUE]
     /\ UNCHANGED <<Row, cache, SignIn, req, cookie, History>>

\* Save Changes, disabled until the account was fetched again after the last update, and
\* not shown after a failed fetch.
Save(r) ==
  /\ page.info # None /\ ~page.failed /\ page.save = None /\ page.get = None /\ Start(r, "update", "row")
  /\ page' = [page EXCEPT !.save = r]
  /\ UNCHANGED <<Row, cache, SignIn, cookie, History, faults>>

\* Variant: the account is not fetched again.
SavedQuietly(g) ==
  /\ page.save # None /\ req[page.save].pc = "done"
  /\ page' = [page EXCEPT !.save = None, !.saved = page.save]
  /\ UNCHANGED <<Row, cache, SignIn, req, cookie, History, faults>>

\* onSuccess of the update: the account is invalidated, and fetched by the request g in
\* place of a fetch that is running; without cookies it is refused.
Saved(g) ==
  LET r == page.save
      after == [page EXCEPT !.save = None, !.saved = r]
  IN /\ r # None /\ req[r].pc = "done"
     /\ \/ Start(g, "get", "cache") /\ page' = [after EXCEPT !.get = g, !.failed = FALSE]
        \/ cookie = None /\ page' = [after EXCEPT !.get = None, !.failed = TRUE] /\ UNCHANGED req
     /\ UNCHANGED <<Row, cache, SignIn, cookie, History, faults>>

\* onError: a toast.
NotSaved ==
  /\ page.save # None /\ ~Running(page.save) /\ page' = [page EXCEPT !.save = None]
  /\ IF req[page.save].pc = "done" THEN Fails ELSE Calls
  /\ UNCHANGED <<Row, cache, SignIn, req, cookie, History>>

\* Another tab with the same cookies.
OtherTab(r) ==
  /\ Start(r, "get", "cache") \/ Start(r, "update", "row")
  /\ UNCHANGED <<Row, cache, SignIn, cookie, page, History, faults>>

\* Delete Account, of this page or another tab.
Delete(r) ==
  /\ Start(r, "delete", "row")
  /\ UNCHANGED <<Row, cache, SignIn, cookie, page, History, faults>>

-------------------------------------------------------------------------------
(* Sign-in.                                                                *)

\* Variant: the browser is sent to Google without the state.
AuthorizeUnstored(a) ==
  /\ code[a] = "none" /\ code' = [code EXCEPT ![a] = "fresh"] /\ UNCHANGED oauth
  /\ UNCHANGED <<Row, cache, late, req, cookie, page, History, faults>>

\* authorize: the state is in the cache before the browser is sent to Google, which sends
\* it back with a code.
Authorize(a) ==
  /\ code[a] = "none" /\ code' = [code EXCEPT ![a] = "fresh"] /\ oauth' = oauth \union {a}
  /\ UNCHANGED <<Row, cache, late, req, cookie, page, History, faults>>

ExpireState(a) ==
  /\ a \in oauth /\ oauth' = oauth \ {a} /\ late' = late \union {a}
  /\ UNCHANGED <<Row, cache, code, req, cookie, page, History, faults>>

\* The browser follows the redirect, more than once when it is reloaded.
Callback(r, a) ==
  /\ code[a] # "none" /\ req[r] = Idle
  /\ req' = [req EXCEPT ![r] = [Idle EXCEPT !.kind = "callback", !.pc = "state", !.auth = a]]
  /\ UNCHANGED <<Row, cache, SignIn, cookie, page, History, faults>>

ReadState(r) ==
  /\ At(r, "callback", "state")
  /\ \/ Calls /\ Goto(r, IF req[r].auth \in oauth THEN "redeem" ELSE "refused")
     \/ Fails /\ Goto(r, "refused")
  /\ UNCHANGED <<Row, cache, SignIn, cookie, page, History>>

\* Google takes a code once; the answer to a used one has no id_token.
RedeemCode(r) ==
  LET a == req[r].auth
      given == IF code[a] = "fresh" THEN GoogleName ELSE None
      taken == [code EXCEPT ![a] = "used"]
  IN /\ At(r, "callback", "redeem")
     /\ \/ Calls /\ code' = taken /\ req' = [req EXCEPT ![r].pc = "delete", ![r].val = given]
        \/ Fails /\ code' \in {code, taken} /\ Goto(r, "refused")
     /\ UNCHANGED <<Row, cache, oauth, late, cookie, page, History>>

\* The outcome of the DEL does not matter, a missing id_token does.
DeleteState(r) ==
  /\ At(r, "callback", "delete") /\ Goto(r, IF req[r].val = None THEN "refused" ELSE "find")
  /\ \/ Calls /\ oauth' = oauth \ {req[r].auth}
     \/ Fails /\ UNCHANGED oauth
  /\ UNCHANGED <<Row, cache, code, late, cookie, page, History>>

Existing == {u \in Users : name[u] # None}

FindUser(r) ==
  /\ At(r, "callback", "find")
  /\ \/ Existing = {} /\ Calls /\ Goto(r, "create")
     \/ Calls /\ \E u \in Existing : req' = [req EXCEPT ![r].pc = "tokens", ![r].user = u]
     \/ Fails /\ Goto(r, "refused")
  /\ UNCHANGED <<Row, cache, SignIn, cookie, page, History>>

\* The row is made, and the callback goes on or the reply gets lost.
Created(r) ==
  \E u \in Users \ used :
    /\ \A v \in Users : v < u => v \in used
    /\ used' = used \union {u} /\ name' = [name EXCEPT ![u] = GoogleName]
    /\ moved' = moved \union {q \in Requests \ {r} : Running(q)}
    /\ \/ Calls /\ req' = [req EXCEPT ![r].pc = "tokens", ![r].user = u]
       \/ Fails /\ Goto(r, "refused")

\* Variant: emails are not unique.
CreateUserAnyway(r) ==
  /\ At(r, "callback", "create") /\ Created(r)
  /\ UNCHANGED <<cache, SignIn, cookie, page, suspect, replaced, doubted>>

\* The email is unique.
CreateUser(r) ==
  /\ At(r, "callback", "create")
  /\ \/ Existing = {} /\ Created(r)
     \/ (IF Existing # {} THEN Calls ELSE Fails) /\ Goto(r, "refused") /\ UNCHANGED <<Row, moved>>
  /\ UNCHANGED <<cache, SignIn, cookie, page, suspect, replaced, doubted>>

\* The refresh token is stored for a user that exists; the cookies are set, and the
\* dashboard is loaded.
GenerateToken(r) ==
  /\ At(r, "callback", "tokens")
  /\ \/ /\ Calls /\ req[r].user \in Existing
        /\ Goto(r, "done") /\ cookie' = req[r].user /\ page' = ClosedPage
     \/ /\ IF req[r].user \in Existing THEN Fails ELSE Calls
        /\ Goto(r, "refused") /\ UNCHANGED <<cookie, page>>
  /\ UNCHANGED <<Row, cache, SignIn, History>>

-------------------------------------------------------------------------------
\* The person has an account and is signed in, or not yet.
Init ==
  /\ \E u \in {{}, {1}} :
       /\ used = u /\ name = [v \in Users |-> IF v \in u THEN GoogleName ELSE None]
       /\ cookie = IF u = {} THEN None ELSE 1
  /\ cache = [u \in Users |-> None] /\ oauth = {} /\ code = [a \in Authorizations |-> "none"]
  /\ req = [r \in Requests |-> Idle] /\ page = ClosedPage
  /\ suspect = {} /\ replaced = [r \in Requests |-> None] /\ doubted = {}
  /\ late = {} /\ moved = {} /\ faults = 0

GetAccount(r) == ReadCachedAccount(r) \/ FindAccount(r)
SignInStep(r) ==
  \/ \E a \in Authorizations : Callback(r, a)
  \/ ReadState(r) \/ RedeemCode(r) \/ DeleteState(r)
  \/ FindUser(r) \/ CreateUser(r) \/ GenerateToken(r)

Next ==
  \/ \E r \in Requests :
       \/ OpenPage(r) \/ RetryPage(r) \/ Save(r) \/ Saved(r) \/ OtherTab(r) \/ Delete(r)
       \/ Refuse(r) \/ GetAccount(r) \/ UpdateRow(r) \/ StoreAccount(r)
       \/ DeleteRow(r) \/ DropCachedAccount(r) \/ SignInStep(r)
  \/ ReceiveAccount \/ NotSaved
  \/ \E u \in Users : ExpireAccount(u)
  \/ \E a \in Authorizations : Authorize(a) \/ ExpireState(a)

Spec == Init /\ [][Next]_vars

-------------------------------------------------------------------------------
(* Properties.                                                             *)

Names == Requests \union {GoogleName, None}

\* Every variable has its type; the email is that of one user at most, and a name in the
\* cache is that of a user who was created.
TypeOK ==
  /\ name \in [Users -> Names] /\ used \subseteq Users /\ Existing \subseteq used
  /\ Cardinality(Existing) <= 1
  /\ cache \in [Users -> Names] /\ \A u \in Users : cache[u] # None => u \in used
  /\ cookie \in used \union {None} /\ oauth \subseteq {a \in Authorizations : code[a] # "none"}
  /\ faults \in 0..MaxFaults
  /\ page.info \in Names /\ {page.get, page.save, page.saved, page.got} \subseteq Requests \union {None}

\* Between requests that write, the cached account of a user is the row, and is gone when
\* the row is. The exceptions last until the TTL: an update or a deletion that came
\* between the read and the store of another request, and a failure that came between the
\* row and the cache, or at the cache.
CacheIsCurrent ==
  \A u \in Users \ suspect :
    cache[u] \in {None, name[u]}
      \/ \E r \in Requests : req[r].user = u /\ req[r].pc \in {"store", "drop"}

\* Once the page has saved a name and fetched the account again it no longer shows the
\* name that was replaced, unless that fetch found a cached account of the exceptions.
OwnUpdateShows ==
  page.saved # None /\ page.get = None /\ ~page.failed =>
    page.info # replaced[page.saved] \/ page.got \in doubted

\* A person who comes back from Google is signed in, unless it took more than the minute
\* of the state, the callback was made twice, the account was created or deleted
\* meanwhile, or a call failed.
OnlyCrossedSignInsFail ==
  \A r \in Requests :
    req[r].kind = "callback" /\ req[r].pc = "refused" =>
      \/ req[r].auth \in late \/ r \in moved \/ faults > 0
      \/ \E q \in Requests \ {r} : req[q].auth = req[r].auth
===============================================================================
