----------------------------- MODULE AccountsProofs -----------------------------
(*****************************************************************************)
(* Theorems about Accounts, for any requests, users, sign-ins and failures.  *)
(* Each of the last three properties rests on what is true of a request that *)
(* is under way: what it is about to store is the row, a callback that       *)
(* nothing came in the way of finds its code and its account, and a fetch    *)
(* that follows a save has not found the name that was replaced.             *)
(*****************************************************************************)
EXTENDS Accounts, FiniteSetTheorems, TLAPS

Pcs == {"idle", "done", "refused", "cache", "row", "store", "drop", "state", "redeem",
        "delete", "find", "create", "tokens"}
Flags == BOOLEAN
RequestOrNone == Requests \union {None}

Req == [kind : {None, "get", "update", "delete", "callback"}, pc : Pcs,
        user : Users \union {None}, val : Names, auth : Authorizations \union {None}]

Page == [info : Names, get : RequestOrNone, got : RequestOrNone, save : RequestOrNone,
         saved : RequestOrNone, failed : Flags]

RowTypes ==
  /\ name \in [Users -> Names] /\ used \in SUBSET Users /\ cache \in [Users -> Names]
  /\ \A u \in Users \ used : name[u] = None /\ cache[u] = None
SignInTypes ==
  /\ oauth \in SUBSET Authorizations /\ late \in SUBSET Authorizations
  /\ code \in [Authorizations -> {"none", "fresh", "used"}]
\* A request that touches a row, a cached account or a token is about a user.
RequestTypes ==
  /\ req \in [Requests -> Req]
  /\ \A r \in Requests :
       req[r].pc \in {"cache", "row", "store", "drop", "tokens"} => req[r].user \in used
  /\ \A r \in Requests :
       req[r].pc \in {"state", "redeem", "delete"} /\ req[r].kind = "callback"
         => req[r].auth \in Authorizations
PageTypes == page \in Page /\ cookie \in used \union {None}
FaultTypes == faults \in 0..MaxFaults
HistoryTypes ==
  /\ suspect \in SUBSET Users /\ replaced \in [Requests -> Names]
  /\ doubted \in SUBSET Requests /\ moved \in SUBSET Requests

Types == RowTypes /\ SignInTypes /\ RequestTypes /\ PageTypes /\ FaultTypes /\ HistoryTypes

LEMMA TwoFlags == TRUE \in Flags /\ FALSE \in Flags
BY DEF Flags

LEMMA KnownPcs ==
  /\ "idle" \in Pcs /\ "done" \in Pcs /\ "refused" \in Pcs /\ "cache" \in Pcs
  /\ "row" \in Pcs /\ "store" \in Pcs /\ "drop" \in Pcs /\ "state" \in Pcs
  /\ "redeem" \in Pcs /\ "delete" \in Pcs /\ "find" \in Pcs /\ "create" \in Pcs
  /\ "tokens" \in Pcs
BY DEF Pcs

LEMMA ClosedIsPage == ClosedPage \in Page
BY NoneAssumption, TwoFlags DEF ClosedPage, Page, Names, RequestOrNone

LEMMA InitTypes == Init => Types
<1> SUFFICES ASSUME Init PROVE Types OBVIOUS
<1> USE FaultAssumption, UsersAssumption, NoneAssumption, TwoFlags
<1>1. RowTypes BY DEF Init, RowTypes, Names
<1>2. SignInTypes BY DEF Init, SignInTypes
<1>3. RequestTypes /\ PageTypes
  BY DEF Init, RequestTypes, PageTypes, Req, Page, Idle, ClosedPage, Names, Pcs, RequestOrNone
<1>4. FaultTypes BY DEF Init, FaultTypes
<1>5. HistoryTypes BY DEF Init, HistoryTypes, Names
<1> QED BY <1>1, <1>2, <1>3, <1>4, <1>5 DEF Types

\* The steps, grouped by what a step may change.
PageStep ==
  \/ \E r \in Requests : OpenPage(r) \/ RetryPage(r) \/ Save(r) \/ Saved(r) \/ OtherTab(r)
  \/ ReceiveAccount \/ NotSaved
AccountStep ==
  \E r \in Requests : Refuse(r) \/ GetAccount(r) \/ UpdateRow(r) \/ StoreAccount(r) \/ DeleteRow(r)
                        \/ DropCachedAccount(r)
OtherStep ==
  \/ \E r \in Requests : Delete(r)
  \/ \E u \in Users : ExpireAccount(u)
  \/ \E a \in Authorizations : Authorize(a) \/ ExpireState(a)

LEMMA StepCases ==
  Next <=> PageStep \/ AccountStep \/ OtherStep \/ \E r \in Requests : SignInStep(r)
BY Zenon DEF Next, PageStep, AccountStep, OtherStep

\* A request that starts is about the user of the cookie.
LEMMA StartKeepsTypes ==
  ASSUME RowTypes, RequestTypes, PageTypes, NEW r \in Requests,
         NEW kind \in {"get", "update", "delete"}, NEW pc \in {"cache", "row"},
         cookie # None, used' = used,
         req' = [req EXCEPT ![r] = [Idle EXCEPT !.kind = kind, !.pc = pc, !.user = cookie]]
  PROVE  RequestTypes'
<1> USE NoneAssumption DEF RowTypes, RequestTypes, PageTypes, Idle
<1>1. req' \in [Requests -> Req] BY DEF Req, Names, Pcs
<1>2. \A q \in Requests : req'[q] = IF q = r THEN [Idle EXCEPT !.kind = kind, !.pc = pc, !.user = cookie]
                                      ELSE req[q]
  OBVIOUS
<1> QED BY <1>1, <1>2

\* A request moves to a call that needs no more than the last one.
LEMMA GotoKeepsTypes ==
  ASSUME RequestTypes, NEW r \in Requests, NEW pc \in Pcs, req' = [req EXCEPT ![r].pc = pc], used' = used,
         pc \in {"cache", "row", "store", "drop", "tokens"} => req[r].user \in used,
         pc \in {"state", "redeem", "delete"} => req[r].auth \in Authorizations
  PROVE  RequestTypes'
<1> USE DEF RequestTypes
<1>1. req' \in [Requests -> Req] BY DEF Req
<1>2. \A q \in Requests : req'[q] = IF q = r THEN [req[r] EXCEPT !.pc = pc] ELSE req[q]
  OBVIOUS
<1>3. \A q \in Requests : req[q] \in Req /\ req'[q] \in Req BY <1>1
<1>4. \A q \in Requests \ {r} : req'[q] = req[q] BY <1>2
<1>5. req'[r].pc = pc /\ req'[r].user = req[r].user /\ req'[r].auth = req[r].auth
  BY <1>2, <1>3 DEF Req
<1> QED BY <1>1, <1>4, <1>5

\* A request that moves on with a new value or user is a request still.
LEMMA MovedIsReq ==
  ASSUME NEW f \in [Requests -> Req], NEW r \in Requests, NEW pc \in Pcs
  PROVE  /\ \A v \in Names : [f EXCEPT ![r].pc = pc, ![r].val = v] \in [Requests -> Req]
         /\ \A u \in Users : [f EXCEPT ![r].pc = pc, ![r].user = u] \in [Requests -> Req]
<1>1. f[r] \in Req OBVIOUS
<1>2. ASSUME NEW v \in Names PROVE [f[r] EXCEPT !.pc = pc, !.val = v] \in Req
  BY <1>1 DEF Req
<1>3. ASSUME NEW u \in Users PROVE [f[r] EXCEPT !.pc = pc, !.user = u] \in Req
  BY <1>1 DEF Req
<1>4. ASSUME NEW e \in Req PROVE [f EXCEPT ![r] = e] \in [Requests -> Req]
  OBVIOUS
<1>5. \A v \in Names : [f EXCEPT ![r].pc = pc, ![r].val = v]
                          = [f EXCEPT ![r] = [f[r] EXCEPT !.pc = pc, !.val = v]]
  OBVIOUS
<1>6. \A u \in Users : [f EXCEPT ![r].pc = pc, ![r].user = u]
                          = [f EXCEPT ![r] = [f[r] EXCEPT !.pc = pc, !.user = u]]
  OBVIOUS
<1> QED BY <1>2, <1>3, <1>4, <1>5, <1>6

-------------------------------------------------------------------------------
(* What the steps do to the requests.                                        *)

\* The request r has these fields after the step, and no other request has moved.
Becomes(r, k, p, u, v, a) ==
  /\ req'[r].kind = k /\ req'[r].pc = p /\ req'[r].user = u /\ req'[r].val = v
  /\ req'[r].auth = a
  /\ \A q \in Requests \ {r} : req'[q] = req[q]

LEMMA Moves ==
  ASSUME Types, NEW r \in Requests, NEW p, NEW v, NEW u, NEW k
  PROVE  /\ req' = [req EXCEPT ![r].pc = p]
              => Becomes(r, req[r].kind, p, req[r].user, req[r].val, req[r].auth)
         /\ req' = [req EXCEPT ![r].pc = p, ![r].val = v]
              => Becomes(r, req[r].kind, p, req[r].user, v, req[r].auth)
         /\ req' = [req EXCEPT ![r].pc = p, ![r].user = u]
              => Becomes(r, req[r].kind, p, u, req[r].val, req[r].auth)
         /\ req' = [req EXCEPT ![r] = [Idle EXCEPT !.kind = k, !.pc = p, !.user = u]]
              => Becomes(r, k, p, u, None, None)
         /\ req' = [req EXCEPT ![r] = [Idle EXCEPT !.kind = k, !.pc = p, !.auth = u]]
              => Becomes(r, k, p, None, None, u)
<1> USE DEF Becomes
<1>1. req \in [Requests -> Req] /\ req[r] \in Req BY DEF Types, RequestTypes
<1>3. ASSUME req' = [req EXCEPT ![r].pc = p]
      PROVE  Becomes(r, req[r].kind, p, req[r].user, req[r].val, req[r].auth)
  BY <1>1, <1>3 DEF Req
<1>4. ASSUME req' = [req EXCEPT ![r].pc = p, ![r].val = v]
      PROVE  Becomes(r, req[r].kind, p, req[r].user, v, req[r].auth)
  BY <1>1, <1>4 DEF Req
<1>5. ASSUME req' = [req EXCEPT ![r].pc = p, ![r].user = u]
      PROVE  Becomes(r, req[r].kind, p, u, req[r].val, req[r].auth)
  BY <1>1, <1>5 DEF Req
<1>6. ASSUME req' = [req EXCEPT ![r] = [Idle EXCEPT !.kind = k, !.pc = p, !.user = u]]
      PROVE  Becomes(r, k, p, u, None, None)
  BY <1>1, <1>6 DEF Idle
<1>7. ASSUME req' = [req EXCEPT ![r] = [Idle EXCEPT !.kind = k, !.pc = p, !.auth = u]]
      PROVE  Becomes(r, k, p, None, None, u)
  BY <1>1, <1>7 DEF Idle
<1> QED BY <1>3, <1>4, <1>5, <1>6, <1>7

\* A request about the account of the cookie's user starts.
Starts(r, k, p) ==
  /\ req[r] = Idle /\ cookie # None /\ Becomes(r, k, p, cookie, None, None)

\* A request goes on with another value or user.
GoesTo(r, p) == Becomes(r, req[r].kind, p, req[r].user, req[r].val, req[r].auth)
Takes(r, p, v) == Becomes(r, req[r].kind, p, req[r].user, v, req[r].auth)
IsAbout(r, p, u) == Becomes(r, req[r].kind, p, u, req[r].val, req[r].auth)

LEMMA PageEffects ==
  ASSUME Types, NEW r \in Requests
  PROVE  /\ OpenPage(r) \/ RetryPage(r) => Starts(r, "get", "cache")
         /\ Save(r) => Starts(r, "update", "row")
         /\ Saved(r) => Starts(r, "get", "cache") \/ UNCHANGED req
         /\ OtherTab(r) => Starts(r, "get", "cache") \/ Starts(r, "update", "row")
         /\ Delete(r) => Starts(r, "delete", "row")
<1>1. ASSUME NEW k, NEW p, Start(r, k, p) PROVE Starts(r, k, p)
  BY <1>1, Moves DEF Start, Starts
<1> QED BY <1>1 DEF OpenPage, RetryPage, Save, Saved, OtherTab, Delete

LEMMA AccountEffects ==
  ASSUME Types, NEW r \in Requests
  PROVE  /\ ReadCachedAccount(r) =>
              \/ Takes(r, "done", cache[req[r].user])
              \/ GoesTo(r, "row")
         /\ FindAccount(r) => GoesTo(r, "refused") \/ Takes(r, "store", name[req[r].user])
         /\ UpdateRow(r) => GoesTo(r, "refused") \/ Takes(r, "store", r)
         /\ StoreAccount(r) => GoesTo(r, "done") \/ GoesTo(r, "refused")
         /\ DeleteRow(r) => GoesTo(r, "refused") \/ GoesTo(r, "drop")
         /\ DropCachedAccount(r) => GoesTo(r, "done") \/ GoesTo(r, "refused")
         /\ Refuse(r) => GoesTo(r, "refused")
BY Moves
DEF Refuse, ReadCachedAccount, FindAccount,
    UpdateRow, StoreAccount, DeleteRow, Written, Doubt, DropCachedAccount, Goto,
    GoesTo, Takes

LEMMA SignInEffects ==
  ASSUME Types, NEW r \in Requests
  PROVE  /\ \A a \in Authorizations :
              Callback(r, a) => req[r] = Idle /\ Becomes(r, "callback", "state", None, None, a)
         /\ ReadState(r) => GoesTo(r, "redeem") \/ GoesTo(r, "refused")
         /\ RedeemCode(r) =>
              GoesTo(r, "refused") \/ Takes(r, "delete", IF code[req[r].auth] = "fresh" THEN GoogleName ELSE None)
         /\ DeleteState(r) => GoesTo(r, "find") \/ GoesTo(r, "refused")
         /\ FindUser(r) => GoesTo(r, "refused") \/ GoesTo(r, "create") \/ \E u \in Existing : IsAbout(r, "tokens", u)
         /\ CreateUser(r) =>
              GoesTo(r, "refused") \/ \E u \in Users \ used : IsAbout(r, "tokens", u)
         /\ GenerateToken(r) => GoesTo(r, "done") \/ GoesTo(r, "refused")
<1>1. ASSUME NEW a \in Authorizations, Callback(r, a)
      PROVE  req[r] = Idle /\ Becomes(r, "callback", "state", None, None, a)
  BY <1>1, Moves DEF Callback
<1>2. FindUser(r) => GoesTo(r, "refused") \/ GoesTo(r, "create") \/ \E u \in Existing : IsAbout(r, "tokens", u)
  BY Moves DEF FindUser, Goto, GoesTo, IsAbout
<1>3. CreateUser(r) =>
        GoesTo(r, "refused") \/ \E u \in Users \ used : IsAbout(r, "tokens", u)
  BY Moves DEF CreateUser, Created, Goto, GoesTo, IsAbout
<1>4. /\ ReadState(r) => GoesTo(r, "redeem") \/ GoesTo(r, "refused")
      /\ RedeemCode(r) =>
           GoesTo(r, "refused") \/ Takes(r, "delete", IF code[req[r].auth] = "fresh" THEN GoogleName ELSE None)
      /\ DeleteState(r) => GoesTo(r, "find") \/ GoesTo(r, "refused")
      /\ GenerateToken(r) => GoesTo(r, "done") \/ GoesTo(r, "refused")
  BY Moves DEF ReadState, RedeemCode, DeleteState, GenerateToken, Goto, GoesTo, Takes
<1> QED BY <1>1, <1>2, <1>3, <1>4

-------------------------------------------------------------------------------
(* Types.                                                                    *)

LEMMA TypesKept == Types /\ [Next]_vars => Types'
<1> SUFFICES ASSUME Types, [Next]_vars PROVE Types' OBVIOUS
<1> USE FaultAssumption, UsersAssumption, NoneAssumption, TwoFlags
<1>0. RowTypes /\ SignInTypes /\ RequestTypes /\ PageTypes /\ FaultTypes /\ HistoryTypes
  BY DEF Types
<1>1. CASE PageStep
  <2>0. ASSUME UNCHANGED <<Row, cache, SignIn, cookie, History>>, Calls \/ Fails
        PROVE  /\ RowTypes' /\ SignInTypes' /\ FaultTypes' /\ HistoryTypes'
               /\ (page \in Page)' => PageTypes' /\ used' = used
    BY <1>0, <2>0 DEF RowTypes, SignInTypes, FaultTypes, HistoryTypes, PageTypes, Row, SignIn,
       History, Calls, Fails
  <2> USE DEF Page, RequestOrNone, Calls
  <2>1. ASSUME NEW r \in Requests, OpenPage(r) PROVE Types'
    <3>1. RequestTypes' BY <1>0, <2>1, StartKeepsTypes DEF OpenPage, Start, Row
    <3>2. page' \in Page BY <1>0, <2>1 DEF OpenPage, PageTypes
    <3> QED BY <2>0, <2>1, <3>1, <3>2 DEF OpenPage, Types
  <2>2. ASSUME NEW r \in Requests, RetryPage(r) PROVE Types'
    <3>1. RequestTypes' BY <1>0, <2>2, StartKeepsTypes DEF RetryPage, Start, Row
    <3>2. page' \in Page BY <1>0, <2>2 DEF RetryPage, PageTypes
    <3> QED BY <2>0, <2>2, <3>1, <3>2 DEF RetryPage, Types
  <2>3. ASSUME NEW r \in Requests, Save(r) PROVE Types'
    <3>1. RequestTypes' BY <1>0, <2>3, StartKeepsTypes DEF Save, Start, Row
    <3>2. page' \in Page BY <1>0, <2>3 DEF Save, PageTypes
    <3> QED BY <2>0, <2>3, <3>1, <3>2 DEF Save, Types
  <2>4. ASSUME NEW r \in Requests, Saved(r) PROVE Types'
    <3>1. RequestTypes'
      BY <1>0, <2>4, StartKeepsTypes DEF Saved, RequestTypes, Start, Row
    <3>2. page' \in Page BY <1>0, <2>4 DEF Saved, PageTypes
    <3> QED BY <2>0, <2>4, <3>1, <3>2 DEF Saved, Types
  <2>5. ASSUME NEW r \in Requests, OtherTab(r) PROVE Types'
    <3>1. RequestTypes' BY <1>0, <2>5, StartKeepsTypes DEF OtherTab, Start, Row
    <3> QED BY <1>0, <2>0, <2>5, <3>1 DEF OtherTab, Types, PageTypes
  <2>6. CASE ReceiveAccount
    <3>1. page' \in Page BY <1>0, <2>6 DEF ReceiveAccount, PageTypes, RequestTypes, Req
    <3> QED BY <1>0, <2>0, <2>6, <3>1 DEF ReceiveAccount, RequestTypes, Types
  <2>7. CASE NotSaved
    <3>1. page' \in Page BY <1>0, <2>7 DEF NotSaved, PageTypes
    <3> QED BY <1>0, <2>0, <2>7, <3>1 DEF NotSaved, RequestTypes, Types
  <2> QED BY <1>1, <2>1, <2>2, <2>3, <2>4, <2>5, <2>6, <2>7 DEF PageStep
<1>a. ASSUME NEW r \in Requests, RedeemCode(r) PROVE req' \in [Requests -> Req]
  <2>1. req \in [Requests -> Req] BY <1>0 DEF RequestTypes
  <2>2. GoogleName \in Names /\ None \in Names BY DEF Names
  <2>3. CASE Goto(r, "refused") BY <2>1, <2>3, KnownPcs DEF Goto, Req
  <2>4. ASSUME NEW v \in Names, req' = [req EXCEPT ![r].pc = "delete", ![r].val = v]
        PROVE  req' \in [Requests -> Req]
    BY <2>1, <2>4, KnownPcs, MovedIsReq
  <2> QED BY <1>a, <2>2, <2>3, <2>4 DEF RedeemCode
<1>b. ASSUME NEW r \in Requests, FindUser(r) PROVE RequestTypes'
  <2>1. req \in [Requests -> Req] BY <1>0 DEF RequestTypes
  <2>2. CASE Goto(r, "create") \/ Goto(r, "refused")
    <3>1. req' \in [Requests -> Req] BY <2>1, <2>2, KnownPcs DEF Goto, Req
    <3>2. req'[r].pc \in {"create", "refused"} BY <2>1, <2>2 DEF Goto, Req
    <3>3. \A q \in Requests \ {r} : req'[q] = req[q] BY <2>1, <2>2 DEF Goto
    <3>4. used' = used BY <1>b DEF FindUser, Row
    <3> QED BY <1>0, <3>1, <3>2, <3>3, <3>4 DEF RequestTypes
  <2>3. ASSUME NEW u \in Existing, req' = [req EXCEPT ![r].pc = "tokens", ![r].user = u]
        PROVE  RequestTypes'
    <3>1. u \in Users /\ u \in used BY <1>0 DEF RowTypes, Existing
    <3>2. req' \in [Requests -> Req] BY <2>1, <2>3, <3>1, KnownPcs, MovedIsReq
    <3>3. req'[r].user = u /\ req'[r].pc = "tokens" /\ req'[r].auth = req[r].auth
      BY <2>1, <2>3 DEF Req
    <3>4. \A q \in Requests \ {r} : req'[q] = req[q] BY <2>1, <2>3
    <3>5. used' = used BY <1>b DEF FindUser, Row
    <3> QED BY <1>0, <3>1, <3>2, <3>3, <3>4, <3>5 DEF RequestTypes
  <2> QED BY <1>b, <2>2, <2>3 DEF FindUser
<1> USE DEF Types, RowTypes, SignInTypes, FaultTypes, HistoryTypes, RequestTypes, PageTypes,
            Row, SignIn, History, At, Calls, Fails
<1>2. CASE AccountStep
  <2> USE KnownPcs DEF Req, Names, Goto
  <2>1. ASSUME NEW r \in Requests, ReadCachedAccount(r) PROVE Types'
    BY <2>1 DEF ReadCachedAccount
  <2>2. ASSUME NEW r \in Requests, FindAccount(r) PROVE Types'
    BY <2>2 DEF FindAccount
  <2>0. ASSUME NEW r \in Requests, Refuse(r) PROVE Types'
    BY <2>0 DEF Refuse
  <2>3. ASSUME NEW r \in Requests, UpdateRow(r) PROVE Types'
    BY <2>3 DEF UpdateRow, Written, Doubt
  <2>4. ASSUME NEW r \in Requests, StoreAccount(r) PROVE Types'
    BY <2>4 DEF StoreAccount, Doubt
  <2>5. ASSUME NEW r \in Requests, DeleteRow(r) PROVE Types'
    BY <2>5 DEF DeleteRow, Written, Doubt, Running
  <2>6. ASSUME NEW r \in Requests, DropCachedAccount(r) PROVE Types'
    <3>1. page' \in Page BY <2>6, ClosedIsPage DEF DropCachedAccount
    <3>2. RequestTypes' BY <2>6 DEF DropCachedAccount
    <3>3. cookie' \in used' \union {None} /\ RowTypes' /\ SignInTypes' /\ HistoryTypes'
      BY <2>6 DEF DropCachedAccount, Doubt
    <3>4. FaultTypes' BY <2>6 DEF DropCachedAccount
    <3> QED BY <3>1, <3>2, <3>3, <3>4
  <2> QED BY <1>2, <2>0, <2>1, <2>2, <2>3, <2>4, <2>5, <2>6 DEF AccountStep, GetAccount, Refuse
<1>3. CASE OtherStep
  <2>1. ASSUME NEW r \in Requests, Delete(r) PROVE Types'
    <3>1. RequestTypes' BY <1>0, <2>1, StartKeepsTypes DEF Delete, Start
    <3> QED BY <2>1, <3>1 DEF Delete
  <2>3. ASSUME NEW u \in Users, ExpireAccount(u) PROVE Types'
    BY <2>3 DEF ExpireAccount, Names
  <2>4. ASSUME NEW a \in Authorizations, Authorize(a) PROVE Types' BY <2>4 DEF Authorize
  <2>5. ASSUME NEW a \in Authorizations, ExpireState(a) PROVE Types' BY <2>5 DEF ExpireState
  <2> QED BY <1>3, <2>1, <2>3, <2>4, <2>5 DEF OtherStep
<1>4. CASE \E r \in Requests : SignInStep(r)
  <2> USE KnownPcs DEF Req, Names, Goto
  <2>1. ASSUME NEW r \in Requests, NEW a \in Authorizations, Callback(r, a) PROVE Types'
    BY <2>1 DEF Callback, Idle
  <2>2. ASSUME NEW r \in Requests, ReadState(r) PROVE Types' BY <2>2 DEF ReadState
  <2>3. ASSUME NEW r \in Requests, RedeemCode(r) PROVE Types'
    <3>1. req' \in [Requests -> Req] BY <2>3, <1>a
    <3>2. RequestTypes' BY <2>3, <3>1 DEF RedeemCode
    <3> QED BY <2>3, <3>2 DEF RedeemCode
  <2>4. ASSUME NEW r \in Requests, DeleteState(r) PROVE Types' BY <2>4 DEF DeleteState
  <2>5. ASSUME NEW r \in Requests, FindUser(r) PROVE Types'
    <3>1. RequestTypes' BY <2>5, <1>b
    <3> QED BY <2>5, <3>1 DEF FindUser
  <2>6. ASSUME NEW r \in Requests, CreateUser(r) PROVE Types'
    BY <2>6 DEF CreateUser, Created, Existing, Running
  <2>7. ASSUME NEW r \in Requests, GenerateToken(r) PROVE Types'
    <3>1. page' \in Page BY <2>7, ClosedIsPage DEF GenerateToken
    <3>2. RequestTypes' BY <2>7 DEF GenerateToken
    <3>3. cookie' \in used \union {None} BY <2>7 DEF GenerateToken
    <3> QED BY <2>7, <3>1, <3>2, <3>3 DEF GenerateToken
  <2> QED BY <1>4, <2>1, <2>2, <2>3, <2>4, <2>5, <2>6, <2>7 DEF SignInStep
<1>5. CASE UNCHANGED vars BY <1>5 DEF vars
<1> QED BY <1>1, <1>2, <1>3, <1>4, <1>5, StepCases

OneEmail == \A u, v \in Users : name[u] # None /\ name[v] # None => u = v
StatesAreSent == \A a \in oauth : code[a] # "none"

LEMMA EmailKept == Types /\ OneEmail /\ [Next]_vars => OneEmail'
<1> SUFFICES ASSUME Types, OneEmail, [Next]_vars PROVE OneEmail' OBVIOUS
<1> USE NoneAssumption DEF OneEmail, Types, RowTypes, Row
<1>1. ASSUME UNCHANGED name PROVE OneEmail' BY <1>1
<1>2. CASE PageStep
  BY <1>1, <1>2 DEF PageStep, OpenPage, RetryPage, Save, Saved, OtherTab, ReceiveAccount, NotSaved
<1>3. CASE AccountStep
  <2>1. ASSUME NEW r \in Requests, UpdateRow(r) PROVE OneEmail'
    BY <2>1 DEF UpdateRow, Written, Doubt
  <2>2. ASSUME NEW r \in Requests, DeleteRow(r) PROVE OneEmail'
    BY <2>2 DEF DeleteRow, Written, Doubt
  <2> QED
    BY <1>1, <1>3, <2>1, <2>2
    DEF AccountStep, GetAccount, Refuse, ReadCachedAccount, FindAccount, StoreAccount, Doubt, DropCachedAccount
<1>4. CASE OtherStep
  BY <1>1, <1>4 DEF OtherStep, Delete, ExpireAccount, Authorize, ExpireState
<1>5. CASE \E r \in Requests : SignInStep(r)
  <2>1. ASSUME NEW r \in Requests, CreateUser(r) PROVE OneEmail'
    BY <2>1 DEF CreateUser, Created, Existing
  <2> QED
    BY <1>1, <1>5, <2>1
    DEF SignInStep, Callback, ReadState, RedeemCode, DeleteState, FindUser, GenerateToken
<1>6. CASE UNCHANGED vars BY <1>1, <1>6 DEF vars
<1> QED BY <1>2, <1>3, <1>4, <1>5, <1>6, StepCases

LEMMA StatesKept == Types /\ StatesAreSent /\ [Next]_vars => StatesAreSent'
<1> SUFFICES ASSUME Types, StatesAreSent, [Next]_vars PROVE StatesAreSent' OBVIOUS
<1> USE DEF StatesAreSent, Types, SignInTypes, SignIn
<1>1. ASSUME UNCHANGED code, oauth' \subseteq oauth PROVE StatesAreSent' BY <1>1
<1>2. CASE PageStep
  BY <1>1, <1>2 DEF PageStep, OpenPage, RetryPage, Save, Saved, OtherTab, ReceiveAccount, NotSaved
<1>3. CASE AccountStep
  BY <1>1, <1>3
  DEF AccountStep, GetAccount, Refuse, ReadCachedAccount, FindAccount,
      UpdateRow, StoreAccount, DeleteRow, Written, Doubt,
      DropCachedAccount
<1>4. CASE OtherStep
  <2>1. ASSUME NEW a \in Authorizations, Authorize(a) PROVE StatesAreSent'
    BY <2>1 DEF Authorize
  <2> QED BY <1>1, <1>4, <2>1 DEF OtherStep, Delete, ExpireAccount, ExpireState
<1>5. CASE \E r \in Requests : SignInStep(r)
  <2>1. ASSUME NEW r \in Requests, RedeemCode(r) PROVE StatesAreSent'
    BY <2>1 DEF RedeemCode
  <2> QED
    BY <1>1, <1>5, <2>1
    DEF SignInStep, Callback, ReadState, DeleteState, FindUser, CreateUser, Created, GenerateToken
<1>6. CASE UNCHANGED vars BY <1>1, <1>6 DEF vars
<1> QED BY <1>2, <1>3, <1>4, <1>5, <1>6, StepCases

LEMMA AtMostOne == Types /\ OneEmail => Cardinality(Existing) <= 1
<1> SUFFICES ASSUME Types, OneEmail PROVE Cardinality(Existing) <= 1 OBVIOUS
<1>1. CASE Existing = {} BY <1>1, FS_EmptySet
<1>2. ASSUME NEW u \in Existing PROVE Cardinality(Existing) <= 1
  <2>1. Existing = {u} BY <1>2 DEF Existing, OneEmail
  <2> QED BY <2>1, FS_Singleton
<1> QED BY <1>1, <1>2

\* Every variable keeps its type, and a person never has two accounts: the email of
\* a row is unique (auth.service.ts 252-288, schema.prisma).
THEOREM TypeCorrect == Spec => []TypeOK
<1> DEFINE Inv == Types /\ OneEmail /\ StatesAreSent
<1>1. Init => Inv
  BY InitTypes DEF Init, OneEmail, StatesAreSent
<1>2. Inv /\ [Next]_vars => Inv' BY TypesKept, EmailKept, StatesKept
<1>3. Inv => TypeOK
  <2> SUFFICES ASSUME Inv PROVE TypeOK OBVIOUS
  <2>1. Cardinality(Existing) <= 1 BY AtMostOne
  <2>2. Existing \subseteq used /\ \A u \in Users : cache[u] # None => u \in used
    BY DEF Existing, Types, RowTypes
  <2>3. oauth \subseteq {a \in Authorizations : code[a] # "none"}
    BY DEF Types, SignInTypes, StatesAreSent
  <2>5. page.info \in Names /\ {page.get, page.save, page.saved, page.got} \subseteq Requests \union {None}
    BY DEF Types, PageTypes, Page, RequestOrNone
  <2> QED
    BY <2>1, <2>2, <2>3, <2>5, Zenon DEF TypeOK, Types, RowTypes, PageTypes, FaultTypes
<1> QED BY <1>1, <1>2, <1>3, PTL DEF Spec

-------------------------------------------------------------------------------
(* The cached account.                                                       *)

\* What a request is about to store is the row, unless the user is a suspect.
StoresAreCurrent ==
  \A r \in Requests : req[r].pc = "store" /\ req[r].user \notin suspect
                         => req[r].val = name[req[r].user]

CacheInv == StoresAreCurrent /\ CacheIsCurrent

\* A step that leaves rows, cache and the calls that write the cache alone.
Quiet ==
  /\ UNCHANGED <<name, cache, suspect>>
  /\ \A q \in Requests :
       \/ req'[q] = req[q]
       \/ req[q].pc \notin {"store", "drop"} /\ req'[q].pc \notin {"store", "drop"}

LEMMA QuietKeepsCache == CacheInv /\ Quiet => CacheInv'
BY DEF CacheInv, StoresAreCurrent, CacheIsCurrent, Quiet

\* What EXCEPT does to the request that moves and to the others.
LEMMA OneRequestMoves ==
  ASSUME NEW f \in [Requests -> Req], NEW r \in Requests, NEW pc, NEW v, NEW u, NEW e
  PROVE  /\ \A q \in Requests \ {r} :
              /\ [f EXCEPT ![r] = e][q] = f[q]
              /\ [f EXCEPT ![r].pc = pc][q] = f[q]
              /\ [f EXCEPT ![r].pc = pc, ![r].val = v][q] = f[q]
              /\ [f EXCEPT ![r].pc = pc, ![r].user = u][q] = f[q]
         /\ [f EXCEPT ![r] = e][r] = e
         /\ [f EXCEPT ![r].pc = pc][r].pc = pc
         /\ [f EXCEPT ![r].pc = pc][r].user = f[r].user
         /\ [f EXCEPT ![r].pc = pc, ![r].val = v][r].pc = pc
         /\ [f EXCEPT ![r].pc = pc, ![r].val = v][r].val = v
         /\ [f EXCEPT ![r].pc = pc, ![r].val = v][r].user = f[r].user
         /\ [f EXCEPT ![r].pc = pc, ![r].user = u][r].pc = pc
BY DEF Req

LEMMA StartIsQuiet ==
  ASSUME Types, NEW r \in Requests, NEW kind, NEW pc \in {"cache", "row"},
         req[r] = Idle, UNCHANGED <<name, cache, suspect>>,
         req' = [req EXCEPT ![r] = [Idle EXCEPT !.kind = kind, !.pc = pc, !.user = cookie]]
  PROVE  Quiet
<1>1. req'[r].pc = pc /\ \A q \in Requests \ {r} : req'[q] = req[q]
  BY DEF Types, RequestTypes, Idle
<1> QED BY <1>1 DEF Quiet, Idle

\* A request moves on: what it may do to the row and the cached account of its user.
LEMMA CacheStep ==
  ASSUME CacheInv, NEW r \in Requests, NEW u \in Users,
         req[r].user = u, req'[r].user = u, \A q \in Requests \ {r} : req'[q] = req[q],
         \A q \in Requests : req[q].pc = "store" => req[q].user \in Users,
         suspect \subseteq suspect',
         \A v \in Users \ {u} : name'[v] = name[v] /\ cache'[v] = cache[v],
         name'[u] = name[u] \/ u \in suspect'
           \/ \A q \in Requests \ {r} : req[q].pc = "store" => req[q].user # u,
         req'[r].pc = "store" /\ u \notin suspect' => req'[r].val = name'[u],
         \/ u \in suspect' \/ cache'[u] \in {None, name'[u]} \/ req'[r].pc \in {"store", "drop"}
         \/ name'[u] = name[u] /\ cache'[u] = cache[u] /\ req[r].pc \notin {"store", "drop"}
  PROVE  CacheInv'
<1>1. ASSUME NEW q \in Requests, req'[q].pc = "store", req'[q].user \notin suspect'
      PROVE  req'[q].val = name'[req'[q].user]
  BY <1>1 DEF CacheInv, StoresAreCurrent
<1>2. CacheIsCurrent' BY DEF CacheInv, CacheIsCurrent
<1> QED BY <1>1, <1>2 DEF CacheInv, StoresAreCurrent

LEMMA CacheKept == Types /\ CacheInv /\ [Next]_vars => CacheInv'
<1> SUFFICES ASSUME Types, CacheInv, [Next]_vars PROVE CacheInv' OBVIOUS
<1>0. req \in [Requests -> Req] /\ name \in [Users -> Names] /\ cache \in [Users -> Names]
      /\ suspect \in SUBSET Users /\ used \in SUBSET Users /\ \A v \in used : v \in Users
      /\ \A u \in Users \ used : cache[u] = None
  BY DEF Types, RowTypes, RequestTypes, HistoryTypes
<1>u. ASSUME NEW q \in Requests,
             req[q].pc = "row" \/ req[q].pc = "store" \/ req[q].pc = "drop"
      PROVE  req[q].user \in used /\ req[q].user \in Users
  BY <1>0, <1>u DEF Types, RequestTypes
<1>1. CASE UNCHANGED <<name, cache, suspect, req>> BY <1>1, QuietKeepsCache DEF Quiet
<1>2. CASE PageStep
  <2>1. CASE \E r \in Requests : OpenPage(r) \/ RetryPage(r) \/ Save(r) \/ OtherTab(r)
    BY <2>1, StartIsQuiet, QuietKeepsCache
    DEF OpenPage, RetryPage, Save, OtherTab, Start, Row, History
  <2>2. ASSUME NEW r \in Requests, Saved(r) PROVE CacheInv'
    BY <1>1, <2>2, StartIsQuiet, QuietKeepsCache DEF Saved, Start, Row, History
  <2>3. CASE ReceiveAccount \/ NotSaved
    BY <1>1, <2>3 DEF ReceiveAccount, NotSaved, Row, History
  <2> QED BY <1>2, <2>1, <2>2, <2>3 DEF PageStep
<1>3. CASE AccountStep
  <2> SUFFICES ASSUME NEW r \in Requests,
                      Refuse(r) \/ GetAccount(r) \/ UpdateRow(r) \/ StoreAccount(r) \/ DeleteRow(r)
                        \/ DropCachedAccount(r)
               PROVE  CacheInv'
    BY <1>3 DEF AccountStep
  <2> DEFINE u == req[r].user
  <2>1. CASE Refuse(r) \/ ReadCachedAccount(r)
    <3>1. req'[r].pc \in {"refused", "done", "row"} /\ \A q \in Requests \ {r} : req'[q] = req[q]
      BY <2>1, AccountEffects DEF GoesTo, Takes, Becomes
    <3> QED
      BY <2>1, <3>1, QuietKeepsCache DEF Refuse, ReadCachedAccount, At, Quiet, Row, History
  <2>2. CASE FindAccount(r)
    <3>1. req[r].pc = "row" /\ UNCHANGED <<name, cache, suspect>>
      BY <2>2 DEF FindAccount, At, Row, History
    <3>2. GoesTo(r, "refused") \/ Takes(r, "store", name[u]) BY <2>2, AccountEffects
    <3> QED BY <1>u, <3>1, <3>2, CacheStep DEF GoesTo, Takes, Becomes
  <2>3. CASE UpdateRow(r)
    <3>1. req[r].pc = "row" /\ cache' = cache BY <2>3 DEF UpdateRow, At
    <3>2. u \in Users BY <1>u, <3>1
    <3>3. CASE Goto(r, "refused") /\ UNCHANGED <<name, suspect>>
      <4>1. GoesTo(r, "refused") BY <3>3, Moves DEF Goto, GoesTo
      <4> QED BY <3>1, <3>2, <3>3, <4>1, <1>u, CacheStep DEF GoesTo, Becomes
    <3>4. CASE name' = [name EXCEPT ![u] = r] /\ Written(r, req' = [req EXCEPT ![r].pc = "store", ![r].val = r])
      <4>1. name'[u] = r /\ \A v \in Users \ {u} : name'[v] = name[v] BY <1>0, <3>2, <3>4
      <4>2. suspect \subseteq suspect' /\ (u \notin suspect' => Holders(u) = {})
        BY <3>4 DEF Written, Doubt
      <4>3. Takes(r, "store", r) \/ (GoesTo(r, "refused") /\ (u \notin suspect' => cache[u] = None))
        BY <3>4, Moves DEF Written, Doubt, Goto, GoesTo, Takes
      <4> QED BY <1>0, <3>1, <3>2, <4>1, <4>2, <4>3, <1>u, CacheStep DEF GoesTo, Takes, Becomes, Holders
    <3> QED BY <2>3, <3>3, <3>4 DEF UpdateRow
  <2>4. CASE StoreAccount(r)
    <3>1. req[r].pc = "store" /\ name' = name BY <2>4 DEF StoreAccount, Row
    <3>2. u \in Users BY <1>u, <3>1
    <3>3. \A v \in Users \ {u} : cache'[v] = cache[v] BY <1>0, <2>4 DEF StoreAccount
    <3>4. suspect \subseteq suspect' BY <2>4 DEF StoreAccount, Doubt
    <3>5. u \notin suspect' => cache'[u] \in {None, name[u]}
      BY <1>0, <2>4, <3>2 DEF StoreAccount, Doubt, CacheInv, StoresAreCurrent
    <3>6. GoesTo(r, "done") \/ GoesTo(r, "refused") BY <2>4, AccountEffects
    <3> QED BY <3>1, <3>2, <3>3, <3>4, <3>5, <3>6, <1>u, CacheStep DEF GoesTo, Becomes
  <2>5. CASE DeleteRow(r)
    <3>1. req[r].pc = "row" /\ cache' = cache BY <2>5 DEF DeleteRow, At
    <3>2. u \in Users BY <1>u, <3>1
    <3>3. CASE Goto(r, "refused") /\ UNCHANGED <<name, suspect>>
      <4>1. GoesTo(r, "refused") BY <3>3, Moves DEF Goto, GoesTo
      <4> QED BY <3>1, <3>2, <3>3, <4>1, <1>u, CacheStep DEF GoesTo, Becomes
    <3>4. CASE name' = [name EXCEPT ![u] = None] /\ Written(r, Goto(r, "drop"))
      <4>1. \A v \in Users \ {u} : name'[v] = name[v] BY <1>0, <3>2, <3>4
      <4>2. suspect \subseteq suspect' /\ (u \notin suspect' => Holders(u) = {})
        BY <3>4 DEF Written, Doubt
      <4>3. GoesTo(r, "drop") \/ (GoesTo(r, "refused") /\ (u \notin suspect' => cache[u] = None))
        BY <3>4, Moves DEF Written, Doubt, Goto, GoesTo
      <4> QED BY <1>0, <3>1, <3>2, <4>1, <4>2, <4>3, <1>u, CacheStep DEF GoesTo, Becomes, Holders
    <3> QED BY <2>5, <3>3, <3>4 DEF DeleteRow
  <2>6. CASE DropCachedAccount(r)
    <3>1. req[r].pc = "drop" /\ name' = name BY <2>6 DEF DropCachedAccount, Doubt, At, Row
    <3>2. u \in Users BY <1>u, <3>1
    <3>3. \A v \in Users \ {u} : cache'[v] = cache[v] BY <1>0, <2>6 DEF DropCachedAccount
    <3>4. suspect \subseteq suspect' BY <2>6 DEF DropCachedAccount, Doubt
    <3>5. u \notin suspect' => cache'[u] = None BY <1>0, <2>6, <3>2 DEF DropCachedAccount, Doubt
    <3>6. GoesTo(r, "done") \/ GoesTo(r, "refused") BY <2>6, AccountEffects
    <3> QED BY <3>1, <3>2, <3>3, <3>4, <3>5, <3>6, <1>u, CacheStep DEF GoesTo, Becomes
  <2> QED BY <2>1, <2>2, <2>3, <2>4, <2>5, <2>6 DEF GetAccount
<1>4. CASE OtherStep
  <2>1. ASSUME NEW r \in Requests, Delete(r) PROVE CacheInv'
    BY <1>1, <2>1, StartIsQuiet, QuietKeepsCache DEF Delete, Start, Row, History
  <2>2. ASSUME NEW u \in Users, ExpireAccount(u) PROVE CacheInv'
    <3>1. UNCHANGED <<name, req>> /\ cache'[u] = None /\ \A v \in Users \ {u} : cache'[v] = cache[v]
      BY <1>0, <2>2 DEF ExpireAccount, Row
    <3>2. \A q \in Requests : req[q].pc = "store" /\ req[q].user \notin suspect'
                                => req[q].user \notin suspect
      BY <2>2 DEF ExpireAccount, Holders
    <3>3. \A v \in Users \ {u} : v \notin suspect' => v \notin suspect BY <2>2 DEF ExpireAccount
    <3> QED BY <3>1, <3>2, <3>3 DEF CacheInv, StoresAreCurrent, CacheIsCurrent
  <2>3. CASE \E a \in Authorizations : Authorize(a) \/ ExpireState(a)
    BY <1>1, <2>3 DEF Authorize, ExpireState, Row, History
  <2> QED BY <1>4, <2>1, <2>2, <2>3 DEF OtherStep
<1>5. CASE \E r \in Requests : SignInStep(r)
  <2> SUFFICES ASSUME NEW r \in Requests, SignInStep(r) PROVE CacheInv' BY <1>5
  <2>1. ASSUME NEW a \in Authorizations, Callback(r, a) PROVE CacheInv'
    <3>1. req'[r].pc = "state" /\ \A q \in Requests \ {r} : req'[q] = req[q]
      BY <2>1, SignInEffects DEF Becomes
    <3> QED BY <2>1, <3>1, QuietKeepsCache DEF Callback, Quiet, Idle, Row, History
  <2>2. CASE ReadState(r) \/ RedeemCode(r) \/ DeleteState(r) \/ FindUser(r) \/ GenerateToken(r)
    <3>1. /\ req'[r].pc \in {"redeem", "refused", "delete", "find", "create", "tokens", "done"}
          /\ \A q \in Requests \ {r} : req'[q] = req[q]
      BY <2>2, SignInEffects DEF GoesTo, Takes, IsAbout, Becomes
    <3>2. UNCHANGED <<name, cache, suspect>>
      BY <2>2 DEF ReadState, RedeemCode, DeleteState, FindUser, GenerateToken, Row, History
    <3>3. req[r].pc \notin {"store", "drop"}
      BY <2>2 DEF ReadState, RedeemCode, DeleteState, FindUser, GenerateToken, At
    <3> QED BY <3>1, <3>2, <3>3, QuietKeepsCache DEF Quiet
  <2>5. CASE CreateUser(r)
    <3>1. CASE Goto(r, "refused") /\ UNCHANGED name
      <4>1. req'[r].pc = "refused" /\ \A q \in Requests \ {r} : req'[q] = req[q]
        BY <1>0, <3>1, OneRequestMoves DEF Goto
      <4> QED BY <2>5, <3>1, <4>1, QuietKeepsCache DEF CreateUser, At, Quiet
    <3>2. ASSUME NEW u \in Users \ used, name' = [name EXCEPT ![u] = GoogleName]
          PROVE  CacheInv'
      <4>1. /\ req'[r].pc \in {"tokens", "refused"}
            /\ \A q \in Requests \ {r} : req'[q] = req[q]
        BY <2>5, SignInEffects DEF GoesTo, IsAbout, Becomes
      <4>2. \A v \in Users \ {u} : name'[v] = name[v] BY <1>0, <3>2
      <4>0. cache[u] = None BY ONLY Types, <3>2, Zenon DEF Types, RowTypes
      <4>3. UNCHANGED <<cache, suspect>> /\ cache[u] = None /\ req[r].pc = "create"
        BY <2>5, <4>0 DEF CreateUser, Created, At
      <4>4. \A q \in Requests : req[q].pc = "store" \/ req[q].pc = "drop" => req[q].user # u
        BY <1>u
      <4>5. ASSUME NEW q \in Requests, req'[q].pc = "store", req'[q].user \notin suspect'
            PROVE  req'[q].val = name'[req'[q].user]
        <5>1. q # r BY <4>1, <4>5
        <5>2. req'[q] = req[q] BY <4>1, <5>1
        <5>3. req[q].user \in Users \ {u} BY <1>u, <4>4, <4>5, <5>2
        <5> QED BY <4>2, <4>3, <4>5, <5>2, <5>3 DEF CacheInv, StoresAreCurrent
      <4>6. CacheIsCurrent'
        BY <1>0, <4>1, <4>2, <4>3, <4>4 DEF CacheInv, CacheIsCurrent
      <4> QED BY <4>5, <4>6 DEF CacheInv, StoresAreCurrent
    <3> QED BY <2>5, <3>1, <3>2 DEF CreateUser, Created, Row
  <2> QED BY <2>1, <2>2, <2>5 DEF SignInStep
<1>6. CASE UNCHANGED vars BY <1>1, <1>6 DEF vars
<1> QED BY <1>2, <1>3, <1>4, <1>5, <1>6, StepCases

\* Between requests that write, the cached account is the row or nothing, but for the
\* exceptions that CacheIsCurrent names: for any number of readers, updates, deletions,
\* evictions and failed calls (accounts.service.ts).
THEOREM CacheStaysCurrent == Spec => []CacheIsCurrent
<1>1. Init => CacheInv
  BY DEF Init, CacheInv, StoresAreCurrent, CacheIsCurrent, Idle
<1>2. Init => Types BY InitTypes
<1>3. Types /\ [Next]_vars => Types' BY TypesKept
<1>4. Types /\ CacheInv /\ [Next]_vars => CacheInv' BY CacheKept
<1>5. CacheInv => CacheIsCurrent BY DEF CacheInv
<1> QED BY <1>1, <1>2, <1>3, <1>4, <1>5, PTL DEF Spec

-------------------------------------------------------------------------------
(* Sign-in.                                                                  *)

\* What a request is about fits the calls it makes.
KindsInv ==
  \A q \in Requests :
    /\ IF req[q].kind = "callback" THEN req[q].auth \in Authorizations ELSE req[q].auth = None
    /\ req[q].pc \in {"cache", "row", "store", "drop"}
         => req[q].kind \in {"get", "update", "delete"}
    /\ req[q].pc \in {"state", "redeem", "delete", "find", "create", "tokens"}
         => req[q].kind = "callback"

LEMMA KindsKept == Types /\ KindsInv /\ [Next]_vars => KindsInv'
<1> SUFFICES ASSUME Types, KindsInv, [Next]_vars PROVE KindsInv' OBVIOUS
<1>1. CASE UNCHANGED req BY <1>1 DEF KindsInv
<1>2. ASSUME NEW r \in Requests, NEW k \in {"get", "update", "delete"}, NEW p \in {"cache", "row"},
             Starts(r, k, p)
      PROVE  KindsInv'
  BY <1>2 DEF KindsInv, Starts, Becomes
<1>3. CASE PageStep
  <2>1. CASE \E r \in Requests : OpenPage(r) \/ RetryPage(r) \/ Save(r) \/ Saved(r) \/ OtherTab(r)
    BY <1>1, <1>2, <2>1, PageEffects
  <2>2. CASE ReceiveAccount \/ NotSaved BY <1>1, <2>2 DEF ReceiveAccount, NotSaved
  <2> QED BY <1>3, <2>1, <2>2 DEF PageStep
<1>4. CASE AccountStep
  <2> SUFFICES ASSUME NEW r \in Requests,
                      Refuse(r) \/ GetAccount(r) \/ UpdateRow(r) \/ StoreAccount(r) \/ DeleteRow(r)
                        \/ DropCachedAccount(r)
               PROVE  KindsInv'
    BY <1>4 DEF AccountStep
  <2>1. req[r].pc \in {"cache", "row", "store", "drop"}
    BY DEF GetAccount, Refuse, ReadCachedAccount, FindAccount,
           UpdateRow, StoreAccount, DeleteRow, Written, Doubt,
           DropCachedAccount, At
  <2>2. \E p \in {"done", "row", "refused", "store", "drop"} : \E v :
          Becomes(r, req[r].kind, p, req[r].user, v, req[r].auth)
    BY AccountEffects DEF GetAccount, Refuse, GoesTo, Takes
  <2> QED BY <2>1, <2>2 DEF KindsInv, Becomes
<1>5. CASE OtherStep
  <2>1. ASSUME NEW r \in Requests, Delete(r) PROVE KindsInv'
    BY <1>1, <1>2, <2>1, PageEffects
  <2> QED BY <1>1, <1>5, <2>1 DEF OtherStep, ExpireAccount, Authorize, ExpireState
<1>6. CASE \E r \in Requests : SignInStep(r)
  <2> SUFFICES ASSUME NEW r \in Requests, SignInStep(r) PROVE KindsInv' BY <1>6
  <2>1. ASSUME NEW a \in Authorizations, Callback(r, a) PROVE KindsInv'
    BY <2>1, SignInEffects DEF KindsInv, Becomes
  <2>2. CASE ReadState(r) \/ RedeemCode(r) \/ DeleteState(r) \/ FindUser(r) \/ CreateUser(r)
               \/ GenerateToken(r)
    <3>1. req[r].kind = "callback"
      BY <2>2
      DEF ReadState, RedeemCode, DeleteState, FindUser, CreateUser, Created, GenerateToken, At
    <3>2. \E p \in {"redeem", "refused", "delete", "find", "create", "tokens", "done"} : \E u, v :
            Becomes(r, req[r].kind, p, u, v, req[r].auth)
      BY <2>2, SignInEffects DEF GoesTo, Takes, IsAbout
    <3> QED BY <3>1, <3>2 DEF KindsInv, Becomes
  <2> QED BY <2>1, <2>2 DEF SignInStep
<1>7. CASE UNCHANGED vars BY <1>1, <1>7 DEF vars
<1> QED BY <1>3, <1>4, <1>5, <1>6, <1>7, StepCases

-------------------------------------------------------------------------------
(* Who comes back from Google.                                               *)

\* The exceptions of OnlyCrossedSignInsFail.
Excused(r) ==
  \/ req[r].auth \in late \/ r \in moved \/ faults > 0
  \/ \E q \in Requests \ {r} : req[q].auth = req[r].auth

\* Nothing has come in the way of the callback r.
Straight(r) ==
  /\ req[r].pc \in {"state", "redeem"} => code[req[r].auth] = "fresh"
  /\ req[r].pc = "state" => req[r].auth \in oauth
  /\ req[r].pc = "delete" => req[r].val # None
  /\ req[r].pc = "create" => Existing = {}
  /\ req[r].pc = "tokens" => req[r].user \in Existing
  /\ req[r].pc # "refused"

\* A code that no callback has brought is there to be redeemed, and so is its state, until
\* it expires.
CallbackInv ==
  /\ \A r \in Requests : req[r].kind = "callback" /\ ~Excused(r) => Straight(r)
  /\ \A a \in Authorizations :
       (\A q \in Requests : req[q].auth # a) =>
         code[a] # "used" /\ (code[a] = "fresh" => a \in oauth \union late)

\* What a step must leave alone if it is not about a callback: the codes, the states and
\* the account, unless the callbacks that run are told.
Aside ==
  /\ \A q \in Requests : req'[q].auth = req[q].auth
  /\ \A q \in Requests : req[q].kind = "callback" \/ req'[q].kind = "callback" => req'[q] = req[q]
  /\ UNCHANGED <<code, oauth, late>> /\ moved \subseteq moved' /\ (faults > 0 => faults' > 0)
  /\ \/ Existing' = Existing
     \/ \A q \in Requests : Running(q) => q \in moved'

LEMMA AsideKeepsCallbacks == CallbackInv /\ Aside => CallbackInv'
<1> SUFFICES ASSUME CallbackInv, Aside PROVE CallbackInv' OBVIOUS
<1>1. ASSUME NEW r \in Requests, req'[r].kind = "callback", ~Excused(r)' PROVE Straight(r)'
  <2>1. req'[r] = req[r] BY <1>1 DEF Aside
  <2>2. ~Excused(r) BY <1>1 DEF Aside, Excused
  <2>3. Straight(r) BY <1>1, <2>1, <2>2 DEF CallbackInv
  <2>4. CASE Existing' = Existing
    BY <2>1, <2>3, <2>4 DEF Straight, Aside
  <2>5. CASE \A q \in Requests : Running(q) => q \in moved'
    <3>1. ~Running(r) BY <1>1, <2>5 DEF Excused
    <3> QED BY <2>1, <2>3, <3>1 DEF Straight, Running
  <2> QED BY <2>4, <2>5 DEF Aside
<1> QED BY <1>1 DEF CallbackInv, Aside

LEMMA StartIsAside ==
  ASSUME KindsInv, NEW r \in Requests, NEW k \in {"get", "update", "delete"}, NEW p,
         Starts(r, k, p) \/ UNCHANGED req, UNCHANGED <<name, code, oauth, late, moved>>,
         faults > 0 => faults' > 0
  PROVE  Aside
BY NoneAssumption DEF Aside, Starts, Becomes, Idle, Existing

\* A step of the callback r, which others with its code do not survive.
LEMMA CallbackMoves ==
  ASSUME Types, CallbackInv, NEW r \in Requests, req'[r].auth = req[r].auth,
         req[r].kind = "callback", faults' \in Nat, req[r].auth \in Authorizations,
         \A q \in Requests \ {r} : req'[q] = req[q],
         \A a \in Authorizations \ {req[r].auth} :
           code'[a] = code[a] /\ (a \in oauth' <=> a \in oauth),
         late' = late, moved \subseteq moved', faults > 0 => faults' > 0,
         \/ Existing' = Existing
         \/ \A q \in Requests \ {r} : Running(q) => q \in moved',
         ~Excused(r) /\ Straight(r) /\ faults' = 0 => Straight(r)'
  PROVE  CallbackInv'
<1>1. ASSUME NEW q \in Requests, req'[q].kind = "callback", ~Excused(q)' PROVE Straight(q)'
  <2>1. ~Excused(q) BY <1>1 DEF Excused
  <2>2. CASE q = r
    <3>1. faults' = 0 BY <1>1 DEF Excused
    <3> QED BY <1>1, <2>1, <2>2, <3>1 DEF CallbackInv
  <2>3. CASE q # r
    <3>1. req'[q] = req[q] /\ req[q].auth # req[r].auth BY <1>1, <2>3 DEF Excused
    <3>2. Straight(q) BY <1>1, <2>1, <3>1 DEF CallbackInv
    <3>3. req[q].pc \in {"state", "redeem"} => req[q].auth \in Authorizations \ {req[r].auth}
      BY <1>1, <3>1 DEF Types, RequestTypes
    <3>4. CASE Existing' = Existing
      BY <3>1, <3>2, <3>3, <3>4 DEF Straight
    <3>5. CASE \A p \in Requests \ {r} : Running(p) => p \in moved'
      <4>1. ~Running(q) BY <1>1, <2>3, <3>5 DEF Excused
      <4> QED BY <3>1, <3>2, <4>1 DEF Straight, Running
    <3> QED BY <3>4, <3>5
  <2> QED BY <2>2, <2>3
<1> QED BY <1>1 DEF CallbackInv

LEMMA CallbacksKept == Types /\ KindsInv /\ CallbackInv /\ [Next]_vars => CallbackInv'
<1> SUFFICES ASSUME Types, KindsInv, CallbackInv, [Next]_vars PROVE CallbackInv' OBVIOUS
<1>f. faults \in Nat /\ moved \in SUBSET Requests BY DEF Types, FaultTypes, HistoryTypes
<1>0. ASSUME UNCHANGED <<req, name, code, oauth, late, moved>>, faults > 0 => faults' > 0
      PROVE  CallbackInv'
  BY <1>0, AsideKeepsCallbacks DEF Aside, Existing
<1>1. CASE PageStep
  <2>1. CASE \E r \in Requests : OpenPage(r) \/ RetryPage(r) \/ Save(r) \/ Saved(r) \/ OtherTab(r)
    <3>1. PICK r \in Requests : OpenPage(r) \/ RetryPage(r) \/ Save(r) \/ Saved(r) \/ OtherTab(r)
      BY <2>1
    <3>2. UNCHANGED <<name, code, oauth, late, moved, faults>>
      BY <3>1 DEF OpenPage, RetryPage, Save, Saved, OtherTab, Row, SignIn, History
    <3>3. \E k \in {"get", "update", "delete"} : \E p : Starts(r, k, p) \/ UNCHANGED req
      BY <3>1, PageEffects
    <3> QED BY <3>2, <3>3, StartIsAside, AsideKeepsCallbacks
  <2>2. CASE ReceiveAccount \/ NotSaved
    <3>1. UNCHANGED <<req, name, code, oauth, late, moved>>
      BY <2>2 DEF ReceiveAccount, NotSaved, Row, SignIn, History
    <3>2. faults > 0 => faults' > 0 BY <1>f, <2>2 DEF ReceiveAccount, NotSaved, Calls, Fails
    <3> QED BY <1>0, <3>1, <3>2
  <2> QED BY <1>1, <2>1, <2>2 DEF PageStep
<1>2. CASE AccountStep
  <2> SUFFICES ASSUME NEW r \in Requests,
                      Refuse(r) \/ GetAccount(r) \/ UpdateRow(r) \/ StoreAccount(r) \/ DeleteRow(r)
                        \/ DropCachedAccount(r)
               PROVE  CallbackInv'
    BY <1>2 DEF AccountStep
  <2>1. req[r].kind # "callback"
    BY DEF GetAccount, Refuse, ReadCachedAccount, FindAccount,
           UpdateRow, StoreAccount, DeleteRow, Written, Doubt,
           DropCachedAccount, At, KindsInv
  <2>2. \E p, v : Becomes(r, req[r].kind, p, req[r].user, v, req[r].auth)
    BY AccountEffects DEF GetAccount, Refuse, GoesTo, Takes
  <2>3. UNCHANGED <<code, oauth, late>> /\ (faults > 0 => faults' > 0)
    BY <1>f
    DEF GetAccount, Refuse, ReadCachedAccount, FindAccount,
        UpdateRow, StoreAccount, DeleteRow, Written, Doubt,
        DropCachedAccount, SignIn, Calls, Fails
  <2>4. /\ moved \subseteq moved'
        /\ Existing' = Existing \/ \A q \in Requests : Running(q) => q \in moved'
    <3>1. CASE DeleteRow(r) BY <3>1 DEF DeleteRow, Written, Doubt, Existing
    <3>2. CASE UpdateRow(r)
      <4>1. moved' = moved BY <3>2 DEF UpdateRow, Written, Doubt
      <4>2. \A u \in Users : name'[u] # None <=> name[u] # None
        BY <3>2, NoneAssumption DEF UpdateRow, Written, Doubt, Types, RowTypes
      <4> QED BY <4>1, <4>2 DEF Existing
    <3>3. CASE UNCHANGED <<name, moved>> BY <3>3 DEF Existing
    <3> QED
      BY <3>1, <3>2, <3>3
      DEF GetAccount, Refuse, ReadCachedAccount, FindAccount, StoreAccount, Doubt, DropCachedAccount, Row, History
  <2>5. Aside BY <2>1, <2>2, <2>3, <2>4 DEF Aside, Becomes
  <2> QED BY <2>5, AsideKeepsCallbacks
<1>3. CASE OtherStep
  <2>1. ASSUME NEW r \in Requests, Delete(r) PROVE CallbackInv'
    <3>1. UNCHANGED <<name, code, oauth, late, moved>> BY <2>1 DEF Delete, Row, SignIn, History
    <3>2. faults > 0 => faults' > 0 BY <1>f, <2>1 DEF Delete, Calls, Fails
    <3> QED BY <2>1, <3>1, <3>2, PageEffects, StartIsAside, AsideKeepsCallbacks
  <2>2. CASE \E u \in Users : ExpireAccount(u)
    BY <1>0, <2>2 DEF ExpireAccount, Row, SignIn, History
  <2>3. ASSUME NEW a \in Authorizations, Authorize(a) PROVE CallbackInv'
    <3>1. /\ code[a] = "none" /\ code' = [code EXCEPT ![a] = "fresh"] /\ oauth' = oauth \union {a}
          /\ UNCHANGED <<req, name, late, moved, faults>>
      BY <2>3 DEF Authorize, Row, History
    <3>2. code'[a] = "fresh" /\ \A b \in Authorizations \ {a} : code'[b] = code[b]
      BY <3>1 DEF Types, SignInTypes
    <3>3. ASSUME NEW r \in Requests, Straight(r) PROVE Straight(r)'
      BY <3>1, <3>2, <3>3 DEF Straight, Existing, Types, SignInTypes
    <3>4. \A r \in Requests : Excused(r) => Excused(r)' BY <3>1 DEF Excused
    <3> QED BY <3>1, <3>2, <3>3, <3>4 DEF CallbackInv
  <2>4. ASSUME NEW a \in Authorizations, ExpireState(a) PROVE CallbackInv'
    <3>1. /\ oauth' = oauth \ {a} /\ late' = late \union {a}
          /\ UNCHANGED <<req, name, code, moved, faults>>
      BY <2>4 DEF ExpireState, Row, History
    <3>2. ASSUME NEW r \in Requests, Straight(r), ~Excused(r)' PROVE Straight(r)'
      BY <3>1, <3>2 DEF Straight, Excused, Existing
    <3>3. \A r \in Requests : Excused(r) => Excused(r)' BY <3>1 DEF Excused
    <3> QED BY <3>1, <3>2, <3>3 DEF CallbackInv
  <2> QED BY <1>3, <2>1, <2>2, <2>3, <2>4 DEF OtherStep
<1>4. CASE \E r \in Requests : SignInStep(r)
  <2> SUFFICES ASSUME NEW r \in Requests, SignInStep(r) PROVE CallbackInv' BY <1>4
  <2>1. ASSUME NEW a \in Authorizations, Callback(r, a) PROVE CallbackInv'
    <3>1. req[r] = Idle /\ Becomes(r, "callback", "state", None, None, a)
      BY <2>1, SignInEffects
    <3>2. code[a] # "none" /\ UNCHANGED <<name, code, oauth, late, moved, faults>>
      BY <2>1 DEF Callback, Row, SignIn, History
    <3>3. req[r].auth = None /\ None \notin Authorizations BY <3>1, NoneAssumption DEF Idle
    <3>4. \A b \in Authorizations :
            (\A q \in Requests : req'[q].auth # b) => \A q \in Requests : req[q].auth # b
      BY <3>1, <3>3 DEF Becomes
    <3>5. ASSUME ~Excused(r)' PROVE Straight(r)'
      <4>1. \A q \in Requests : req[q].auth # a
        BY <3>1, <3>3, <3>5 DEF Excused, Becomes
      <4>2. code[a] = "fresh" /\ a \in oauth \union late
        BY <3>2, <4>1 DEF CallbackInv, Types, SignInTypes
      <4>3. a \notin late BY <3>1, <3>2, <3>5 DEF Excused, Becomes
      <4> QED BY <3>1, <3>2, <4>2, <4>3 DEF Straight, Becomes
    <3>6. ASSUME NEW q \in Requests \ {r}, req'[q].kind = "callback", ~Excused(q)'
          PROVE  Straight(q)'
      <4>0. req'[q] = req[q] /\ \A p \in Requests \ {r} : req'[p] = req[p] BY <3>1 DEF Becomes
      <4>1. req[q].auth \in Authorizations BY <3>6, <4>0 DEF KindsInv
      <4>2. ~Excused(q) BY <3>2, <3>3, <3>6, <4>0, <4>1 DEF Excused
      <4> QED BY <3>2, <3>6, <4>0, <4>2 DEF CallbackInv, Straight, Existing
    <3> QED BY <3>2, <3>4, <3>5, <3>6 DEF CallbackInv
  <2> DEFINE a == req[r].auth
  <2>2. CASE ReadState(r)
    <3>1. GoesTo(r, "redeem") \/ GoesTo(r, "refused") BY <2>2, SignInEffects
    <3>2. UNCHANGED <<name, code, oauth, late, moved>> /\ (faults > 0 => faults' > 0)
          /\ faults' \in Nat /\ req[r].kind = "callback" /\ req[r].pc = "state"
      BY <1>f, <2>2 DEF ReadState, At, Row, SignIn, History, Calls, Fails
    <3>3. faults' = 0 => (a \in oauth => GoesTo(r, "redeem"))
      <4>1. ASSUME faults' = 0, a \in oauth PROVE req' = [req EXCEPT ![r].pc = "redeem"]
        BY <1>f, <2>2, <4>1 DEF ReadState, Calls, Fails, Goto
      <4> QED BY <4>1, Moves DEF GoesTo
    <3>4. Straight(r) /\ faults' = 0 => Straight(r)'
      BY <3>2, <3>3 DEF Straight, GoesTo, Becomes
    <3> QED
      BY <3>1, <3>2, <3>4, CallbackMoves DEF GoesTo, Becomes, Existing, KindsInv
  <2>3. CASE RedeemCode(r)
    <3>1. \/ Takes(r, "delete", IF code[a] = "fresh" THEN GoogleName ELSE None)
          \/ GoesTo(r, "refused")
      BY <2>3, SignInEffects
    <3>2. /\ UNCHANGED <<name, oauth, late, moved>> /\ (faults > 0 => faults' > 0)
          /\ faults' \in Nat /\ req[r].kind = "callback" /\ req[r].pc = "redeem"
          /\ code' \in {code, [code EXCEPT ![a] = "used"]}
      BY <1>f, <2>3 DEF RedeemCode, At, Row, History, Calls, Fails
    <3>3. \A b \in Authorizations \ {a} : code'[b] = code[b] BY <3>2 DEF Types, SignInTypes
    <3>4. faults' = 0 => Takes(r, "delete", IF code[a] = "fresh" THEN GoogleName ELSE None)
      <4>1. ASSUME faults' = 0
            PROVE  req' = [req EXCEPT ![r].pc = "delete",
                                      ![r].val = IF code[a] = "fresh" THEN GoogleName ELSE None]
        BY <1>f, <2>3, <4>1 DEF RedeemCode, Calls, Fails
      <4> QED BY <4>1, Moves DEF Takes
    <3>5. Straight(r) /\ faults' = 0 => Straight(r)'
      BY <3>2, <3>4, NoneAssumption DEF Straight, Takes, Becomes
    <3> QED
      BY <3>1, <3>2, <3>3, <3>5, CallbackMoves
      DEF Takes, GoesTo, Becomes, Existing, KindsInv
  <2>4. CASE DeleteState(r)
    <3>1. GoesTo(r, "find") \/ GoesTo(r, "refused") BY <2>4, SignInEffects
    <3>2. /\ UNCHANGED <<name, code, late, moved>> /\ (faults > 0 => faults' > 0)
          /\ faults' \in Nat /\ req[r].kind = "callback" /\ req[r].pc = "delete"
          /\ oauth' = oauth \ {a} \/ oauth' = oauth
      BY <1>f, <2>4 DEF DeleteState, At, Row, History, Calls, Fails
    <3>3. req[r].val # None => GoesTo(r, "find")
      BY <2>4, Moves DEF DeleteState, Goto, GoesTo
    <3>4. Straight(r) => Straight(r)' BY <3>2, <3>3 DEF Straight, GoesTo, Becomes
    <3> QED
      BY <3>1, <3>2, <3>4, CallbackMoves DEF GoesTo, Becomes, Existing, KindsInv
  <2>5. CASE FindUser(r)
    <3>1. \/ GoesTo(r, "refused") \/ GoesTo(r, "create")
          \/ \E u \in Existing : IsAbout(r, "tokens", u)
      BY <2>5, SignInEffects
    <3>2. /\ UNCHANGED <<name, code, oauth, late, moved>> /\ (faults > 0 => faults' > 0)
          /\ faults' \in Nat /\ req[r].kind = "callback" /\ req[r].pc = "find"
      BY <1>f, <2>5 DEF FindUser, At, Row, SignIn, History, Calls, Fails
    <3>3. ASSUME faults' = 0 PROVE Straight(r)'
      <4>1. \/ Existing = {} /\ req' = [req EXCEPT ![r].pc = "create"]
            \/ \E u \in Existing : req' = [req EXCEPT ![r].pc = "tokens", ![r].user = u]
        BY <1>f, <2>5, <3>3 DEF FindUser, Calls, Fails, Goto
      <4>2. \/ Existing = {} /\ GoesTo(r, "create")
            \/ \E u \in Existing : IsAbout(r, "tokens", u)
        BY <4>1, Moves DEF GoesTo, IsAbout
      <4> QED BY <3>2, <4>2 DEF Straight, GoesTo, IsAbout, Becomes, Existing
    <3> QED
      BY <3>1, <3>2, <3>3, CallbackMoves
      DEF GoesTo, IsAbout, Becomes, Existing, KindsInv
  <2>6. CASE CreateUser(r)
    <3>1. /\ UNCHANGED <<code, oauth, late>> /\ (faults > 0 => faults' > 0)
          /\ faults' \in Nat /\ req[r].kind = "callback" /\ req[r].pc = "create"
      BY <1>f, <2>6 DEF CreateUser, Created, At, SignIn, Calls, Fails
    <3>2. CASE /\ Goto(r, "refused") /\ UNCHANGED <<name, moved>>
               /\ IF Existing # {} THEN Calls ELSE Fails
      <4>1. GoesTo(r, "refused") BY <3>2, Moves DEF Goto, GoesTo
      <4>2. ~(Straight(r) /\ faults' = 0) BY <1>f, <3>1, <3>2 DEF Straight, Calls, Fails
      <4> QED
        BY <3>1, <3>2, <4>1, <4>2, CallbackMoves DEF GoesTo, Becomes, Existing, KindsInv
    <3>3. CASE Created(r)
      <4>1. PICK u \in Users \ used :
              /\ name' = [name EXCEPT ![u] = GoogleName]
              /\ moved' = moved \union {q \in Requests \ {r} : Running(q)}
              /\ \/ Calls /\ req' = [req EXCEPT ![r].pc = "tokens", ![r].user = u]
                 \/ Fails /\ Goto(r, "refused")
        BY <3>3 DEF Created
      <4>2. IsAbout(r, "tokens", u) \/ (Fails /\ GoesTo(r, "refused"))
        BY <4>1, Moves DEF Goto, GoesTo, IsAbout
      <4>3. name'[u] # None BY <4>1, NoneAssumption DEF Types, RowTypes
      <4>4. faults' = 0 => Straight(r)'
        BY <1>f, <4>2, <4>3 DEF Straight, IsAbout, Becomes, Existing, Fails
      <4> QED
        BY <3>1, <4>1, <4>2, <4>4, CallbackMoves DEF GoesTo, IsAbout, Becomes, KindsInv
    <3> QED BY <2>6, <3>2, <3>3 DEF CreateUser, Row
  <2>7. CASE GenerateToken(r)
    <3>1. GoesTo(r, "done") \/ GoesTo(r, "refused") BY <2>7, SignInEffects
    <3>2. UNCHANGED <<name, code, oauth, late, moved>> /\ (faults > 0 => faults' > 0)
          /\ faults' \in Nat /\ req[r].kind = "callback" /\ req[r].pc = "tokens"
      BY <1>f, <2>7 DEF GenerateToken, At, Row, SignIn, History, Calls, Fails
    <3>3. faults' = 0 /\ req[r].user \in Existing => GoesTo(r, "done")
      <4>1. ASSUME faults' = 0, req[r].user \in Existing
            PROVE  req' = [req EXCEPT ![r].pc = "done"]
        BY <1>f, <2>7, <4>1 DEF GenerateToken, Calls, Fails, Goto
      <4> QED BY <4>1, Moves DEF GoesTo
    <3>4. Straight(r) /\ faults' = 0 => Straight(r)'
      BY <3>2, <3>3 DEF Straight, GoesTo, Becomes
    <3> QED
      BY <3>1, <3>2, <3>4, CallbackMoves DEF GoesTo, Becomes, Existing, KindsInv
  <2> QED BY <2>1, <2>2, <2>3, <2>4, <2>5, <2>6, <2>7 DEF SignInStep
<1>5. CASE UNCHANGED vars BY <1>0, <1>5 DEF vars, Row, SignIn, History
<1> QED BY <1>1, <1>2, <1>3, <1>4, <1>5, StepCases

\* A person who comes back from Google is signed in, whatever other requests do, but for the
\* exceptions that OnlyCrossedSignInsFail names: a state that expired, a callback made twice,
\* an account created or deleted meanwhile, a failed call (auth.service.ts).
THEOREM SignInsNeedACrossing == Spec => []OnlyCrossedSignInsFail
<1> DEFINE Inv == Types /\ KindsInv /\ CallbackInv
<1>1. Init => Inv
  <2> SUFFICES ASSUME Init PROVE Inv OBVIOUS
  <2>1. \A r \in Requests : req[r] = Idle BY DEF Init
  <2>2. KindsInv /\ CallbackInv
    BY <2>1, NoneAssumption DEF Init, Idle, KindsInv, CallbackInv
  <2> QED BY <2>2, InitTypes
<1>2. Inv /\ [Next]_vars => Inv' BY TypesKept, KindsKept, CallbacksKept
<1>3. Inv => OnlyCrossedSignInsFail
  BY DEF CallbackInv, Excused, Straight, OnlyCrossedSignInsFail
<1> QED BY <1>1, <1>2, <1>3, PTL DEF Spec

-------------------------------------------------------------------------------
(* What the page shows after a save.                                         *)

\* The update has changed its row, though it may have been refused the answer.
Applied(q) ==
  /\ req[q].kind = "update"
  /\ req[q].pc \in {"store", "done"} \/ (req[q].pc = "refused" /\ replaced[q] # None)

\* A name is given once: an update that has not changed its row is nobody's name.
NamesAreNew ==
  \A q \in Requests : ~Applied(q) =>
    /\ replaced[q] = None
    /\ (\A u \in Users : name[u] # q) /\ (\A p \in Requests : replaced[p] # q)

\* The name that an update replaced does not come back into the row, and into the cache only
\* with a suspect.
PastIsOver ==
  \A q \in Requests : Applied(q) =>
    /\ req[q].user \in used /\ replaced[q] # None /\ replaced[q] # name[req[q].user]
    /\ req[q].pc = "done" /\ req[q].user \notin suspect => cache[req[q].user] # replaced[q]

\* The page is that of the user of the cookie.
Mine(q, kind) == req[q].kind = kind /\ (cookie # None => req[q].user = cookie)
PageIsMine ==
  /\ page.get # None => Mine(page.get, "get")
  /\ page.save # None => Mine(page.save, "update")
  /\ page.saved # None => Mine(page.saved, "update") /\ req[page.saved].pc = "done"
  /\ page.saved # None /\ page.get # None => req[page.saved].user = req[page.get].user

\* What the fetch after a save has found is not the name that was replaced.
FetchIsNew ==
  page.saved # None /\ page.get # None /\ req[page.get].pc \in {"store", "done"} =>
    req[page.get].val # replaced[page.saved] \/ page.get \in doubted

UpdateInv == NamesAreNew /\ PastIsOver /\ PageIsMine /\ FetchIsNew /\ OwnUpdateShows

\* Steps that leave the page and what it waits for alone.
Elsewhere ==
  /\ UNCHANGED <<page, replaced>> /\ doubted \subseteq doubted' /\ cookie' \in {cookie, None}
  /\ \A q \in {page.get, page.save, page.saved} \ {None} :
       req'[q].kind = req[q].kind /\ req'[q].user = req[q].user
  /\ page.saved # None => req'[page.saved].pc = req[page.saved].pc
  /\ page.get # None =>
       (req'[page.get].pc \in {"store", "done"} =>
          req[page.get].pc \in {"store", "done"} /\ req'[page.get].val = req[page.get].val)

LEMMA ElsewhereKeepsPage ==
  PageIsMine /\ FetchIsNew /\ OwnUpdateShows /\ Elsewhere
    => PageIsMine' /\ FetchIsNew' /\ OwnUpdateShows'
BY DEF PageIsMine, Mine, FetchIsNew, OwnUpdateShows, Elsewhere

\* Steps that apply no update and write neither row nor cache.
NamesStay ==
  /\ UNCHANGED <<name, cache, replaced, suspect>> /\ used \subseteq used'
  /\ \A q \in Requests :
       /\ Applied(q)' <=> Applied(q)
       /\ Applied(q) => req'[q].user = req[q].user /\ req'[q].pc = req[q].pc

LEMMA StayKeepsNames == NamesAreNew /\ PastIsOver /\ NamesStay => NamesAreNew' /\ PastIsOver'
BY DEF NamesAreNew, PastIsOver, NamesStay

\* A step of r that is not the end of an update.
LEMMA MoveIsStay ==
  ASSUME Types, NEW r \in Requests, \A q \in Requests \ {r} : req'[q] = req[q],
         ~Applied(r), ~Applied(r)', UNCHANGED <<name, cache, replaced, suspect>>,
         used \subseteq used'
  PROVE  NamesStay
BY DEF NamesStay, Applied

\* A closed page waits for nothing.
LEMMA ClosedIsMine == page' = ClosedPage => PageIsMine' /\ FetchIsNew' /\ OwnUpdateShows'
BY DEF ClosedPage, PageIsMine, FetchIsNew, OwnUpdateShows

LEMMA UpdatesKeptByPage ==
  ASSUME Types, KindsInv, UpdateInv, PageStep
  PROVE  UpdateInv'
<1>t. page \in Page /\ cookie \in used \union {None} BY DEF Types, PageTypes
<1>1. ASSUME NEW r \in Requests, NEW k \in {"get", "update"}, NEW p \in {"cache", "row"},
             Starts(r, k, p), UNCHANGED <<name, used, cache, replaced, suspect, doubted, cookie>>
      PROVE  /\ NamesAreNew' /\ PastIsOver'
             /\ r \notin {page.get, page.save, page.saved} \ {None}
             /\ \A q \in {page.get, page.save, page.saved} \ {None} : req'[q] = req[q]
             /\ Mine(r, k)' /\ req'[r].pc \notin {"store", "done"} /\ req'[r].user = cookie
             /\ cookie # None
  <2>1. /\ req[r].kind = None /\ req[r].pc = "idle" /\ cookie # None
        /\ Becomes(r, k, p, cookie, None, None)
    BY <1>1 DEF Starts, Idle
  <2>2. ~Applied(r) /\ ~Applied(r)' BY <2>1 DEF Applied, Becomes
  <2>3. NamesAreNew' /\ PastIsOver'
    BY <1>1, <2>1, <2>2, MoveIsStay, StayKeepsNames DEF Becomes, UpdateInv
  <2>4. {page.get, page.save, page.saved} \ {None} \subseteq Requests
    BY <1>t DEF Page, RequestOrNone
  <2>5. r \notin {page.get, page.save, page.saved} \ {None}
    BY <2>1, NoneAssumption DEF UpdateInv, PageIsMine, Mine
  <2>6. Mine(r, k)' /\ req'[r].pc \notin {"store", "done"} /\ req'[r].user = cookie
    BY <1>1, <2>1 DEF Mine, Becomes
  <2> QED BY <2>1, <2>3, <2>4, <2>5, <2>6 DEF Becomes
<1>2. ASSUME NEW r \in Requests, OpenPage(r) \/ RetryPage(r) PROVE UpdateInv'
  <2>1. /\ UNCHANGED <<name, used, cache, replaced, suspect, doubted, cookie>>
        /\ Starts(r, "get", "cache")
    BY <1>2, PageEffects DEF OpenPage, RetryPage, Row, History
  <2>2. /\ page.get = None
        /\ page' \in {[page EXCEPT !.get = r], [page EXCEPT !.get = r, !.failed = FALSE]}
    BY <1>2 DEF OpenPage, RetryPage, ClosedPage
  <2>3. page'.get = r /\ page'.save = page.save /\ page'.saved = page.saved
    BY <1>t, <2>2 DEF Page
  <2>4. PageIsMine'
    BY <1>1, <2>1, <2>3, NoneAssumption DEF UpdateInv, PageIsMine, Mine
  <2>5. FetchIsNew' /\ OwnUpdateShows'
    BY <1>1, <2>1, <2>3, NoneAssumption DEF FetchIsNew, OwnUpdateShows
  <2> QED BY <1>1, <2>1, <2>4, <2>5 DEF UpdateInv
<1>3. ASSUME NEW r \in Requests, Save(r) PROVE UpdateInv'
  <2>1. /\ UNCHANGED <<name, used, cache, replaced, suspect, doubted, cookie>>
        /\ Starts(r, "update", "row")
    BY <1>3, PageEffects DEF Save, Row, History
  <2>2. page.get = None /\ page' = [page EXCEPT !.save = r] BY <1>3 DEF Save
  <2>3. /\ page'.save = r /\ page'.get = None /\ page'.saved = page.saved
        /\ page'.info = page.info /\ page'.got = page.got /\ page'.failed = page.failed
    BY <1>t, <2>2 DEF Page
  <2>4. PageIsMine'
    BY <1>1, <2>1, <2>3, NoneAssumption DEF UpdateInv, PageIsMine, Mine
  <2>5. FetchIsNew' /\ OwnUpdateShows'
    BY <2>1, <2>2, <2>3 DEF UpdateInv, FetchIsNew, OwnUpdateShows
  <2> QED BY <1>1, <2>1, <2>4, <2>5 DEF UpdateInv
<1>4. ASSUME NEW r \in Requests, Saved(r) PROVE UpdateInv'
  <2>1. UNCHANGED <<name, used, cache, replaced, suspect, doubted, cookie>>
    BY <1>4 DEF Saved, Row, History
  <2>0. page.save # None /\ req[page.save].pc = "done" BY <1>4 DEF Saved
  <2>2. CASE Start(r, "get", "cache")
             /\ page' = [page EXCEPT !.save = None, !.saved = page.save, !.get = r, !.failed = FALSE]
    <3>1. Starts(r, "get", "cache") BY <2>2, Moves DEF Start, Starts
    <3>2. page'.save = None /\ page'.saved = page.save /\ page'.get = r
      BY <1>t, <2>2 DEF Page
    <3>3. PageIsMine'
      BY <1>1, <2>0, <2>1, <3>1, <3>2 DEF UpdateInv, PageIsMine, Mine
    <3>4. FetchIsNew' /\ OwnUpdateShows'
      BY <1>1, <2>1, <3>1, <3>2, NoneAssumption DEF FetchIsNew, OwnUpdateShows
    <3> QED BY <1>1, <2>1, <3>1, <3>3, <3>4 DEF UpdateInv
  <2>3. CASE /\ UNCHANGED req
             /\ page' = [page EXCEPT !.save = None, !.saved = page.save, !.get = None, !.failed = TRUE]
    <3>1. page'.save = None /\ page'.saved = page.save /\ page'.get = None /\ page'.failed = TRUE
      BY <1>t, <2>3 DEF Page
    <3>2. NamesAreNew' /\ PastIsOver'
      BY <2>1, <2>3 DEF UpdateInv, NamesAreNew, PastIsOver, Applied
    <3> QED
      BY <2>0, <2>1, <2>3, <3>1, <3>2
      DEF UpdateInv, PageIsMine, Mine, FetchIsNew, OwnUpdateShows
  <2> QED BY <1>4, <2>2, <2>3 DEF Saved
<1>5. ASSUME NEW r \in Requests, OtherTab(r) PROVE UpdateInv'
  <2>1. /\ UNCHANGED <<name, used, cache, replaced, suspect, doubted, cookie, page>>
        /\ Starts(r, "get", "cache") \/ Starts(r, "update", "row")
    BY <1>5, PageEffects DEF OtherTab, Row, History
  <2>2. /\ NamesAreNew' /\ PastIsOver'
        /\ \A q \in {page.get, page.save, page.saved} \ {None} : req'[q] = req[q]
    BY <1>1, <2>1
  <2>3. Elsewhere BY <2>1, <2>2 DEF Elsewhere
  <2> QED BY <2>2, <2>3, ElsewhereKeepsPage DEF UpdateInv
<1>6. CASE ReceiveAccount
  <2>1. /\ UNCHANGED <<name, used, cache, replaced, suspect, doubted, cookie, req>>
        /\ page.get # None /\ page.get \in Requests
    BY <1>6, <1>t DEF ReceiveAccount, Row, History, Page, RequestOrNone
  <2>2. NamesAreNew' /\ PastIsOver'
    BY <2>1 DEF UpdateInv, NamesAreNew, PastIsOver, Applied
  <2>3. CASE /\ req[page.get].pc = "done"
             /\ page' = [page EXCEPT !.get = None, !.got = page.get, !.info = req[page.get].val]
    <3>1. /\ page'.get = None /\ page'.save = page.save /\ page'.saved = page.saved
          /\ page'.got = page.get /\ page'.info = req[page.get].val
      BY <1>t, <2>3 DEF Page
    <3>2. OwnUpdateShows' BY <2>1, <2>3, <3>1 DEF UpdateInv, FetchIsNew, OwnUpdateShows
    <3> QED BY <2>1, <2>2, <3>1, <3>2 DEF UpdateInv, PageIsMine, Mine, FetchIsNew
  <2>4. CASE page' = [page EXCEPT !.get = None, !.failed = TRUE]
    <3>1. /\ page'.get = None /\ page'.save = page.save /\ page'.saved = page.saved
          /\ page'.failed = TRUE
      BY <1>t, <2>4 DEF Page
    <3> QED
      BY <2>1, <2>2, <3>1 DEF UpdateInv, PageIsMine, Mine, FetchIsNew, OwnUpdateShows
  <2> QED BY <1>6, <2>3, <2>4 DEF ReceiveAccount
<1>7. CASE NotSaved
  <2>1. /\ UNCHANGED <<name, used, cache, replaced, suspect, doubted, cookie, req>>
        /\ page' = [page EXCEPT !.save = None]
    BY <1>7 DEF NotSaved, Row, History
  <2>2. NamesAreNew' /\ PastIsOver'
    BY <2>1 DEF UpdateInv, NamesAreNew, PastIsOver, Applied
  <2>3. /\ page'.get = page.get /\ page'.save = None /\ page'.saved = page.saved
        /\ page'.info = page.info /\ page'.got = page.got /\ page'.failed = page.failed
    BY <1>t, <2>1 DEF Page
  <2> QED
    BY <2>1, <2>2, <2>3 DEF UpdateInv, PageIsMine, Mine, FetchIsNew, OwnUpdateShows
<1> QED BY <1>2, <1>3, <1>4, <1>5, <1>6, <1>7 DEF PageStep

\* A step of r that its page may be waiting for.
LEMMA GoesOn ==
  ASSUME Types, NEW r \in Requests, PageIsMine, FetchIsNew, OwnUpdateShows,
         req'[r].kind = req[r].kind, req'[r].user = req[r].user, req[r].pc # "done",
         \A q \in Requests \ {r} : req'[q] = req[q],
         page' = page, cookie' \in {cookie, None}, doubted \subseteq doubted',
         \A q \in Requests : req[q].pc = "done" => replaced'[q] = replaced[q],
         r = page.get /\ page.saved # None /\ req'[r].pc \in {"store", "done"}
           => req'[r].val # replaced[page.saved] \/ r \in doubted'
  PROVE  PageIsMine' /\ FetchIsNew' /\ OwnUpdateShows'
<1>1. {page.get, page.save, page.saved} \subseteq Requests \union {None}
  BY DEF Types, PageTypes, Page, RequestOrNone
<1>2. PageIsMine' BY <1>1 DEF PageIsMine, Mine
<1>3. page.saved # None => replaced'[page.saved] = replaced[page.saved]
  BY <1>1 DEF PageIsMine
<1>4. FetchIsNew' BY <1>1, <1>3 DEF FetchIsNew
<1>5. OwnUpdateShows' BY <1>3 DEF OwnUpdateShows
<1> QED BY <1>2, <1>4, <1>5

LEMMA UpdatesKeptByAccount ==
  ASSUME Types, KindsInv, CacheInv, UpdateInv, AccountStep
  PROVE  UpdateInv'
<1> SUFFICES ASSUME NEW r \in Requests,
                    Refuse(r) \/ GetAccount(r) \/ UpdateRow(r) \/ StoreAccount(r) \/ DeleteRow(r)
                      \/ DropCachedAccount(r)
             PROVE  UpdateInv'
  BY DEF AccountStep
<1> DEFINE u == req[r].user
<1>t. /\ req \in [Requests -> Req] /\ name \in [Users -> Names] /\ cache \in [Users -> Names]
      /\ used \in SUBSET Users /\ replaced \in [Requests -> Names] /\ page \in Page
      /\ suspect \in SUBSET Users
  BY DEF Types, RequestTypes, RowTypes, HistoryTypes, PageTypes
<1>u. req[r].pc \in {"cache", "row", "store", "drop"} /\ u \in used /\ u \in Users
  BY DEF GetAccount, Refuse, ReadCachedAccount, FindAccount,
         UpdateRow, StoreAccount, DeleteRow, Written, Doubt,
         DropCachedAccount, At, Types, RequestTypes, RowTypes
<1>p. /\ page.get # None => page.get \in Requests /\ req[page.get].kind = "get"
      /\ page.saved # None => /\ page.saved \in Requests /\ Applied(page.saved)
                              /\ req[page.saved].pc = "done"
      /\ page.saved # None /\ page.get # None => req[page.saved].user = req[page.get].user
  BY <1>t DEF Page, RequestOrNone, UpdateInv, PageIsMine, Mine, Applied
<1>0. CASE Refuse(r)
  <2>1. /\ GoesTo(r, "refused") /\ req[r].pc \in {"cache", "row"}
        /\ UNCHANGED <<name, used, cache, suspect, replaced, page, cookie, doubted>>
    BY <1>0, AccountEffects DEF Refuse, Row, History
  <2>2. ~Applied(r) BY <2>1 DEF Applied
  <2>3. ~Applied(r)' BY <2>1, <2>2 DEF UpdateInv, NamesAreNew, GoesTo, Becomes, Applied
  <2>4. NamesAreNew' /\ PastIsOver'
    BY <2>1, <2>2, <2>3, MoveIsStay, StayKeepsNames DEF UpdateInv, GoesTo, Becomes
  <2> QED BY <2>1, <2>4, GoesOn DEF UpdateInv, GoesTo, Becomes
<1>1. CASE ReadCachedAccount(r)
  <2>1. /\ req[r].kind = "get" /\ UNCHANGED <<name, used, cache, suspect, replaced, page, cookie>>
        /\ doubted \subseteq doubted'
    BY <1>1 DEF ReadCachedAccount, At, Row
  <2>2. CASE /\ req' = [req EXCEPT ![r].pc = "done", ![r].val = cache[u]]
             /\ doubted' = IF u \in suspect THEN doubted \union {r} ELSE doubted
    <3>1. Takes(r, "done", cache[u]) BY <2>2, Moves DEF Takes
    <3>2. NamesAreNew' /\ PastIsOver'
      BY <2>1, <3>1, MoveIsStay, StayKeepsNames DEF UpdateInv, Takes, Becomes, Applied
    <3>3. ASSUME r = page.get, page.saved # None
          PROVE  cache[u] # replaced[page.saved] \/ r \in doubted'
      <4>1. req[page.saved].user = u /\ page.get # None BY <1>p, <3>3, NoneAssumption
      <4> QED BY <1>p, <2>2, <3>3, <4>1 DEF UpdateInv, PastIsOver
    <3> QED BY <1>u, <2>1, <3>1, <3>2, <3>3, GoesOn DEF UpdateInv, Takes, Becomes
  <2>3. CASE Goto(r, "row") /\ UNCHANGED doubted
    <3>1. GoesTo(r, "row") BY <2>3, Moves DEF Goto, GoesTo
    <3>2. NamesAreNew' /\ PastIsOver'
      BY <2>1, <3>1, MoveIsStay, StayKeepsNames DEF UpdateInv, GoesTo, Becomes, Applied
    <3> QED BY <1>u, <2>1, <3>1, <3>2, GoesOn DEF UpdateInv, GoesTo, Becomes
  <2> QED BY <1>1, <2>2, <2>3 DEF ReadCachedAccount
<1>2. CASE FindAccount(r)
  <2>1. /\ req[r].kind = "get"
        /\ UNCHANGED <<name, used, cache, suspect, replaced, page, cookie, doubted>>
    BY <1>2 DEF FindAccount, At, Row, History
  <2>2. GoesTo(r, "refused") \/ Takes(r, "store", name[u]) BY <1>2, AccountEffects
  <2>3. NamesAreNew' /\ PastIsOver'
    BY <2>1, <2>2, MoveIsStay, StayKeepsNames DEF UpdateInv, GoesTo, Takes, Becomes, Applied
  <2>4. ASSUME r = page.get, page.saved # None PROVE name[u] # replaced[page.saved]
    BY <1>p, <2>4, NoneAssumption DEF UpdateInv, PastIsOver
  <2> QED BY <1>u, <2>1, <2>2, <2>3, <2>4, GoesOn DEF UpdateInv, GoesTo, Takes, Becomes
<1>3. CASE UpdateRow(r)
  <2>1. req[r].kind = "update" /\ req[r].pc = "row" /\ UNCHANGED <<used, cache, page, cookie, doubted>>
    BY <1>3 DEF UpdateRow, Written, Doubt, At
  <2>2. CASE Goto(r, "refused") /\ UNCHANGED <<name, suspect, replaced>>
    <3>1. GoesTo(r, "refused") BY <2>2, Moves DEF Goto, GoesTo
    <3>2. ~Applied(r) BY <2>1 DEF Applied
    <3>3. ~Applied(r)' BY <2>2, <3>1, <3>2 DEF UpdateInv, NamesAreNew, GoesTo, Becomes, Applied
    <3>4. NamesAreNew' /\ PastIsOver'
      BY <2>1, <2>2, <3>1, <3>2, <3>3, MoveIsStay, StayKeepsNames DEF UpdateInv, GoesTo, Becomes
    <3> QED BY <2>1, <2>2, <3>1, <3>4, GoesOn DEF UpdateInv, GoesTo, Becomes
  <2>3. CASE /\ name[u] # None /\ name' = [name EXCEPT ![u] = r]
             /\ req' = [req EXCEPT ![r].pc = "store", ![r].val = r] \/ Goto(r, "refused")
             /\ replaced' = [replaced EXCEPT ![r] = name[u]] /\ suspect \subseteq suspect'
    <3>1. Takes(r, "store", r) \/ GoesTo(r, "refused") BY <2>3, Moves DEF Takes, Goto, GoesTo
    <3>2. /\ name'[u] = r /\ \A v \in Users \ {u} : name'[v] = name[v]
          /\ replaced'[r] = name[u] /\ \A q \in Requests \ {r} : replaced'[q] = replaced[q]
      BY <1>t, <1>u, <2>3
    <3>3. ~Applied(r) BY <2>1 DEF Applied
    <3>4. \A q \in Requests \ {r} : req'[q] = req[q] /\ (Applied(q)' <=> Applied(q))
      BY <3>1, <3>2 DEF Takes, GoesTo, Becomes, Applied
    <3>5. Applied(r)' BY <2>1, <2>3, <3>1, <3>2 DEF Takes, GoesTo, Becomes, Applied
    <3>6. NamesAreNew'
      BY <1>u, <3>2, <3>4, <3>5 DEF UpdateInv, NamesAreNew
    <3>7. ASSUME NEW q \in Requests \ {r}, Applied(q) PROVE replaced[q] # r
      BY <3>3 DEF UpdateInv, NamesAreNew
    <3>8. ASSUME NEW q \in Requests, Applied(q)'
          PROVE  /\ req'[q].user \in used' /\ replaced'[q] # None
                 /\ replaced'[q] # name'[req'[q].user]
                 /\ req'[q].pc = "done" /\ req'[q].user \notin suspect'
                      => cache'[req'[q].user] # replaced'[q]
      <4>1. CASE q = r
        <5>1. name[u] # r BY <1>u, <3>3 DEF UpdateInv, NamesAreNew
        <5> QED BY <1>u, <2>1, <2>3, <3>1, <3>2, <4>1, <5>1 DEF Takes, GoesTo, Becomes
      <4>2. CASE q # r
        <5>1. Applied(q) /\ req'[q] = req[q] /\ replaced'[q] = replaced[q]
          BY <3>2, <3>4, <3>8, <4>2
        <5>2. req[q].user \in Users BY <1>t, <5>1 DEF UpdateInv, PastIsOver
        <5> QED
          BY <2>1, <2>3, <3>2, <3>7, <4>2, <5>1, <5>2 DEF UpdateInv, PastIsOver
      <4> QED BY <4>1, <4>2
    <3>9. PastIsOver' BY <3>8 DEF PastIsOver
    <3>10. \A q \in Requests : req[q].pc = "done" => replaced'[q] = replaced[q]
      BY <2>1, <3>2
    <3>11. r # page.get BY <1>p, <2>1, NoneAssumption
    <3>12. PageIsMine' /\ FetchIsNew' /\ OwnUpdateShows'
      BY <2>1, <3>1, <3>10, <3>11, GoesOn DEF UpdateInv, Takes, GoesTo, Becomes
    <3> QED BY <3>6, <3>9, <3>12 DEF UpdateInv
  <2> QED BY <1>3, <2>2, <2>3 DEF UpdateRow, Written, Doubt
<1>4. CASE StoreAccount(r)
  <2>1. req[r].pc = "store" /\ UNCHANGED <<name, used, page, cookie, replaced, doubted>>
    BY <1>4 DEF StoreAccount, Doubt, Row
  <2>2. GoesTo(r, "done") \/ GoesTo(r, "refused") BY <1>4, AccountEffects
  <2>3. PageIsMine' /\ FetchIsNew' /\ OwnUpdateShows'
    BY <2>1, <2>2, GoesOn, NoneAssumption DEF UpdateInv, GoesTo, Becomes, FetchIsNew
  <2>4. \A q \in Requests : /\ Applied(q)' <=> Applied(q)
                            /\ req'[q].user = req[q].user
    BY <2>1, <2>2 DEF GoesTo, Becomes, Applied, UpdateInv, PastIsOver
  <2>5. NamesAreNew' BY <2>1, <2>4 DEF UpdateInv, NamesAreNew
  <2>6. ASSUME u \notin suspect' PROVE cache'[u] \in {None, name[u]}
    BY <1>t, <1>u, <1>4, <2>1, <2>6 DEF StoreAccount, Doubt, CacheInv, StoresAreCurrent
  <2>7. suspect \subseteq suspect' /\ \A v \in Users \ {u} : cache'[v] = cache[v]
    BY <1>t, <1>4 DEF StoreAccount, Doubt
  <2>8. ASSUME NEW q \in Requests, Applied(q), req'[q].pc = "done", req[q].user \notin suspect'
        PROVE  cache'[req[q].user] # replaced[q]
    <3>1. req[q].user \in Users BY <1>t, <2>8 DEF UpdateInv, PastIsOver
    <3>2. CASE req[q].user = u BY <2>6, <2>8, <3>2 DEF UpdateInv, PastIsOver
    <3>3. CASE req[q].user # u
      <4>1. req[q].pc = "done" BY <2>2, <2>8, <3>3 DEF GoesTo, Becomes
      <4> QED BY <2>7, <2>8, <3>1, <3>3, <4>1 DEF UpdateInv, PastIsOver
    <3> QED BY <3>2, <3>3
  <2>9. PastIsOver' BY <2>1, <2>4, <2>8 DEF UpdateInv, PastIsOver
  <2> QED BY <2>3, <2>5, <2>9 DEF UpdateInv
<1>5. CASE DeleteRow(r)
  <2>1. /\ req[r].kind = "delete" /\ req[r].pc = "row"
        /\ UNCHANGED <<used, cache, page, cookie, replaced, doubted>>
    BY <1>5 DEF DeleteRow, Written, Doubt, At
  <2>2. GoesTo(r, "refused") \/ GoesTo(r, "drop") BY <1>5, AccountEffects
  <2>3. PageIsMine' /\ FetchIsNew' /\ OwnUpdateShows'
    BY <2>1, <2>2, GoesOn DEF UpdateInv, GoesTo, Becomes
  <2>4. \A q \in Requests : /\ Applied(q)' <=> Applied(q)
                            /\ Applied(q) => req'[q] = req[q]
    BY <2>1, <2>2 DEF GoesTo, Becomes, Applied
  <2>5. suspect \subseteq suspect' /\ \A v \in Users : name'[v] \in {name[v], None}
    BY <1>t, <1>5 DEF DeleteRow, Written, Doubt
  <2>6. NamesAreNew' BY <2>1, <2>4, <2>5, NoneAssumption DEF UpdateInv, NamesAreNew
  <2>7. ASSUME NEW q \in Requests, Applied(q)
        PROVE  req[q].user \in Users /\ name'[req[q].user] # replaced[q]
    <3>1. req[q].user \in Users BY <1>t, <2>7 DEF UpdateInv, PastIsOver
    <3> QED BY <2>5, <2>7, <3>1 DEF UpdateInv, PastIsOver
  <2>8. PastIsOver' BY <2>1, <2>4, <2>5, <2>7 DEF UpdateInv, PastIsOver
  <2> QED BY <2>3, <2>6, <2>8 DEF UpdateInv
<1>6. CASE DropCachedAccount(r)
  <2>1. /\ req[r].kind = "delete" /\ req[r].pc = "drop" /\ cookie' \in {cookie, None}
        /\ UNCHANGED <<name, used, replaced, doubted>> /\ page' \in {ClosedPage, page}
    BY <1>6 DEF DropCachedAccount, Doubt, At, Row
  <2>2. GoesTo(r, "done") \/ GoesTo(r, "refused") BY <1>6, AccountEffects
  <2>3. PageIsMine' /\ FetchIsNew' /\ OwnUpdateShows'
    <3>1. r # page.get BY <1>p, <2>1, NoneAssumption
    <3>2. CASE page' = page
      BY <2>1, <2>2, <3>1, <3>2, GoesOn DEF UpdateInv, GoesTo, Becomes
    <3> QED BY <2>1, <3>2, ClosedIsMine
  <2>4. \A q \in Requests : /\ Applied(q)' <=> Applied(q)
                            /\ Applied(q) => req'[q] = req[q]
    BY <2>1, <2>2 DEF GoesTo, Becomes, Applied
  <2>5. suspect \subseteq suspect' /\ \A v \in Users : cache'[v] \in {cache[v], None}
    BY <1>t, <1>6 DEF DropCachedAccount, Doubt
  <2>6. NamesAreNew' BY <2>1, <2>4 DEF UpdateInv, NamesAreNew
  <2>7. ASSUME NEW q \in Requests, Applied(q), req[q].pc = "done", req[q].user \notin suspect'
        PROVE  cache'[req[q].user] # replaced[q]
    <3>1. req[q].user \in Users BY <1>t, <2>7 DEF UpdateInv, PastIsOver
    <3> QED BY <2>5, <2>7, <3>1 DEF UpdateInv, PastIsOver
  <2>8. PastIsOver' BY <2>1, <2>4, <2>7 DEF UpdateInv, PastIsOver
  <2> QED BY <2>3, <2>6, <2>8 DEF UpdateInv
<1> QED BY <1>0, <1>1, <1>2, <1>3, <1>4, <1>5, <1>6 DEF GetAccount

LEMMA UpdatesKept ==
  Types /\ KindsInv /\ CacheInv /\ UpdateInv /\ [Next]_vars => UpdateInv'
<1> SUFFICES ASSUME Types, KindsInv, CacheInv, UpdateInv, [Next]_vars PROVE UpdateInv' OBVIOUS
<1>t. /\ cache \in [Users -> Names] /\ used \in SUBSET Users
      /\ {page.get, page.save, page.saved} \subseteq Requests \union {None}
  BY DEF Types, RowTypes, PageTypes, Page, RequestOrNone
<1>0. ASSUME UNCHANGED <<name, used, cache, suspect, replaced, doubted, req, page, cookie>>
      PROVE  UpdateInv'
  BY <1>0
  DEF UpdateInv, NamesAreNew, PastIsOver, PageIsMine, Mine, FetchIsNew, OwnUpdateShows, Applied
<1>1. CASE OtherStep
  <2>1. ASSUME NEW r \in Requests, Delete(r) PROVE UpdateInv'
    <3>1. UNCHANGED <<name, used, cache, suspect, replaced, doubted, page, cookie>>
      BY <2>1 DEF Delete, Row, History
    <3>2. CASE Starts(r, "delete", "row")
      <4>1. req[r].kind = None /\ Becomes(r, "delete", "row", cookie, None, None)
        BY <3>2 DEF Starts, Idle
      <4>2. NamesAreNew' /\ PastIsOver'
        BY <3>1, <4>1, MoveIsStay, StayKeepsNames, NoneAssumption
        DEF UpdateInv, Becomes, Applied
      <4>3. r \notin {page.get, page.save, page.saved} \ {None}
        BY <4>1, NoneAssumption DEF UpdateInv, PageIsMine, Mine
      <4>4. Elsewhere BY <1>t, <3>1, <4>1, <4>3 DEF Elsewhere, Becomes
      <4> QED BY <4>2, <4>4, ElsewhereKeepsPage DEF UpdateInv
    <3> QED BY <1>0, <2>1, <3>1, <3>2, PageEffects
  <2>2. ASSUME NEW u \in Users, ExpireAccount(u) PROVE UpdateInv'
    <3>1. /\ cache'[u] = None /\ \A v \in Users \ {u} : cache'[v] = cache[v]
          /\ \A v \in Users \ {u} : v \in suspect <=> v \in suspect'
          /\ UNCHANGED <<name, used, req, cookie, page, replaced, doubted>>
      BY <1>t, <2>2 DEF ExpireAccount, Row
    <3>2. PastIsOver'
      <4>1. ASSUME NEW q \in Requests, Applied(q), req[q].pc = "done", req[q].user \notin suspect'
            PROVE  cache'[req[q].user] # replaced[q]
        <5>1. req[q].user \in Users BY <1>t, <4>1 DEF UpdateInv, PastIsOver
        <5> QED BY <3>1, <4>1, <5>1 DEF UpdateInv, PastIsOver
      <4> QED BY <3>1, <4>1 DEF UpdateInv, PastIsOver, Applied
    <3>3. NamesAreNew' BY <3>1 DEF UpdateInv, NamesAreNew, Applied
    <3> QED
      BY <3>1, <3>2, <3>3 DEF UpdateInv, PageIsMine, Mine, FetchIsNew, OwnUpdateShows
  <2>3. CASE \E a \in Authorizations : Authorize(a) \/ ExpireState(a)
    BY <1>0, <2>3 DEF Authorize, ExpireState, Row, History
  <2> QED BY <1>1, <2>1, <2>2, <2>3 DEF OtherStep
<1>2. CASE \E r \in Requests : SignInStep(r)
  <2> SUFFICES ASSUME NEW r \in Requests, SignInStep(r) PROVE UpdateInv' BY <1>2
  <2>1. req[r].kind \in {None, "callback"} /\ req'[r].kind = "callback"
        /\ \A q \in Requests \ {r} : req'[q] = req[q]
    <3>1. ASSUME NEW a \in Authorizations, Callback(r, a)
          PROVE  req[r] = Idle /\ Becomes(r, "callback", "state", None, None, a)
      BY <3>1, SignInEffects
    <3>2. ASSUME ReadState(r) \/ RedeemCode(r) \/ DeleteState(r) \/ FindUser(r) \/ CreateUser(r)
                   \/ GenerateToken(r)
          PROVE  /\ req[r].kind = "callback"
                 /\ \E p, u, v : Becomes(r, req[r].kind, p, u, v, req[r].auth)
      <4>1. req[r].kind = "callback"
        BY <3>2
        DEF ReadState, RedeemCode, DeleteState, FindUser, CreateUser, Created, GenerateToken, At
      <4>2. \E p, u, v : Becomes(r, req[r].kind, p, u, v, req[r].auth)
        BY <3>2, SignInEffects DEF GoesTo, Takes, IsAbout
      <4> QED BY <4>1, <4>2
    <3> QED BY <3>1, <3>2 DEF SignInStep, Becomes, Idle
  <2>2. ~Applied(r) /\ ~Applied(r)' BY <2>1, NoneAssumption DEF Applied
  <2>3. UNCHANGED <<cache, suspect, replaced, doubted>> /\ used \subseteq used'
    BY DEF SignInStep, Callback, ReadState, RedeemCode, DeleteState, FindUser, CreateUser, Created,
           GenerateToken, Row, History
  <2>4. NamesAreNew' /\ PastIsOver'
    <3>1. CASE name' = name
      BY <2>1, <2>2, <2>3, <3>1, MoveIsStay, StayKeepsNames DEF UpdateInv
    <3>2. ASSUME NEW u \in Users \ used, name' = [name EXCEPT ![u] = GoogleName]
          PROVE  NamesAreNew' /\ PastIsOver'
      <4>1. name'[u] = GoogleName /\ \A v \in Users \ {u} : name'[v] = name[v]
        BY <3>2 DEF Types, RowTypes
      <4>2. \A q \in Requests : (Applied(q)' <=> Applied(q)) /\ (Applied(q) => req'[q] = req[q])
        BY <2>1, <2>2, <2>3 DEF Applied
      <4>3. NamesAreNew'
        BY <2>3, <4>1, <4>2, NoneAssumption DEF UpdateInv, NamesAreNew
      <4>4. ASSUME NEW q \in Requests, Applied(q)
            PROVE  req[q].user \in Users \ {u}
        BY <1>t, <4>4 DEF UpdateInv, PastIsOver
      <4>5. PastIsOver' BY <2>3, <4>1, <4>2, <4>4 DEF UpdateInv, PastIsOver
      <4> QED BY <4>3, <4>5
    <3> QED
      BY <3>1, <3>2
      DEF SignInStep, Callback, ReadState, RedeemCode, DeleteState, FindUser, CreateUser, Created,
          GenerateToken, Row
  <2>5. PageIsMine' /\ FetchIsNew' /\ OwnUpdateShows'
    <3>1. CASE UNCHANGED <<page, cookie>>
      <4>1. r \notin {page.get, page.save, page.saved} \ {None}
        BY <2>1, NoneAssumption DEF UpdateInv, PageIsMine, Mine
      <4>2. Elsewhere BY <1>t, <2>1, <2>3, <3>1, <4>1 DEF Elsewhere
      <4> QED BY <4>2, ElsewhereKeepsPage DEF UpdateInv
    <3> QED
      BY <3>1, ClosedIsMine
      DEF SignInStep, Callback, ReadState, RedeemCode, DeleteState, FindUser, CreateUser, Created,
          GenerateToken
  <2> QED BY <2>4, <2>5 DEF UpdateInv
<1>3. CASE UNCHANGED vars BY <1>0, <1>3 DEF vars, Row, History
<1> QED BY <1>1, <1>2, <1>3, UpdatesKeptByPage, UpdatesKeptByAccount, StepCases

\* Once the page has saved a name and fetched the account again it does not show the name
\* that was replaced, whatever other tabs save and read meanwhile, unless that fetch was
\* answered from a cached account that CacheIsCurrent excepts (settings/page.tsx).
THEOREM SavedNameIsShown == Spec => []OwnUpdateShows
<1> DEFINE Inv == Types /\ KindsInv /\ CacheInv /\ UpdateInv
<1>1. Init => Inv
  <2> SUFFICES ASSUME Init PROVE Inv OBVIOUS
  <2>1. \A r \in Requests : req[r] = Idle BY DEF Init
  <2>2. KindsInv BY <2>1, NoneAssumption DEF Idle, KindsInv
  <2>3. CacheInv BY <2>1 DEF Init, CacheInv, StoresAreCurrent, CacheIsCurrent, Idle
  <2>4. page = ClosedPage BY DEF Init
  <2>5. PageIsMine /\ FetchIsNew /\ OwnUpdateShows
    BY <2>4 DEF ClosedPage, PageIsMine, FetchIsNew, OwnUpdateShows
  <2>6. NamesAreNew /\ PastIsOver
    BY <2>1, NoneAssumption DEF Init, Idle, NamesAreNew, PastIsOver, Applied
  <2> QED BY <2>2, <2>3, <2>5, <2>6, InitTypes DEF UpdateInv
<1>2. Inv /\ [Next]_vars => Inv' BY TypesKept, KindsKept, CacheKept, UpdatesKept
<1>3. Inv => OwnUpdateShows BY DEF UpdateInv
<1> QED BY <1>1, <1>2, <1>3, PTL DEF Spec
================================================================================
