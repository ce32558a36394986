---------------------------- MODULE AuthSessions ----------------------------
(***************************************************************************)
(* The session of one signed-in browser: API requests of its pages         *)
(* (fetchWithAuth: a request, a refresh when it is refused, the request    *)
(* again), AuthGuard, the refresh that replaces a pair of tokens, and      *)
(* logout. Pages share the cookies, so a page that sends three queries     *)
(* with an expired access token refreshes three times.                     *)
(*                                                                         *)
(* Simplifications:                                                        *)
(*  - a pair of tokens is named after the request whose refresh made it;   *)
(*  - a browser signs in once; another one has its own rows;               *)
(*  - the answer of a refresh or logout reaches the browser in a step of   *)
(*    its own, or never; other answers set no cookie;                      *)
(*  - a retried request takes less time than an access token lives.        *)
(***************************************************************************)
EXTENDS Integers, FiniteSets

CONSTANTS
  Requests,   \* calls of fetchWithAuth
  Logouts,    \* those that are POST /auth/logout
  SignIn,     \* the pair that the OAuth callback made
  None,       \* no cookie
  MaxFaults   \* how many calls may fail or answers be lost

ASSUME NamesAssumption == SignIn \notin Requests /\ None \notin Requests \cup {SignIn}
ASSUME LogoutAssumption == Logouts \subseteq Requests
ASSUME FaultAssumption == MaxFaults \in Nat

Pairs == Requests \cup {SignIn}
Cookie == Pairs \cup {None}

VARIABLES
  jar,        \* the access and refresh cookies of the browser
  fresh,      \* pairs whose access token has not expired
  outdated,   \* pairs whose refresh token has expired
  rows,       \* rows of RefreshToken
  blacklist,  \* access tokens in the cache Redis
  pc,         \* what a request does next
  acc, ref,   \* the cookies it was sent with
  faults,
  crossed,    \* requests that ran into another refresh or logout
  revoked     \* access tokens that a logout blacklisted without a failure, but for
              \* those that the cache Redis has evicted since

cookies == <<acc, ref>>
expiry == <<fresh, outdated>>
vars == <<jar, fresh, outdated, rows, blacklist, pc, acc, ref, faults, crossed, revoked>>

NoCookies == [access |-> None, refresh |-> None]

TypeOK ==
  /\ jar \in [access : Cookie, refresh : Cookie]
  /\ fresh \subseteq Pairs /\ outdated \subseteq Pairs /\ rows \subseteq Pairs
  /\ blacklist \subseteq Pairs
  /\ pc \in [Requests -> {"new", "guard", "find", "delete", "create", "set", "again",
                          "black", "seek", "drop", "clear", "ok", "refused", "failed"}]
  /\ acc \in [Requests -> Cookie] /\ ref \in [Requests -> Cookie]
  /\ faults \in 0..MaxFaults
  /\ crossed \subseteq Requests /\ revoked \subseteq Pairs

Init ==
  /\ jar = [access |-> SignIn, refresh |-> SignIn]
  /\ fresh = {SignIn} /\ outdated = {} /\ rows = {SignIn} /\ blacklist = {}
  /\ pc = [r \in Requests |-> "new"]
  /\ acc = [r \in Requests |-> None] /\ ref = [r \in Requests |-> None]
  /\ faults = 0 /\ crossed = {} /\ revoked = {}

-----------------------------------------------------------------------------
Outcome(ok) ==
  IF ok THEN UNCHANGED faults ELSE faults < MaxFaults /\ faults' = faults + 1

Applied(ok, new, old) == {new} \cup IF ok THEN {} ELSE {old}

Goto(r, label) == pc' = [pc EXCEPT ![r] = label]

\* From the refresh to the second attempt of a request, and logout.
Refreshing == {"find", "delete", "create", "set", "again"}
LoggingOut == {"black", "seek", "drop", "clear"}

\* Requests that are at a refresh or a logout together have crossed.
Track ==
  LET busy == {r \in Requests : pc'[r] \in Refreshing \cup LoggingOut} IN
  crossed' = IF Cardinality(busy) > 1 THEN crossed \cup busy ELSE crossed

-----------------------------------------------------------------------------
(* fetchWithAuth and AuthGuard.                                            *)

\* The request leaves with the cookies of the moment.
Send(r) ==
  /\ pc[r] = "new"
  /\ Goto(r, IF r \in Logouts THEN "black" ELSE "guard")
  /\ acc' = [acc EXCEPT ![r] = jar.access]
  /\ ref' = [ref EXCEPT ![r] = IF r \in Logouts THEN jar.refresh ELSE None]
  /\ UNCHANGED <<jar, expiry, rows, blacklist, faults, revoked>>

\* After a first refusal fetchWithAuth asks for a refresh; after a second it gives up.
AfterRefusal(r) ==
  IF pc[r] = "guard"
  THEN Goto(r, "find") /\ ref' = [ref EXCEPT ![r] = jar.refresh]
  ELSE Goto(r, "refused") /\ UNCHANGED ref

\* AuthGuard: a token that has not expired and is not in the blacklist. A blacklist
\* that cannot be read refuses.
Admitted(r) == acc[r] \in fresh \ blacklist

\* Faulty variant: a blacklist that cannot be read is only logged.
GuardFailsOpen(r) ==
  /\ pc[r] \in {"guard", "again"}
  /\ \/ Admitted(r) /\ Goto(r, "ok") /\ UNCHANGED <<ref, faults>>
     \/ ~Admitted(r) /\ AfterRefusal(r) /\ UNCHANGED faults
     \/ acc[r] \in fresh /\ Goto(r, "ok") /\ Outcome(FALSE) /\ UNCHANGED ref
  /\ UNCHANGED <<jar, expiry, rows, blacklist, acc, revoked>>

Guard(r) ==
  /\ pc[r] \in {"guard", "again"}
  /\ \/ Admitted(r) /\ Goto(r, "ok") /\ UNCHANGED <<ref, faults>>
     \/ ~Admitted(r) /\ AfterRefusal(r) /\ UNCHANGED faults
     \/ AfterRefusal(r) /\ Outcome(FALSE)
  /\ UNCHANGED <<jar, expiry, rows, blacklist, acc, revoked>>

-----------------------------------------------------------------------------
(* refresh.                                                                *)

\* refreshToken.findUnique, by the id in the cookie.
FindToken(r) ==
  /\ pc[r] = "find"
  /\ \E ok \in BOOLEAN :
       Outcome(ok) /\ Goto(r, IF ok /\ ref[r] \in rows THEN "delete" ELSE "refused")
  /\ UNCHANGED <<jar, expiry, rows, blacklist, cookies, revoked>>

\* Faulty variant: deleteMany, which does not mind that there is no row.
DeleteTokens(r) ==
  /\ pc[r] = "delete"
  /\ rows' = rows \ {ref[r]}
  /\ Goto(r, IF ref[r] \notin outdated THEN "create" ELSE "refused")
  /\ UNCHANGED <<jar, expiry, blacklist, cookies, faults, revoked>>

\* refreshToken.delete, which throws P2025 when the row is gone; then the row's
\* expires_at is looked at.
DeleteToken(r) ==
  /\ pc[r] = "delete"
  /\ \E ok \in BOOLEAN :
       /\ Outcome(ok)
       /\ rows' \in Applied(ok, rows \ {ref[r]}, rows)
       /\ Goto(r, IF ok /\ ref[r] \in rows \ outdated THEN "create" ELSE "refused")
  /\ UNCHANGED <<jar, expiry, blacklist, cookies, revoked>>

\* generateToken: both tokens and the row of the refresh token.
CreateToken(r) ==
  /\ pc[r] = "create"
  /\ \E ok \in BOOLEAN :
       /\ Outcome(ok)
       /\ rows' \in Applied(ok, rows \cup {r}, rows)
       /\ Goto(r, IF ok THEN "set" ELSE "refused")
  /\ fresh' = fresh \cup {r}
  /\ UNCHANGED <<jar, outdated, blacklist, cookies, revoked>>

\* Faulty variant: the second attempt carries the cookies of the first.
SetCookiesSendOld(r) ==
  /\ pc[r] = "set"
  /\ jar' = [access |-> r, refresh |-> r]
  /\ Goto(r, "again")
  /\ UNCHANGED <<expiry, rows, blacklist, cookies, faults, revoked>>

\* Faulty variant: the answer sets the access cookie only.
SetAccessCookie(r) ==
  /\ pc[r] = "set"
  /\ jar' = [jar EXCEPT !.access = r]
  /\ acc' = [acc EXCEPT ![r] = r]
  /\ Goto(r, "again")
  /\ UNCHANGED <<expiry, rows, blacklist, ref, faults, revoked>>

\* The answer sets both cookies and fetchWithAuth sends the request again.
SetCookies(r) ==
  /\ pc[r] = "set"
  /\ \/ /\ jar' = [access |-> r, refresh |-> r]
        /\ acc' = [acc EXCEPT ![r] = r]
        /\ Goto(r, "again") /\ UNCHANGED faults
     \/ Outcome(FALSE) /\ Goto(r, "refused") /\ UNCHANGED <<jar, acc>>
  /\ UNCHANGED <<expiry, rows, blacklist, ref, revoked>>

Refresh(r) == FindToken(r) \/ DeleteToken(r) \/ CreateToken(r) \/ SetCookies(r)

-----------------------------------------------------------------------------
(* logout.                                                                 *)

\* The access token goes into the blacklist; a failure is only logged.
Blacklist(r) ==
  LET listed == blacklist \cup ({acc[r]} \ {None}) IN
  /\ pc[r] = "black"
  /\ \E ok \in BOOLEAN :
       /\ (acc[r] = None => ok) /\ Outcome(ok)
       /\ blacklist' \in Applied(ok, listed, blacklist)
       /\ revoked' = IF ok THEN revoked \cup ({acc[r]} \ {None}) ELSE revoked
  /\ Goto(r, "seek")
  /\ UNCHANGED <<jar, expiry, rows, cookies>>

\* refreshToken.findUnique; without a cookie or a row there is nothing left to do.
SeekToken(r) ==
  /\ pc[r] = "seek"
  /\ \E ok \in BOOLEAN :
       /\ (ref[r] = None => ok) /\ Outcome(ok)
       /\ Goto(r, IF ~ok THEN "failed" ELSE IF ref[r] \in rows THEN "drop" ELSE "clear")
  /\ UNCHANGED <<jar, expiry, rows, blacklist, cookies, revoked>>

\* refreshToken.delete, which throws P2025 when the row is gone.
DropToken(r) ==
  /\ pc[r] = "drop"
  /\ \E ok \in BOOLEAN :
       /\ Outcome(ok)
       /\ rows' \in Applied(ok, rows \ {ref[r]}, rows)
       /\ Goto(r, IF ok /\ ref[r] \in rows THEN "clear" ELSE "failed")
  /\ UNCHANGED <<jar, expiry, blacklist, cookies, revoked>>

\* Faulty variant: the refresh cookie is forgotten.
ClearAccessCookie(r) ==
  /\ pc[r] = "clear"
  /\ jar' = [access |-> None]
  /\ Goto(r, "ok")
  /\ UNCHANGED <<expiry, rows, blacklist, cookies, faults, revoked>>

\* The answer clears the cookies.
ClearCookies(r) ==
  /\ pc[r] = "clear"
  /\ \/ jar' = NoCookies /\ Goto(r, "ok") /\ UNCHANGED faults
     \/ Outcome(FALSE) /\ Goto(r, "failed") /\ UNCHANGED jar
  /\ UNCHANGED <<expiry, rows, blacklist, cookies, revoked>>

Logout(r) == Blacklist(r) \/ SeekToken(r) \/ DropToken(r) \/ ClearCookies(r)

-----------------------------------------------------------------------------
(* Time.                                                                   *)

\* TOKEN.ACCESS.EXPIRATION: the token and its cookie.
ExpireAccess(p) ==
  /\ p \in fresh
  /\ \A r \in Requests : pc[r] \in {"set", "again"} => p # r
  /\ fresh' = fresh \ {p}
  /\ jar' = IF jar.access = p THEN [jar EXCEPT !.access = None] ELSE jar
  /\ UNCHANGED <<outdated, rows, blacklist, pc, cookies, faults, revoked>>

\* TOKEN.REFRESH.EXPIRATION: expires_at and the cookie. The row stays.
ExpireRefresh(p) ==
  /\ p \in Pairs \ (fresh \cup outdated)
  /\ p = jar.refresh \/ \E r \in Requests : ref[r] = p /\ pc[r] \in {"find", "delete"}
  /\ outdated' = outdated \cup {p}
  /\ jar' = IF jar.refresh = p THEN [jar EXCEPT !.refresh = None] ELSE jar
  /\ UNCHANGED <<fresh, rows, blacklist, pc, cookies, faults, revoked>>

\* The TTL of a blacklisted token is the whole life of an access token.
ForgetBlacklisted(p) ==
  /\ p \in blacklist \ fresh
  /\ blacklist' = blacklist \ {p}
  /\ UNCHANGED <<jar, expiry, rows, pc, cookies, faults, revoked>>

\* maxmemory-policy volatile-lfu: a full cache Redis drops a key that has a TTL.
Evict(p) ==
  /\ p \in blacklist
  /\ blacklist' = blacklist \ {p}
  /\ revoked' = revoked \ {p}
  /\ UNCHANGED <<jar, expiry, rows, pc, cookies, faults>>

Step ==
  \/ \E r \in Requests : Send(r) \/ Guard(r) \/ Refresh(r) \/ Logout(r)
  \/ \E p \in Pairs : ExpireAccess(p) \/ ExpireRefresh(p) \/ ForgetBlacklisted(p) \/ Evict(p)

Next == Step /\ Track

Spec == Init /\ [][Next]_vars

-----------------------------------------------------------------------------
(* Properties.                                                             *)

\* However requests of the browser's pages refresh at the same time, and whatever
\* fails, its session never has two live refresh tokens: only the request whose
\* delete found the row creates the next one.
SessionsDoNotMultiply == Cardinality(rows) <= 1

\* An access token that a logout blacklisted is not admitted any more, by requests
\* that were sent before the logout or whose guard cannot read the blacklist either,
\* unless the cache Redis has evicted the entry to make room.
RevokedTokensAreRefused ==
  [][\A r \in Requests : pc[r] # "ok" /\ pc'[r] = "ok" /\ r \notin Logouts
       => acc[r] \notin revoked]_vars

Quiet == \A r \in Requests : pc[r] \in {"new", "ok", "refused", "failed"}
LoggedOut == \E r \in Logouts : pc[r] # "new"

\* Requests that refresh at the same time do not lose the session: without a
\* failure, the browser is left with the one refresh token that is in the database,
\* as long as nobody logs out and the token does not expire.
SessionSurvives ==
  faults = 0 /\ Quiet /\ ~LoggedOut /\ outdated = {} => rows = {jar.refresh}

\* A request of a browser that has a session is refused only when a failure or
\* another request's refresh or logout came in its way.
OnlyCrossedRequestsAreRefused ==
  \A r \in Requests :
    pc[r] = "refused" /\ faults = 0 /\ r \notin crossed => jar.refresh = None
=============================================================================
