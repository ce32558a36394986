------------------------- MODULE AuthSessionsProofs -------------------------
(***************************************************************************)
(* For any number of requests, logouts and failures: a session never has   *)
(* two live refresh tokens, and an access token that a logout blacklisted  *)
(* is not admitted again. Two invariants carry the proofs: whoever is      *)
(* about to create a row has deleted the only one, and a blacklisted token *)
(* stays in the blacklist until it expires or Redis evicts it.             *)
(*                                                                         *)
(* Without a failure the browser also keeps its session, and only requests *)
(* that crossed are refused: the refresh cookie has its row or somebody    *)
(* is about to replace it, and a request that is alone is that somebody.   *)
(***************************************************************************)
EXTENDS AuthSessions, FiniteSetTheorems, TLAPS

\* One row, or one request that is about to create one, or neither.
OneRow ==
  /\ \A p, q \in rows : p = q
  /\ \A r \in Requests : pc[r] = "create" => rows = {}
  /\ \A r, q \in Requests : pc[r] = "create" /\ pc[q] = "create" => r = q

\* A pair whose cookies have been set.
Issued(p) == p = SignIn \/ (p \in Requests /\ pc[p] \in {"again", "ok", "refused"})

\* Access tokens that are in use are those of issued pairs, a revoked one is in the
\* blacklist until it expires, and only logouts clear cookies.
Revocation ==
  /\ jar.access # None => Issued(jar.access)
  /\ \A r \in Requests : acc[r] # None => Issued(acc[r])
  /\ \A p \in revoked : Issued(p)
  /\ revoked \cap fresh \subseteq blacklist
  /\ \A r \in Requests : pc[r] \in LoggingOut => r \in Logouts

LEMMA InitInv == Init => TypeOK /\ OneRow /\ Revocation
  BY NamesAssumption, FaultAssumption
     DEF Init, TypeOK, OneRow, Revocation, Issued, Pairs, Cookie, LoggingOut

LEMMA TypeStep == TypeOK /\ [Next]_vars => TypeOK'
  <1> SUFFICES ASSUME TypeOK, [Next]_vars PROVE TypeOK'
    OBVIOUS
  <1> USE NamesAssumption, LogoutAssumption, FaultAssumption DEF TypeOK, Pairs, Cookie, Goto, Outcome
  <1> DEFINE T == /\ jar \in [access : Cookie, refresh : Cookie]
                  /\ fresh \subseteq Pairs /\ outdated \subseteq Pairs /\ rows \subseteq Pairs
                  /\ blacklist \subseteq Pairs
                  /\ pc \in [Requests -> {"new", "guard", "find", "delete", "create", "set",
                             "again", "black", "seek", "drop", "clear", "ok", "refused", "failed"}]
                  /\ acc \in [Requests -> Cookie] /\ ref \in [Requests -> Cookie]
                  /\ faults \in 0..MaxFaults /\ revoked \subseteq Pairs
  <1>1. ASSUME NEW r \in Requests, Send(r) PROVE T'
    BY <1>1 DEF Send, expiry
  <1>2. ASSUME NEW r \in Requests, Guard(r) PROVE T'
    BY <1>2 DEF Guard, AfterRefusal, expiry
  <1>3. ASSUME NEW r \in Requests, FindToken(r) PROVE T'
    BY <1>3 DEF FindToken, expiry, cookies
  <1>4. ASSUME NEW r \in Requests, DeleteToken(r) PROVE T'
    BY <1>4 DEF DeleteToken, Applied, expiry, cookies
  <1>5. ASSUME NEW r \in Requests, CreateToken(r) PROVE T'
    BY <1>5 DEF CreateToken, Applied, cookies
  <1>6. ASSUME NEW r \in Requests, SetCookies(r) PROVE T'
    BY <1>6 DEF SetCookies, expiry
  <1>7. ASSUME NEW r \in Requests, Blacklist(r) PROVE T'
    BY <1>7 DEF Blacklist, Applied, expiry, cookies
  <1>8. ASSUME NEW r \in Requests, SeekToken(r) PROVE T'
    BY <1>8 DEF SeekToken, expiry, cookies
  <1>9. ASSUME NEW r \in Requests, DropToken(r) PROVE T'
    BY <1>9 DEF DropToken, Applied, expiry, cookies
  <1>10. ASSUME NEW r \in Requests, ClearCookies(r) PROVE T'
    BY <1>10 DEF ClearCookies, NoCookies, expiry, cookies
  <1>11. ASSUME NEW p \in Pairs, ExpireAccess(p) \/ ExpireRefresh(p) \/ ForgetBlacklisted(p) \/ Evict(p)
         PROVE T'
    BY <1>11 DEF ExpireAccess, ExpireRefresh, ForgetBlacklisted, Evict, expiry, cookies
  <1>12. CASE Next
    <2>1. T'
      BY <1>12, <1>1, <1>2, <1>3, <1>4, <1>5, <1>6, <1>7, <1>8, <1>9, <1>10, <1>11
         DEF Next, Step, Refresh, Logout
    <2>2. crossed' \subseteq Requests
      BY <1>12 DEF Next, Track
    <2> QED
      BY <2>1, <2>2
  <1>13. CASE UNCHANGED vars
    BY <1>13 DEF vars
  <1> QED
    BY <1>12, <1>13

\* Only a refresh that deleted the row gets to create the next one.
LEMMA OneRowStep ==
  ASSUME TypeOK, OneRow, [Next]_vars PROVE OneRow'
  <1> USE DEF TypeOK, OneRow, Goto
  <1>1. ASSUME NEW r \in Requests, DeleteToken(r) PROVE OneRow'
    <2>1. CASE pc'[r] = "create"
      <3>1. ref[r] \in rows /\ rows' = rows \ {ref[r]}
        BY <1>1, <2>1 DEF DeleteToken, Applied
      <3>2. rows' = {}
        BY <3>1
      <3>3. \A q \in Requests : pc[q] # "create"
        BY <3>1
      <3> QED
        BY <1>1, <3>2, <3>3 DEF DeleteToken
    <2>2. CASE pc'[r] # "create"
      <3>1. rows' \subseteq rows
        BY <1>1 DEF DeleteToken, Applied
      <3>2. \A q \in Requests : pc'[q] = "create" => pc[q] = "create"
        BY <1>1, <2>2 DEF DeleteToken
      <3> QED
        BY <3>1, <3>2
    <2> QED
      BY <2>1, <2>2
  <1>2. ASSUME NEW r \in Requests, CreateToken(r) PROVE OneRow'
    <2>1. rows = {} /\ rows' \subseteq {r}
      BY <1>2 DEF CreateToken, Applied
    <2>2. \A q \in Requests : pc'[q] # "create"
      BY <1>2 DEF CreateToken
    <2> QED
      BY <2>1, <2>2
  <1>3. ASSUME rows' \subseteq rows,
               \A q \in Requests : pc'[q] = "create" => pc[q] = "create"
        PROVE OneRow'
    BY <1>3
  <1>4. ASSUME NEW r \in Requests, Send(r) \/ Guard(r) PROVE OneRow'
    BY <1>4, <1>3 DEF Send, Guard, AfterRefusal
  <1>5. ASSUME NEW r \in Requests, FindToken(r) \/ SetCookies(r) PROVE OneRow'
    BY <1>5, <1>3 DEF FindToken, SetCookies
  <1>6. ASSUME NEW r \in Requests, Logout(r) PROVE OneRow'
    BY <1>6, <1>3 DEF Logout, Blacklist, SeekToken, DropToken, ClearCookies, Applied
  <1>7. ASSUME NEW p \in Pairs, ExpireAccess(p) \/ ExpireRefresh(p) \/ ForgetBlacklisted(p) \/ Evict(p)
        PROVE OneRow'
    BY <1>7, <1>3 DEF ExpireAccess, ExpireRefresh, ForgetBlacklisted, Evict
  <1>8. CASE UNCHANGED vars
    BY <1>8, <1>3 DEF vars
  <1> QED
    BY <1>1, <1>2, <1>4, <1>5, <1>6, <1>7, <1>8 DEF Next, Step, Refresh

\* Only requests move labels: what expires, or is forgotten, leaves them alone.
LEMMA LabelsMoveWithRequests ==
  ASSUME [Next]_vars
  PROVE  pc' = pc \/ \E r \in Requests : Send(r) \/ Guard(r) \/ Refresh(r) \/ Logout(r)
  <1>1. ASSUME NEW p \in Pairs, ExpireAccess(p) \/ ExpireRefresh(p) \/ ForgetBlacklisted(p) \/ Evict(p)
        PROVE  pc' = pc
    BY <1>1 DEF ExpireAccess, ExpireRefresh, ForgetBlacklisted, Evict
  <1>2. QED
    BY <1>1 DEF Next, Step, vars

\* Cookies that have been set are not taken back.
LEMMA IssuedStays ==
  ASSUME TypeOK, [Next]_vars PROVE \A p \in Pairs : Issued(p) => Issued(p)'
  <1> USE NamesAssumption DEF TypeOK, Pairs, Cookie, Goto
  <1> SUFFICES ASSUME NEW p \in Requests, pc[p] \in {"again", "ok", "refused"}
               PROVE pc'[p] \in {"again", "ok", "refused"}
    BY DEF Issued
  <1>1. ASSUME NEW r \in Requests, Send(r) \/ Guard(r) PROVE pc'[p] \in {"again", "ok", "refused"}
    BY <1>1 DEF Send, Guard, AfterRefusal
  <1>2. ASSUME NEW r \in Requests, Refresh(r) PROVE pc'[p] = pc[p]
    BY <1>2 DEF Refresh, FindToken, DeleteToken, CreateToken, SetCookies
  <1>3. ASSUME NEW r \in Requests, Logout(r) PROVE pc'[p] = pc[p]
    BY <1>3 DEF Logout, Blacklist, SeekToken, DropToken, ClearCookies
  <1> QED
    BY <1>1, <1>2, <1>3, LabelsMoveWithRequests

\* A new pair is not issued before it exists, ForgetBlacklisted waits for expiry, and
\* what is evicted is not counted as revoked any more.
LEMMA RevocationStep ==
  ASSUME TypeOK, Revocation, [Next]_vars PROVE Revocation'
  <1> USE NamesAssumption DEF TypeOK, Revocation, Pairs, Cookie, Goto
  <1>1. \A p \in Pairs : Issued(p) => Issued(p)'
    BY IssuedStays
  \* Steps that hand out no token, revoke none and renew none.
  <1>2. ASSUME jar'.access \in {jar.access, None},
               \A r \in Requests : acc'[r] \in {acc[r], jar.access, None},
               revoked' \subseteq revoked, fresh' \subseteq fresh,
               revoked' \cap blacklist \cap fresh' \subseteq blacklist',
               \A r \in Requests : pc'[r] \in LoggingOut => pc[r] \in LoggingOut \/ r \in Logouts
        PROVE Revocation'
    <2>1. jar'.access # None => Issued(jar.access)'
      BY <1>1, <1>2 DEF Issued
    <2>2. \A r \in Requests : acc'[r] # None => Issued(acc[r])'
      BY <1>1, <1>2 DEF Issued
    <2>3. \A p \in revoked' : Issued(p)'
      BY <1>1, <1>2 DEF Issued
    <2> QED
      BY <1>2, <2>1, <2>2, <2>3
  <1>3. ASSUME NEW r \in Requests, Send(r) PROVE Revocation'
    BY <1>3, <1>2 DEF Send, expiry, LoggingOut
  <1>4. ASSUME NEW r \in Requests, Guard(r) PROVE Revocation'
    <2>1. UNCHANGED <<jar, fresh, blacklist, acc, revoked>>
      BY <1>4 DEF Guard, expiry
    <2>2. \E label \in {"ok", "find", "refused"} : pc' = [pc EXCEPT ![r] = label]
      BY <1>4 DEF Guard, AfterRefusal
    <2>3. \A q \in Requests : pc'[q] \in LoggingOut => pc[q] \in LoggingOut
      BY <2>2 DEF LoggingOut
    <2> QED
      BY <2>1, <2>3, <1>2
  <1>5. ASSUME NEW r \in Requests, FindToken(r) \/ DeleteToken(r) PROVE Revocation'
    BY <1>5, <1>2 DEF FindToken, DeleteToken, expiry, cookies, LoggingOut
  <1>6. ASSUME NEW r \in Requests, CreateToken(r) PROVE Revocation'
    <2>1. r \notin revoked
      BY <1>6 DEF CreateToken, Issued
    <2>2. /\ jar' = jar /\ acc' = acc /\ revoked' = revoked /\ blacklist' = blacklist
          /\ fresh' = fresh \cup {r}
          /\ \A q \in Requests : pc'[q] \in LoggingOut => pc[q] \in LoggingOut
      BY <1>6 DEF CreateToken, cookies, LoggingOut
    <2>3. revoked' \cap fresh' \subseteq blacklist'
      BY <2>1, <2>2
    <2>4. \A q \in Requests : acc'[q] # None => Issued(acc[q])'
      BY <1>1, <2>2 DEF Issued
    <2> QED
      BY <1>1, <2>2, <2>3, <2>4 DEF Issued
  <1>7. ASSUME NEW r \in Requests, SetCookies(r) PROVE Revocation'
    <2>1. CASE pc' = [pc EXCEPT ![r] = "refused"]
      <3>1. UNCHANGED <<jar, fresh, blacklist, acc, revoked>>
        BY <1>7, <2>1 DEF SetCookies, expiry
      <3>2. \A q \in Requests : pc'[q] \in LoggingOut => pc[q] \in LoggingOut
        BY <2>1 DEF LoggingOut
      <3> QED
        BY <3>1, <3>2, <1>2
    <2>2. CASE pc' = [pc EXCEPT ![r] = "again"]
      <3>1. /\ jar' = [access |-> r, refresh |-> r] /\ acc' = [acc EXCEPT ![r] = r]
            /\ pc' = [pc EXCEPT ![r] = "again"]
            /\ UNCHANGED <<fresh, blacklist, revoked>>
        BY <1>7, <2>2 DEF SetCookies, expiry
      <3>2. Issued(r)'
        BY <3>1 DEF Issued
      <3>3. \A q \in Requests : acc'[q] # None => Issued(acc[q])'
        BY <1>1, <3>1, <3>2 DEF Issued
      <3>4. \A q \in Requests : pc'[q] \in LoggingOut => pc[q] \in LoggingOut
        BY <3>1 DEF LoggingOut
      <3> QED
        BY <1>1, <3>1, <3>2, <3>3, <3>4 DEF Issued
    <2> QED
      BY <1>7, <2>1, <2>2 DEF SetCookies
  <1>8. ASSUME NEW r \in Requests, Blacklist(r) PROVE Revocation'
    <2>1. /\ jar' = jar /\ acc' = acc /\ fresh' = fresh
          /\ blacklist \subseteq blacklist'
          /\ revoked' \subseteq revoked \cup ({acc[r]} \ {None})
          /\ revoked' # revoked => acc[r] \in blacklist' \cup {None}
          /\ \A q \in Requests : pc'[q] \in LoggingOut => pc[q] \in LoggingOut
      BY <1>8 DEF Blacklist, Applied, expiry, cookies, LoggingOut
    <2>2. \A p \in revoked' : Issued(p)'
      BY <1>1, <2>1 DEF Issued
    <2>3. revoked' \cap fresh' \subseteq blacklist'
      BY <2>1
    <2> QED
      BY <1>1, <2>1, <2>2, <2>3 DEF Issued
  <1>9. ASSUME NEW r \in Requests, SeekToken(r) \/ DropToken(r) \/ ClearCookies(r)
        PROVE Revocation'
    <2>1. /\ UNCHANGED <<fresh, blacklist, acc, revoked>>
          /\ jar'.access \in {jar.access, None}
      <3>1. CASE SeekToken(r) \/ DropToken(r)
        BY <3>1 DEF SeekToken, DropToken, expiry, cookies
      <3>2. CASE ClearCookies(r)
        <4>1. UNCHANGED <<fresh, blacklist, acc, revoked>>
          BY <3>2 DEF ClearCookies, expiry, cookies
        <4>2. jar' \in {jar, NoCookies}
          BY <3>2 DEF ClearCookies
        <4> QED
          BY <4>1, <4>2 DEF NoCookies
      <3> QED
        BY <1>9, <3>1, <3>2
    <2>2. \A q \in Requests : pc'[q] \in LoggingOut => pc[q] \in LoggingOut
      BY <1>9 DEF SeekToken, DropToken, ClearCookies, LoggingOut
    <2> QED
      BY <2>1, <2>2, <1>2
  <1>10. ASSUME NEW p \in Pairs, ExpireAccess(p) \/ ExpireRefresh(p) \/ ForgetBlacklisted(p) \/ Evict(p)
         PROVE Revocation'
    <2>1. revoked' \subseteq revoked /\ revoked' \cap blacklist \cap fresh' \subseteq blacklist'
      BY <1>10 DEF ExpireAccess, ExpireRefresh, ForgetBlacklisted, Evict, expiry
    <2>2. /\ jar'.access \in {jar.access, None} /\ UNCHANGED <<acc, pc>> /\ fresh' \subseteq fresh
      BY <1>10 DEF ExpireAccess, ExpireRefresh, ForgetBlacklisted, Evict, expiry, cookies
    <2> QED
      BY <2>1, <2>2, <1>2
  <1>11. CASE UNCHANGED vars
    BY <1>11, <1>2 DEF vars
  <1> QED
    BY <1>3, <1>4, <1>5, <1>6, <1>7, <1>8, <1>9, <1>10, <1>11
       DEF Next, Step, Refresh, Logout

LEMMA Invariance == Spec => [](TypeOK /\ OneRow /\ Revocation)
  <1> QED
    BY InitInv, TypeStep, OneRowStep, RevocationStep, PTL DEF Spec

\* Every variable of AuthSessions keeps its type, for any requests and failures.
THEOREM TypeCorrect == Spec => []TypeOK
  BY Invariance, PTL

\* The rotation of refresh tokens never leaves a session with two rows, however many
\* requests refresh at the same time and whatever fails.
THEOREM OneRefreshToken == Spec => []SessionsDoNotMultiply
  <1>1. TypeOK /\ OneRow => SessionsDoNotMultiply
    <2> SUFFICES ASSUME OneRow PROVE SessionsDoNotMultiply
      OBVIOUS
    <2>1. CASE rows = {}
      BY <2>1, FS_EmptySet DEF SessionsDoNotMultiply
    <2>2. ASSUME NEW p \in rows PROVE SessionsDoNotMultiply
      <3>1. rows = {p}
        BY <2>2 DEF OneRow
      <3>2. Cardinality({p}) = 1
        BY FS_Singleton
      <3> QED
        BY <3>1, <3>2 DEF SessionsDoNotMultiply
    <2> QED
      BY <2>1, <2>2
  <1> QED
    BY <1>1, Invariance, PTL

\* AuthGuard never admits an access token that a logout has blacklisted and Redis has
\* not evicted, for any requests under way and any failures.
THEOREM BlacklistHolds == Spec => RevokedTokensAreRefused
  <1> DEFINE A == \A r \in Requests : pc[r] # "ok" /\ pc'[r] = "ok" /\ r \notin Logouts
                    => acc[r] \notin revoked
  <1>1. TypeOK /\ Revocation /\ [Next]_vars => [A]_vars
    <2> SUFFICES ASSUME TypeOK, Revocation, Next,
                        NEW q \in Requests, pc[q] # "ok", pc'[q] = "ok", q \notin Logouts
                 PROVE acc[q] \notin revoked
      OBVIOUS
    <2> USE DEF TypeOK, Goto
    <2>1. ASSUME NEW r \in Requests, Guard(r) PROVE acc[q] \notin revoked
      BY <2>1 DEF Guard, AfterRefusal, Admitted, Revocation
    <2>2. ASSUME NEW r \in Requests, Send(r) \/ Refresh(r) PROVE FALSE
      BY <2>2 DEF Send, Refresh, FindToken, DeleteToken, CreateToken, SetCookies
    <2>3. ASSUME NEW r \in Requests, Logout(r) PROVE FALSE
      BY <2>3 DEF Logout, Blacklist, SeekToken, DropToken, ClearCookies, Revocation, LoggingOut
    <2>4. ASSUME NEW p \in Pairs, ExpireAccess(p) \/ ExpireRefresh(p) \/ ForgetBlacklisted(p) \/ Evict(p)
          PROVE FALSE
      BY <2>4 DEF ExpireAccess, ExpireRefresh, ForgetBlacklisted, Evict
    <2> QED
      BY <2>1, <2>2, <2>3, <2>4 DEF Next, Step
  <1> QED
    BY <1>1, Invariance, PTL DEF Spec, RevokedTokensAreRefused

-----------------------------------------------------------------------------
(* Requests that do not cross.                                             *)

Busy(r) == pc[r] \in Refreshing \cup LoggingOut

\* What is refreshed, blacklisted or outdated has been set as a cookie, and the refresh
\* cookie disappears with a logout or with the age of a token only.
IssuedInv ==
  /\ jar.refresh # None => Issued(jar.refresh) /\ jar.refresh \notin outdated
  /\ \A r \in Requests : ref[r] # None => Issued(ref[r])
  /\ \A p \in blacklist \cup outdated : Issued(p)
  /\ \A r \in Requests : pc[r] \in {"set", "again"} => r \in fresh
  /\ jar.refresh = None => LoggedOut \/ outdated # {}

\* Whoever has not crossed is alone at a refresh or logout.
CrossInv ==
  /\ IsFiniteSet({r \in Requests : Busy(r)})
  /\ \A r, q \in Requests : Busy(r) /\ Busy(q) /\ r \notin crossed => r = q

\* The refresh cookie has its row, unless a request is about to replace or clear it.
TokenInv ==
  /\ \A q \in Requests : pc[q] = "set" => q \in rows
  /\ jar.refresh \in rows \cup {None} \/ \E q \in Requests : pc[q] \in {"create", "set", "clear"}

\* A request that is alone refreshes the cookie that is there; when it has been refused
\* there is none, and none is on its way.
LoneInv ==
  \A r \in Requests \ crossed :
    /\ pc[r] \in {"find", "delete", "create", "set"} => jar.refresh \in {None, ref[r]}
    /\ pc[r] = "again" => acc[r] = r /\ r \notin blacklist
    /\ pc[r] = "refused" =>
         /\ jar.refresh = None
         /\ \A q \in Requests : /\ pc[q] \notin {"delete", "create", "set"}
                                /\ pc[q] = "find" => ref[q] = None

FaultlessInv == faults = 0 => TokenInv /\ LoneInv

\* One request moves at a time.
LEMMA OneMoves ==
  ASSUME TypeOK, [Next]_vars
  PROVE  pc' = pc \/ \E r \in Requests : \E label : pc' = [pc EXCEPT ![r] = label]
  <1>1. ASSUME NEW r \in Requests, Send(r) \/ Guard(r) \/ Refresh(r) \/ Logout(r)
        PROVE  \E label : pc' = [pc EXCEPT ![r] = label]
    BY <1>1 DEF Send, Guard, AfterRefusal, Refresh, FindToken, DeleteToken, CreateToken, SetCookies,
       Logout, Blacklist, SeekToken, DropToken, ClearCookies, Goto
  <1>2. QED
    BY <1>1, LabelsMoveWithRequests

\* What AuthGuard and fetchWithAuth do with a request.
LEMMA GuardOutcomes ==
  ASSUME NEW r \in Requests, Guard(r)
  PROVE  /\ pc[r] \in {"guard", "again"}
         /\ UNCHANGED <<jar, fresh, outdated, rows, blacklist, acc, revoked>>
         /\ \/ pc' = [pc EXCEPT ![r] = "ok"] /\ ref' = ref
            \/ /\ pc[r] = "guard" /\ pc' = [pc EXCEPT ![r] = "find"]
               /\ ref' = [ref EXCEPT ![r] = jar.refresh]
            \/ pc[r] = "again" /\ pc' = [pc EXCEPT ![r] = "refused"] /\ ref' = ref
  BY DEF Guard, AfterRefusal, Goto, expiry

LEMMA CrossStep ==
  ASSUME TypeOK, CrossInv, [Next]_vars PROVE CrossInv' /\ crossed \subseteq crossed'
  <1> DEFINE busy == {r \in Requests : Busy(r)}
             after == {r \in Requests : pc'[r] \in Refreshing \cup LoggingOut}
  <1>1. IsFiniteSet(after)
    <2>1. IsFiniteSet(busy)
      BY DEF CrossInv
    <2>2. CASE pc' = pc
      <3>1. after = busy
        BY <2>2 DEF Busy
      <3>2. QED
        BY <2>1, <3>1
    <2>3. ASSUME NEW r \in Requests, NEW label, pc' = [pc EXCEPT ![r] = label]
          PROVE  IsFiniteSet(after)
      <3>1. after \subseteq busy \cup {r}
        BY <2>3 DEF TypeOK, Busy
      <3>2. IsFiniteSet(busy \cup {r})
        BY <2>1, FS_AddElement
      <3>3. QED
        BY <3>1, <3>2, FS_Subset
    <2>4. QED
      BY <2>2, <2>3, OneMoves
  <1>2. CASE UNCHANGED vars
    BY <1>2 DEF vars, CrossInv, Busy
  <1>3. CASE Next
    <2>1. crossed' = IF Cardinality(after) > 1 THEN crossed \cup after ELSE crossed
      BY <1>3 DEF Next, Track
    <2>2. ASSUME NEW r \in after, NEW q \in after, r # q PROVE r \in crossed'
      <3>1. {r} \cup {q} \subseteq after /\ q \notin {r}
        BY <2>2
      <3>2. IsFiniteSet({r}) /\ Cardinality({r}) = 1
        BY FS_Singleton
      <3>3. Cardinality({r} \cup {q}) = 2
        <4> HIDE DEF after
        <4>1. Cardinality({r} \cup {q}) = Cardinality({r}) + 1
          BY <3>1, <3>2, FS_AddElement
        <4>2. QED
          BY <3>2, <4>1
      <3>4. Cardinality({r} \cup {q}) <= Cardinality(after) /\ Cardinality(after) \in Nat
        <4> HIDE DEF after
        <4>1. QED
          BY <1>1, <3>1, FS_Subset, FS_CardinalityType
      <3>5. QED
        BY <2>1, <3>3, <3>4
    <2>3. crossed \subseteq crossed'
      BY <2>1
    <2>4. QED
      BY <1>1, <2>2, <2>3 DEF CrossInv, Busy
  <1>4. QED
    BY <1>2, <1>3

LEMMA IssuedStep ==
  ASSUME TypeOK, TypeOK', Revocation, IssuedInv, [Next]_vars PROVE IssuedInv'
  <1> USE NamesAssumption, LogoutAssumption DEF TypeOK, Pairs, Cookie, Goto
  <1>1. \A p \in Pairs : Issued(p) => Issued(p)'
    BY IssuedStays
  <1>2. LoggedOut => LoggedOut'
    <2> SUFFICES ASSUME NEW r \in Logouts, pc[r] # "new" PROVE pc'[r] # "new"
      BY DEF LoggedOut
    <2>1. ASSUME NEW q \in Requests, Send(q) \/ Guard(q) PROVE pc'[r] # "new"
      BY <2>1 DEF Send, Guard, AfterRefusal
    <2>2. ASSUME NEW q \in Requests, Refresh(q) PROVE pc'[r] # "new"
      BY <2>2 DEF Refresh, FindToken, DeleteToken, CreateToken, SetCookies
    <2>3. ASSUME NEW q \in Requests, Logout(q) PROVE pc'[r] # "new"
      <3>1. \E label \in {"seek", "drop", "clear", "ok", "failed"} : pc' = [pc EXCEPT ![q] = label]
        BY <2>3 DEF Logout, Blacklist, SeekToken, DropToken, ClearCookies
      <3>2. QED
        BY <3>1
    <2> QED
      BY <2>1, <2>2, <2>3, LabelsMoveWithRequests
  \* Steps that set no cookie, blacklist nothing and let nothing expire.
  <1>3. ASSUME jar' = jar, \A r \in Requests : ref'[r] \in {ref[r], jar.refresh},
               blacklist' \subseteq blacklist, outdated' = outdated, fresh \subseteq fresh',
               \A r \in Requests : pc'[r] \in {"set", "again"} => pc[r] \in {"set", "again"} \/ r \in fresh'
        PROVE  IssuedInv'
    <2>1. jar'.refresh # None => Issued(jar.refresh)' /\ jar'.refresh \notin outdated'
      BY <1>1, <1>3 DEF IssuedInv, Issued
    <2>2. \A r \in Requests : ref'[r] # None => Issued(ref[r])'
      BY <1>1, <1>3 DEF IssuedInv, Issued
    <2>3. \A p \in blacklist' \cup outdated' : Issued(p)'
      BY <1>1, <1>3 DEF IssuedInv
    <2>4. QED
      BY <1>2, <1>3, <2>1, <2>2, <2>3 DEF IssuedInv
  <1>4. ASSUME NEW r \in Requests, Send(r) PROVE IssuedInv'
    <2>1. \A q \in Requests : ref'[q] \in {ref[q], jar.refresh} \/ ref'[q] = None
      BY <1>4 DEF Send
    <2>2. jar' = jar /\ blacklist' = blacklist /\ outdated' = outdated /\ fresh' = fresh
          /\ \A q \in Requests : pc'[q] \in {"set", "again"} => pc[q] \in {"set", "again"}
      BY <1>4 DEF Send, expiry
    <2>3. \A q \in Requests : ref'[q] # None => Issued(ref[q])'
      BY <1>1, <2>1 DEF IssuedInv, Issued
    <2>4. jar'.refresh # None => Issued(jar.refresh)' /\ jar'.refresh \notin outdated'
      BY <1>1, <2>2 DEF IssuedInv, Issued
    <2>5. \A p \in blacklist' \cup outdated' : Issued(p)'
      BY <1>1, <2>2 DEF IssuedInv
    <2>6. QED
      BY <1>2, <2>2, <2>3, <2>4, <2>5 DEF IssuedInv
  <1>5. ASSUME NEW r \in Requests, Guard(r) PROVE IssuedInv'
    <2>1. UNCHANGED <<jar, fresh, outdated, blacklist>>
      BY <1>5, GuardOutcomes
    <2>2. \A q \in Requests : ref'[q] \in {ref[q], jar.refresh}
      <3>1. ref' \in {ref, [ref EXCEPT ![r] = jar.refresh]}
        BY <1>5, GuardOutcomes
      <3>2. QED
        BY <3>1
    <2>3. \A q \in Requests : pc'[q] \in {"set", "again"} => pc[q] \in {"set", "again"}
      <3>1. \E label \in {"ok", "find", "refused"} : pc' = [pc EXCEPT ![r] = label]
        BY <1>5, GuardOutcomes
      <3>2. QED
        BY <3>1
    <2>4. QED
      BY <1>3, <2>1, <2>2, <2>3
  <1>6. ASSUME NEW r \in Requests, FindToken(r) \/ DeleteToken(r) \/ CreateToken(r) PROVE IssuedInv'
    <2>1. jar' = jar /\ outdated' = outdated /\ blacklist' = blacklist /\ ref' = ref
          /\ fresh \subseteq fresh'
      BY <1>6 DEF FindToken, DeleteToken, CreateToken, expiry, cookies
    <2>2. \A q \in Requests :
            pc'[q] \in {"set", "again"} => pc[q] \in {"set", "again"} \/ q \in fresh'
      BY <1>6 DEF FindToken, DeleteToken, CreateToken
    <2>3. QED
      BY <1>3, <2>1, <2>2
  <1>7. ASSUME NEW r \in Requests, SetCookies(r) PROVE IssuedInv'
    <2>1. CASE jar' = jar
      <3>1. UNCHANGED <<fresh, outdated, blacklist, ref>> /\ pc[r] = "set"
        BY <1>7 DEF SetCookies, expiry
      <3>2. \E label \in {"again", "refused"} : pc' = [pc EXCEPT ![r] = label]
        BY <1>7 DEF SetCookies
      <3>3. \A q \in Requests : pc'[q] \in {"set", "again"} => pc[q] \in {"set", "again"}
        BY <3>1, <3>2
      <3>4. QED
        BY <1>3, <2>1, <3>1, <3>3
    <2>2. CASE jar' = [access |-> r, refresh |-> r] /\ pc' = [pc EXCEPT ![r] = "again"]
      <3>1. UNCHANGED <<fresh, outdated, blacklist, ref>> /\ pc[r] = "set"
        BY <1>7 DEF SetCookies, expiry
      <3>2. ~Issued(r) /\ Issued(r)' /\ r # None
        BY <2>2, <3>1 DEF Issued
      <3>3. \A q \in Requests : ref'[q] # None => Issued(ref[q])'
        BY <1>1, <3>1 DEF IssuedInv, Issued
      <3>4. \A p \in blacklist' \cup outdated' : Issued(p)'
        BY <1>1, <3>1 DEF IssuedInv
      <3>5. jar'.refresh = r /\ r \notin outdated'
        BY <2>2, <3>1, <3>2 DEF IssuedInv
      <3>6. \A q \in Requests : pc'[q] \in {"set", "again"} => q \in fresh'
        BY <2>2, <3>1 DEF IssuedInv
      <3>7. Issued(jar.refresh)'
        BY <3>2, <3>5 DEF Issued
      <3>8. QED
        BY <3>2, <3>3, <3>4, <3>5, <3>6, <3>7 DEF IssuedInv
    <2>3. QED
      BY <1>7, <2>1, <2>2 DEF SetCookies
  <1>8. ASSUME NEW r \in Requests, Blacklist(r) PROVE IssuedInv'
    <2>1. /\ UNCHANGED <<jar, fresh, outdated, ref>>
          /\ blacklist' \subseteq blacklist \cup ({acc[r]} \ {None})
          /\ \A q \in Requests : pc'[q] \in {"set", "again"} => pc[q] \in {"set", "again"}
      BY <1>8 DEF Blacklist, Applied, expiry, cookies
    <2>2. \A p \in blacklist' \cup outdated' : Issued(p)'
      BY <1>1, <2>1 DEF IssuedInv, Revocation, Issued
    <2>3. jar'.refresh # None => Issued(jar.refresh)' /\ jar'.refresh \notin outdated'
      BY <1>1, <2>1 DEF IssuedInv, Issued
    <2>4. \A q \in Requests : ref'[q] # None => Issued(ref[q])'
      BY <1>1, <2>1 DEF IssuedInv, Issued
    <2>5. QED
      BY <1>2, <2>1, <2>2, <2>3, <2>4 DEF IssuedInv
  <1>9. ASSUME NEW r \in Requests, SeekToken(r) \/ DropToken(r) PROVE IssuedInv'
    <2>1. UNCHANGED <<jar, fresh, outdated, blacklist, ref>>
      BY <1>9 DEF SeekToken, DropToken, expiry, cookies
    <2>2. \A q \in Requests : pc'[q] \in {"set", "again"} => pc[q] \in {"set", "again"}
      BY <1>9 DEF SeekToken, DropToken
    <2>3. QED
      BY <1>3, <2>1, <2>2
  <1>10. ASSUME NEW r \in Requests, ClearCookies(r) PROVE IssuedInv'
    <2>1. /\ UNCHANGED <<fresh, outdated, blacklist, ref>> /\ jar' \in {jar, NoCookies}
          /\ \A q \in Requests : pc'[q] \in {"set", "again"} => pc[q] \in {"set", "again"}
      <3>1. UNCHANGED <<fresh, outdated, blacklist, ref>>
        BY <1>10 DEF ClearCookies, expiry, cookies
      <3>2. jar' \in {jar, NoCookies}
        BY <1>10 DEF ClearCookies
      <3>3. \E label \in {"ok", "failed"} : pc' = [pc EXCEPT ![r] = label]
        BY <1>10 DEF ClearCookies
      <3>4. \A q \in Requests : pc'[q] \in {"set", "again"} => pc[q] \in {"set", "again"}
        BY <3>3
      <3>5. QED
        BY <3>1, <3>2, <3>4
    <2>2. LoggedOut
      BY <1>10 DEF ClearCookies, Revocation, LoggingOut, LoggedOut
    <2>3. jar'.refresh \in {jar.refresh, None}
      BY <2>1 DEF NoCookies
    <2>4. \A q \in Requests : ref'[q] # None => Issued(ref[q])'
      BY <1>1, <2>1 DEF IssuedInv, Issued
    <2>5. \A p \in blacklist' \cup outdated' : Issued(p)'
      BY <1>1, <2>1 DEF IssuedInv
    <2>6. jar'.refresh # None => Issued(jar.refresh)' /\ jar'.refresh \notin outdated'
      BY <1>1, <2>1, <2>3 DEF IssuedInv, Issued
    <2>7. QED
      BY <1>2, <2>1, <2>2, <2>4, <2>5, <2>6 DEF IssuedInv
  <1>11. ASSUME NEW p \in Pairs, ExpireAccess(p) \/ ForgetBlacklisted(p) \/ Evict(p) PROVE IssuedInv'
    <2>1. /\ UNCHANGED <<outdated, ref, pc>> /\ blacklist' \subseteq blacklist
          /\ jar'.refresh = jar.refresh
          /\ \A r \in Requests : pc[r] \in {"set", "again"} /\ r \in fresh => r \in fresh'
      BY <1>11 DEF ExpireAccess, ForgetBlacklisted, Evict, expiry, cookies
    <2>2. QED
      BY <1>1, <1>2, <2>1 DEF IssuedInv, Issued
  <1>12. ASSUME NEW p \in Pairs, ExpireRefresh(p) PROVE IssuedInv'
    <2>1. /\ UNCHANGED <<fresh, ref, pc, blacklist>> /\ outdated' = outdated \cup {p}
          /\ jar'.refresh = IF jar.refresh = p THEN None ELSE jar.refresh
      BY <1>12 DEF ExpireRefresh, cookies
    <2>2. Issued(p)
      BY <1>12 DEF ExpireRefresh, IssuedInv
    <2>3. QED
      BY <1>1, <1>2, <2>1, <2>2 DEF IssuedInv, Issued
  <1>13. CASE UNCHANGED vars
    BY <1>3, <1>13 DEF vars
  <1>14. QED
    BY <1>4, <1>5, <1>6, <1>7, <1>8, <1>9, <1>10, <1>11, <1>12, <1>13 DEF Next, Step, Refresh, Logout

LEMMA FaultsGrow == ASSUME TypeOK, [Next]_vars PROVE faults' \in {faults, faults + 1}
  <1>1. ASSUME NEW r \in Requests, Send(r) \/ Guard(r) \/ Refresh(r) \/ Logout(r)
        PROVE  faults' \in {faults, faults + 1}
    BY <1>1 DEF Send, Guard, Refresh, FindToken, DeleteToken, CreateToken, SetCookies,
       Logout, Blacklist, SeekToken, DropToken, ClearCookies, Outcome
  <1>2. ASSUME NEW p \in Pairs, ExpireAccess(p) \/ ExpireRefresh(p) \/ ForgetBlacklisted(p) \/ Evict(p)
        PROVE  faults' = faults
    BY <1>2 DEF ExpireAccess, ExpireRefresh, ForgetBlacklisted, Evict
  <1>3. CASE UNCHANGED vars
    BY <1>3 DEF vars
  <1>4. QED
    BY <1>1, <1>2, <1>3 DEF Next, Step

\* The calls of a request when none of them fails.
LEMMA RefreshWithoutFaults ==
  ASSUME TypeOK, faults = 0, faults' = 0, NEW r \in Requests
  PROVE  /\ Guard(r) /\ pc'[r] = "refused" => pc[r] = "again" /\ ~Admitted(r)
         /\ FindToken(r) =>
              /\ pc[r] = "find" /\ UNCHANGED <<jar, fresh, outdated, rows, blacklist, acc, ref>>
              /\ pc' = [pc EXCEPT ![r] = IF ref[r] \in rows THEN "delete" ELSE "refused"]
         /\ DeleteToken(r) =>
              /\ pc[r] = "delete" /\ UNCHANGED <<jar, fresh, outdated, blacklist, acc, ref>>
              /\ rows' = rows \ {ref[r]}
              /\ pc' = [pc EXCEPT ![r] = IF ref[r] \in rows \ outdated THEN "create" ELSE "refused"]
         /\ CreateToken(r) =>
              /\ pc[r] = "create" /\ UNCHANGED <<jar, outdated, blacklist, acc, ref>>
              /\ rows' = rows \cup {r} /\ pc' = [pc EXCEPT ![r] = "set"]
         /\ SetCookies(r) =>
              /\ pc[r] = "set" /\ UNCHANGED <<fresh, outdated, rows, blacklist, ref>>
              /\ jar' = [access |-> r, refresh |-> r] /\ acc' = [acc EXCEPT ![r] = r]
              /\ pc' = [pc EXCEPT ![r] = "again"]
  <1>1. \A ok \in BOOLEAN : Outcome(ok) => ok
    BY DEF Outcome
  <1>2. Guard(r) /\ pc'[r] = "refused" => pc[r] = "again" /\ ~Admitted(r)
    BY <1>1 DEF TypeOK, Guard, AfterRefusal, Goto
  <1>3. QED
    BY <1>1, <1>2
       DEF FindToken, DeleteToken, CreateToken, SetCookies, Applied, Goto, expiry, cookies

LEMMA LogoutWithoutFaults ==
  ASSUME TypeOK, faults = 0, faults' = 0, NEW r \in Requests
  PROVE  /\ Blacklist(r) => /\ pc[r] = "black" /\ UNCHANGED <<jar, fresh, outdated, rows, acc, ref>>
                            /\ pc' = [pc EXCEPT ![r] = "seek"]
         /\ SeekToken(r) =>
              /\ pc[r] = "seek" /\ UNCHANGED <<jar, fresh, outdated, rows, blacklist, acc, ref>>
              /\ pc' = [pc EXCEPT ![r] = IF ref[r] \in rows THEN "drop" ELSE "clear"]
         /\ DropToken(r) =>
              /\ pc[r] = "drop" /\ UNCHANGED <<jar, fresh, outdated, blacklist, acc, ref>>
              /\ rows' = rows \ {ref[r]}
              /\ pc' = [pc EXCEPT ![r] = IF ref[r] \in rows THEN "clear" ELSE "failed"]
         /\ ClearCookies(r) =>
              /\ pc[r] = "clear" /\ UNCHANGED <<fresh, outdated, rows, blacklist, acc, ref>>
              /\ jar' = NoCookies /\ pc' = [pc EXCEPT ![r] = "ok"]
  <1>1. \A ok \in BOOLEAN : Outcome(ok) => ok
    BY DEF Outcome
  <1>2. QED
    BY <1>1 DEF Blacklist, SeekToken, DropToken, ClearCookies, Applied, Goto, expiry, cookies

\* Time takes away the refresh cookie at most, and nothing that a request waits for.
LEMMA TimeTakes ==
  ASSUME TypeOK, NEW p \in Pairs, ExpireAccess(p) \/ ExpireRefresh(p) \/ ForgetBlacklisted(p) \/ Evict(p)
  PROVE  /\ UNCHANGED <<rows, pc, acc, ref>> /\ blacklist' \subseteq blacklist
         /\ jar'.refresh \in {jar.refresh, None}
  BY DEF TypeOK, ExpireAccess, ExpireRefresh, ForgetBlacklisted, Evict, cookies

\* Without a failure the browser's refresh token is in the database or being replaced.
LEMMA TokenStep ==
  ASSUME TypeOK, TypeOK', OneRow, IssuedInv, TokenInv, faults = 0, faults' = 0, [Next]_vars
  PROVE  TokenInv'
  <1> USE NamesAssumption DEF TypeOK, Pairs, Cookie
  \* Steps that leave the row and the cookie alone, and take nobody from "create", "set", "clear".
  <1>1. ASSUME rows' = rows, jar'.refresh \in {jar.refresh, None},
               \A q \in Requests : pc[q] \in {"create", "set", "clear"} => pc'[q] = pc[q],
               \A q \in Requests : pc'[q] = "set" => pc[q] = "set"
        PROVE  TokenInv'
    <2>1. \A q \in Requests : pc'[q] = "set" => q \in rows'
      BY <1>1 DEF TokenInv
    <2>2. CASE jar.refresh \in rows \cup {None}
      BY <1>1, <2>1, <2>2 DEF TokenInv
    <2>3. ASSUME NEW q \in Requests, pc[q] \in {"create", "set", "clear"} PROVE TokenInv'
      BY <1>1, <2>1, <2>3 DEF TokenInv
    <2>4. QED
      BY <2>2, <2>3 DEF TokenInv
  \* Nobody whose pair has a row of its own is about to set it.
  <1>2. \A r, q \in Requests : pc[q] = "set" => q # ref[r]
    BY DEF IssuedInv, Issued
  <1>3. ASSUME NEW r \in Requests, Send(r) PROVE TokenInv'
    <2>1. UNCHANGED <<rows, jar>> /\ pc[r] = "new"
          /\ \E label \in {"black", "guard"} : pc' = [pc EXCEPT ![r] = label]
      BY <1>3 DEF Send, Goto
    <2>2. QED
      BY <1>1, <2>1
  <1>4. ASSUME NEW r \in Requests, Guard(r) PROVE TokenInv'
    <2>1. UNCHANGED <<rows, jar>> /\ pc[r] \in {"guard", "again"}
          /\ \E label \in {"ok", "find", "refused"} : pc' = [pc EXCEPT ![r] = label]
      BY <1>4, GuardOutcomes
    <2>2. QED
      BY <1>1, <2>1
  <1>5. ASSUME NEW r \in Requests, FindToken(r) PROVE TokenInv'
    <2>1. UNCHANGED <<rows, jar>> /\ pc[r] = "find"
          /\ \E label \in {"delete", "refused"} : pc' = [pc EXCEPT ![r] = label]
      BY <1>5, RefreshWithoutFaults
    <2>2. QED
      BY <1>1, <2>1
  <1>6. ASSUME NEW r \in Requests, DeleteToken(r) PROVE TokenInv'
    <2>1. /\ pc[r] = "delete" /\ jar' = jar /\ rows' = rows \ {ref[r]}
          /\ pc' = [pc EXCEPT ![r] = IF ref[r] \in rows \ outdated THEN "create" ELSE "refused"]
      BY <1>6, RefreshWithoutFaults
    <2>2. \A q \in Requests : pc'[q] = "set" => q \in rows'
      BY <1>2, <2>1 DEF TokenInv
    <2>3. CASE ref[r] \in rows \ outdated
      <3>1. pc'[r] = "create"
        BY <2>1, <2>3
      <3>2. QED
        BY <2>2, <3>1 DEF TokenInv
    <2>4. CASE ref[r] \notin rows \ outdated
      <3>1. CASE jar.refresh \in rows \cup {None}
        <4>1. jar.refresh = None \/ jar.refresh # ref[r]
          BY <2>4, <3>1 DEF IssuedInv
        <4>2. jar'.refresh \in rows' \cup {None}
          BY <2>1, <3>1, <4>1
        <4>3. QED
          BY <2>2, <4>2 DEF TokenInv
      <3>2. ASSUME NEW q \in Requests, pc[q] \in {"create", "set", "clear"} PROVE TokenInv'
        <4>1. pc'[q] = pc[q]
          BY <2>1, <3>2
        <4>2. QED
          BY <2>2, <3>2, <4>1 DEF TokenInv
      <3>3. QED
        BY <3>1, <3>2 DEF TokenInv
    <2>5. QED
      BY <2>3, <2>4
  <1>7. ASSUME NEW r \in Requests, CreateToken(r) PROVE TokenInv'
    <2>1. rows' = rows \cup {r} /\ pc' = [pc EXCEPT ![r] = "set"]
      BY <1>7, RefreshWithoutFaults
    <2>2. pc'[r] = "set"
      BY <2>1
    <2>3. \A q \in Requests : pc'[q] = "set" => q \in rows'
      BY <2>1 DEF TokenInv
    <2>4. QED
      BY <2>2, <2>3 DEF TokenInv
  <1>8. ASSUME NEW r \in Requests, SetCookies(r) PROVE TokenInv'
    <2>1. /\ pc[r] = "set" /\ rows' = rows /\ jar' = [access |-> r, refresh |-> r]
          /\ pc' = [pc EXCEPT ![r] = "again"]
      BY <1>8, RefreshWithoutFaults
    <2>2. jar'.refresh \in rows'
      BY <2>1 DEF TokenInv
    <2>3. \A q \in Requests : pc'[q] = "set" => q \in rows'
      BY <2>1 DEF TokenInv
    <2>4. QED
      BY <2>2, <2>3 DEF TokenInv
  <1>9. ASSUME NEW r \in Requests, Blacklist(r) \/ SeekToken(r) PROVE TokenInv'
    <2>1. UNCHANGED <<rows, jar>> /\ pc[r] \in {"black", "seek"}
          /\ \E label \in {"seek", "drop", "clear"} : pc' = [pc EXCEPT ![r] = label]
      BY <1>9, LogoutWithoutFaults
    <2>2. QED
      BY <1>1, <2>1
  <1>10. ASSUME NEW r \in Requests, DropToken(r) PROVE TokenInv'
    <2>1. /\ pc[r] = "drop" /\ jar' = jar /\ rows' = rows \ {ref[r]}
          /\ pc' = [pc EXCEPT ![r] = IF ref[r] \in rows THEN "clear" ELSE "failed"]
      BY <1>10, LogoutWithoutFaults
    <2>2. CASE ref[r] \in rows
      <3>1. pc'[r] = "clear"
        BY <2>1, <2>2
      <3>2. \A q \in Requests : pc'[q] = "set" => q \in rows'
        BY <1>2, <2>1 DEF TokenInv
      <3>3. QED
        BY <3>1, <3>2 DEF TokenInv
    <2>3. CASE ref[r] \notin rows
      <3>1. rows' = rows /\ pc' = [pc EXCEPT ![r] = "failed"]
        BY <2>1, <2>3
      <3>2. QED
        BY <1>1, <2>1, <3>1
    <2>4. QED
      BY <2>2, <2>3
  <1>11. ASSUME NEW r \in Requests, ClearCookies(r) PROVE TokenInv'
    <2>1. /\ pc[r] = "clear" /\ rows' = rows /\ jar' = NoCookies
          /\ pc' = [pc EXCEPT ![r] = "ok"]
      BY <1>11, LogoutWithoutFaults
    <2>2. jar'.refresh = None
      BY <2>1 DEF NoCookies
    <2>3. \A q \in Requests : pc'[q] = "set" => q \in rows'
      BY <2>1 DEF TokenInv
    <2>4. QED
      BY <2>2, <2>3 DEF TokenInv
  <1>12. ASSUME NEW p \in Pairs, ExpireAccess(p) \/ ExpireRefresh(p) \/ ForgetBlacklisted(p) \/ Evict(p)
         PROVE  TokenInv'
    BY <1>1, <1>12, TimeTakes
  <1>13. CASE UNCHANGED vars
    BY <1>1, <1>13 DEF vars
  <1>14. QED
    BY <1>3, <1>4, <1>5, <1>6, <1>7, <1>8, <1>9, <1>10, <1>11, <1>12, <1>13
       DEF Next, Step, Refresh, Logout

\* A request that is alone is refused when the session is over only.
LEMMA LoneStep ==
  ASSUME TypeOK, TypeOK', IssuedInv, CrossInv, TokenInv, LoneInv, faults = 0, faults' = 0,
         crossed \subseteq crossed', [Next]_vars
  PROVE  LoneInv'
  <1> USE NamesAssumption DEF TypeOK, Pairs, Cookie
  <1> SUFFICES ASSUME NEW s \in Requests, s \notin crossed PROVE
        /\ pc'[s] \in {"find", "delete", "create", "set"} => jar'.refresh \in {None, ref'[s]}
        /\ pc'[s] = "again" => acc'[s] = s /\ s \notin blacklist'
        /\ pc'[s] = "refused" =>
             /\ jar'.refresh = None
             /\ \A q \in Requests : /\ pc'[q] \notin {"delete", "create", "set"}
                                    /\ pc'[q] = "find" => ref'[q] = None
    BY DEF LoneInv
  <1> DEFINE Goal ==
        /\ pc'[s] \in {"find", "delete", "create", "set"} => jar'.refresh \in {None, ref'[s]}
        /\ pc'[s] = "again" => acc'[s] = s /\ s \notin blacklist'
        /\ pc'[s] = "refused" =>
             /\ jar'.refresh = None
             /\ \A q \in Requests : /\ pc'[q] \notin {"delete", "create", "set"}
                                    /\ pc'[q] = "find" => ref'[q] = None
  <1>1. /\ pc[s] \in {"find", "delete", "create", "set"} => jar.refresh \in {None, ref[s]}
        /\ pc[s] = "again" => acc[s] = s /\ s \notin blacklist
        /\ pc[s] = "refused" =>
             /\ jar.refresh = None
             /\ \A q \in Requests : /\ pc[q] \notin {"delete", "create", "set"}
                                    /\ pc[q] = "find" => ref[q] = None
    BY DEF LoneInv
  <1>2. ASSUME NEW q \in Requests, Busy(s), Busy(q) PROVE q = s
    BY <1>2 DEF CrossInv
  \* Steps of others that send nobody to a refresh with a cookie.
  <1>3. ASSUME pc'[s] = pc[s], ref'[s] = ref[s], acc'[s] = acc[s], blacklist' \subseteq blacklist,
               jar'.refresh \in {jar.refresh, None},
               \A q \in Requests : \/ pc'[q] = pc[q] /\ ref'[q] = ref[q]
                                   \/ pc'[q] \notin {"find", "delete", "create", "set"}
                                   \/ pc'[q] = "find" /\ ref'[q] = jar.refresh
        PROVE  Goal
    BY <1>1, <1>3
  <1>4. ASSUME NEW r \in Requests, Send(r) PROVE Goal
    <2>1. /\ UNCHANGED <<jar, blacklist>> /\ pc[r] = "new"
          /\ \E label \in {"black", "guard"} : pc' = [pc EXCEPT ![r] = label]
          /\ \A q \in Requests : q # r => acc'[q] = acc[q] /\ ref'[q] = ref[q]
      <3>1. UNCHANGED <<jar, blacklist>> /\ pc[r] = "new"
        BY <1>4 DEF Send
      <3>2. \E label \in {"black", "guard"} : pc' = [pc EXCEPT ![r] = label]
        BY <1>4 DEF Send, Goto
      <3>3. \A q \in Requests : q # r => acc'[q] = acc[q]
        BY <1>4 DEF Send
      <3>4. \A q \in Requests : q # r => ref'[q] = ref[q]
        BY <1>4 DEF Send
      <3>5. QED
        BY <3>1, <3>2, <3>3, <3>4
    <2>2. CASE r = s
      BY <2>1, <2>2
    <2>3. CASE r # s
      BY <1>3, <2>1, <2>3
    <2>4. QED
      BY <2>2, <2>3
  <1>5. ASSUME NEW r \in Requests, Guard(r) PROVE Goal
    <2>1. UNCHANGED <<jar, blacklist, acc>> /\ pc[r] \in {"guard", "again"}
      BY <1>5, GuardOutcomes
    <2>2. CASE pc' = [pc EXCEPT ![r] = "ok"] /\ ref' = ref
      <3>1. CASE r = s
        BY <2>1, <2>2, <3>1
      <3>2. CASE r # s
        BY <1>3, <2>1, <2>2, <3>2
      <3>3. QED
        BY <3>1, <3>2
    <2>3. CASE pc' = [pc EXCEPT ![r] = "find"] /\ ref' = [ref EXCEPT ![r] = jar.refresh]
      <3>1. CASE r = s
        BY <2>1, <2>3, <3>1
      <3>2. CASE r # s
        BY <1>3, <2>1, <2>3, <3>2
      <3>3. QED
        BY <3>1, <3>2
    <2>4. CASE pc[r] = "again" /\ pc' = [pc EXCEPT ![r] = "refused"] /\ ref' = ref
      <3>1. CASE r = s
        <4>1. pc'[r] = "refused"
          BY <2>4
        <4>2. ~Admitted(s)
          BY <1>5, <3>1, <4>1, RefreshWithoutFaults
        <4>3. acc[s] = s /\ s \notin blacklist /\ s \in fresh
          BY <1>1, <2>4, <3>1 DEF IssuedInv
        <4>4. QED
          BY <4>2, <4>3 DEF Admitted
      <3>2. CASE r # s
        BY <1>3, <2>1, <2>4, <3>2
      <3>3. QED
        BY <3>1, <3>2
    <2>5. QED
      BY <1>5, <2>2, <2>3, <2>4, GuardOutcomes
  \* The cookie of a lone request is there: nobody else is replacing it.
  <1>6. ASSUME pc[s] \in {"find", "delete"}
        PROVE  /\ jar.refresh = None \/ (jar.refresh = ref[s] /\ ref[s] \in rows \ outdated)
               /\ \A q \in Requests : q # s => pc[q] \notin {"find", "delete", "create", "set"}
    <2>1. \A q \in Requests : q # s => pc[q] \notin {"find", "delete", "create", "set", "clear"}
      BY <1>2, <1>6 DEF Busy, Refreshing, LoggingOut
    <2>2. jar.refresh \in rows \cup {None}
      BY <1>6, <2>1 DEF TokenInv
    <2>3. QED
      BY <1>1, <1>6, <2>1, <2>2 DEF IssuedInv
  <1>7. ASSUME NEW r \in Requests, FindToken(r) PROVE Goal
    <2>1. /\ pc[r] = "find" /\ UNCHANGED <<jar, blacklist, acc, ref>>
          /\ pc' = [pc EXCEPT ![r] = IF ref[r] \in rows THEN "delete" ELSE "refused"]
      BY <1>7, RefreshWithoutFaults
    <2>2. CASE r = s
      BY <1>1, <1>6, <2>1, <2>2
    <2>3. CASE r # s
      <3>1. CASE pc[s] = "refused"
        <4>1. ref[r] \notin rows
          BY <1>1, <2>1, <3>1
        <4>2. pc' = [pc EXCEPT ![r] = "refused"]
          BY <2>1, <4>1
        <4>3. QED
          BY <1>3, <2>1, <2>3, <4>2
      <3>2. CASE pc[s] # "refused"
        BY <1>1, <2>1, <2>3, <3>2
      <3>3. QED
        BY <3>1, <3>2
    <2>4. QED
      BY <2>2, <2>3
  <1>8. ASSUME NEW r \in Requests, DeleteToken(r) PROVE Goal
    <2>1. /\ pc[r] = "delete" /\ UNCHANGED <<jar, blacklist, acc, ref>>
          /\ pc' = [pc EXCEPT ![r] = IF ref[r] \in rows \ outdated THEN "create" ELSE "refused"]
      BY <1>8, RefreshWithoutFaults
    <2>2. CASE r = s
      BY <1>1, <1>6, <2>1, <2>2
    <2>3. CASE r # s
      BY <1>1, <2>1, <2>3
    <2>4. QED
      BY <2>2, <2>3
  <1>9. ASSUME NEW r \in Requests, CreateToken(r) PROVE Goal
    <2>1. pc[r] = "create" /\ UNCHANGED <<jar, blacklist, acc, ref>> /\ pc' = [pc EXCEPT ![r] = "set"]
      BY <1>9, RefreshWithoutFaults
    <2>2. QED
      BY <1>1, <2>1
  <1>10. ASSUME NEW r \in Requests, SetCookies(r) PROVE Goal
    <2>1. /\ pc[r] = "set" /\ UNCHANGED <<blacklist, ref>>
          /\ jar' = [access |-> r, refresh |-> r] /\ acc' = [acc EXCEPT ![r] = r]
          /\ pc' = [pc EXCEPT ![r] = "again"]
      BY <1>10, RefreshWithoutFaults
    <2>2. CASE r = s
      <3>1. s \notin blacklist
        BY <2>1, <2>2 DEF IssuedInv, Issued
      <3>2. QED
        BY <2>1, <2>2, <3>1
    <2>3. CASE r # s
      <3>1. pc[s] \notin {"find", "delete", "create", "set"} /\ pc[s] # "refused"
        BY <1>1, <1>2, <2>1, <2>3 DEF Busy, Refreshing
      <3>2. QED
        BY <1>1, <2>1, <2>3, <3>1
    <2>4. QED
      BY <2>2, <2>3
  <1>11. ASSUME NEW r \in Requests, Blacklist(r) PROVE Goal
    <2>1. /\ pc[r] = "black" /\ UNCHANGED <<jar, acc, ref>> /\ pc' = [pc EXCEPT ![r] = "seek"]
      BY <1>11, LogoutWithoutFaults
    <2>2. pc[s] # "again" \/ r = s
      BY <1>2, <2>1 DEF Busy, Refreshing, LoggingOut
    <2>3. QED
      BY <1>1, <2>1, <2>2
  <1>12. ASSUME NEW r \in Requests, SeekToken(r) \/ DropToken(r) PROVE Goal
    <2>1. /\ pc[r] \in {"seek", "drop"} /\ UNCHANGED <<jar, blacklist, acc, ref>>
          /\ \E label \in {"drop", "clear", "failed"} : pc' = [pc EXCEPT ![r] = label]
      BY <1>12, LogoutWithoutFaults
    <2>2. CASE r = s
      BY <2>1, <2>2
    <2>3. CASE r # s
      BY <1>3, <2>1, <2>3
    <2>4. QED
      BY <2>2, <2>3
  <1>13. ASSUME NEW r \in Requests, ClearCookies(r) PROVE Goal
    <2>1. /\ pc[r] = "clear" /\ UNCHANGED <<blacklist, acc, ref>> /\ jar' = NoCookies
          /\ pc' = [pc EXCEPT ![r] = "ok"]
      BY <1>13, LogoutWithoutFaults
    <2>2. jar'.refresh = None
      BY <2>1 DEF NoCookies
    <2>3. QED
      BY <1>1, <2>1, <2>2
  <1>14. ASSUME NEW p \in Pairs, ExpireAccess(p) \/ ExpireRefresh(p) \/ ForgetBlacklisted(p) \/ Evict(p)
         PROVE  Goal
    BY <1>3, <1>14, TimeTakes
  <1>15. CASE UNCHANGED vars
    BY <1>3, <1>15 DEF vars
  <1>16. QED
    BY <1>4, <1>5, <1>7, <1>8, <1>9, <1>10, <1>11, <1>12, <1>13, <1>14, <1>15
       DEF Next, Step, Refresh, Logout

Session == TypeOK /\ OneRow /\ Revocation /\ IssuedInv /\ CrossInv /\ FaultlessInv

LEMMA SessionInit == Init => Session
  <1> SUFFICES ASSUME Init PROVE Session
    OBVIOUS
  <1>1. TypeOK /\ OneRow /\ Revocation
    BY InitInv
  <1>2. IssuedInv
    BY NamesAssumption DEF Init, IssuedInv, Issued
  <1>3. \A r \in Requests : ~Busy(r)
    BY DEF Init, Busy, Refreshing, LoggingOut
  <1>4. CrossInv
    <2>1. {r \in Requests : Busy(r)} = {}
      BY <1>3
    <2>2. QED
      BY <1>3, <2>1, FS_EmptySet DEF CrossInv
  <1>5. FaultlessInv
    BY DEF Init, FaultlessInv, TokenInv, LoneInv
  <1>6. QED
    BY <1>1, <1>2, <1>4, <1>5 DEF Session

LEMMA SessionStep == Session /\ [Next]_vars => Session'
  <1> SUFFICES ASSUME Session, [Next]_vars PROVE Session'
    OBVIOUS
  <1>1. TypeOK' /\ OneRow' /\ Revocation'
    BY TypeStep, OneRowStep, RevocationStep DEF Session
  <1>2. IssuedInv' /\ CrossInv' /\ crossed \subseteq crossed'
    BY <1>1, IssuedStep, CrossStep DEF Session
  <1>3. ASSUME faults' = 0 PROVE TokenInv' /\ LoneInv'
    <2>1. faults \in Nat /\ faults' \in {faults, faults + 1}
      BY FaultAssumption, FaultsGrow DEF Session, TypeOK
    <2>2. faults = 0
      BY <1>3, <2>1
    <2>3. QED
      BY <1>1, <1>2, <1>3, <2>2, TokenStep, LoneStep DEF Session, FaultlessInv
  <1>4. QED
    BY <1>1, <1>2, <1>3 DEF Session, FaultlessInv

\* Requests that refresh at the same time do not lose the session: without a failure
\* and a logout, and before a refresh token is too old, the row of the browser's cookie
\* is there when everything is quiet, for any number of requests.
THEOREM SessionOutlivesRefreshes == Spec => []SessionSurvives
  <1>1. Session => SessionSurvives
    <2> SUFFICES ASSUME Session, faults = 0, Quiet, ~LoggedOut, outdated = {}
                 PROVE  rows = {jar.refresh}
      BY DEF SessionSurvives
    <2>1. jar.refresh # None
      BY DEF Session, IssuedInv
    <2>2. jar.refresh \in rows
      BY <2>1 DEF Session, FaultlessInv, TokenInv, Quiet
    <2>3. QED
      BY <2>2 DEF Session, OneRow
  <1>2. QED
    BY <1>1, SessionInit, SessionStep, PTL DEF Spec

\* A request of a browser that has a session is refused only when another request's
\* refresh or logout crossed it or a call failed, for any number of requests.
THEOREM RefusalsNeedACrossing == Spec => []OnlyCrossedRequestsAreRefused
  <1>1. Session => OnlyCrossedRequestsAreRefused
    BY DEF Session, FaultlessInv, LoneInv, OnlyCrossedRequestsAreRefused
  <1>2. QED
    BY <1>1, SessionInit, SessionStep, PTL DEF Spec
=============================================================================
