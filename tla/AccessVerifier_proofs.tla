------------------------- MODULE AccessVerifier_proofs -------------------------
(***************************************************************************)
(* Proofs about the verifier's key cache, for any keys, tokens, number of  *)
(* requests and durations: whatever fetches overlap, a key is accepted     *)
(* only shortly after the issuer served it.                                *)
(***************************************************************************)
EXTENDS AccessVerifier, TLAPS

\* The durations and the clock are integers, and the zero time is before all others.
LEMMA Numbers ==
  /\ StaleAfter \in Nat /\ Timeout \in Nat /\ Skew \in Nat /\ MaxTime \in Nat
  /\ Never \in Int /\ Never < 0
BY AccessAssumption DEF Never

\* A new AccessVerifier (NewAccessVerifier) has an empty cache and no requests.
LEMMA InitAccess == Init => AccessInv
BY Numbers, AccessAssumption DEF Init, AccessInv, TypeOK, Times, Stages, Computing, Fetching

\* What TypeOK says of the numbers the steps compare.
LEMMA ClockTypes ==
  ASSUME TypeOK
  PROVE  /\ now \in Nat /\ fetchedAt \in Int
         /\ \A k \in Keys : changed[k] \in Int
         /\ \A q \in Requests : sentAt[q] \in Nat
         /\ \A t \in Tokens : t.exp \in Nat /\ t.kid \in Keys
BY Numbers, AccessAssumption DEF TypeOK, Times

\* The steps of a request keep the types.
LEMMA RequestKeepsTypes ==
  ASSUME AccessInv, NEW q \in Requests,
         \/ Verify(q) \/ lookupKey(q) \/ Certs(q) \/ refreshKeys(q)
         \/ RefreshFails(q) \/ Reread(q) \/ VerifySignature(q)
  PROVE  TypeOK'
<1>0. TypeOK /\ now \in Nat
  BY ClockTypes, Zenon DEF AccessInv
<1>1. CASE Verify(q)
  BY <1>0, <1>1, Zenon DEF Verify, Return, Goto, TypeOK, Stages, Computing, Fetching, issuervars, cachevars
<1>2. CASE lookupKey(q)
  BY <1>0, <1>2 DEF lookupKey, Fetch, Goto, TypeOK, Stages, Computing, Fetching, issuervars, cachevars
<1>3. CASE Certs(q)
  BY <1>0, <1>3, Zenon DEF Certs, Goto, TypeOK, Stages, Computing, Fetching, issuervars, cachevars
<1>4. CASE refreshKeys(q)
  BY <1>0, <1>4 DEF refreshKeys, Goto, TypeOK, Stages, Computing, Fetching, issuervars
<1>5. CASE RefreshFails(q)
  BY <1>0, <1>5 DEF RefreshFails, Return, Goto, TypeOK, Stages, issuervars, cachevars
<1>6. CASE Reread(q)
  BY <1>0, <1>6, Zenon DEF Reread, Return, Goto, TypeOK, Stages, Computing, Fetching, issuervars, cachevars
<1>7. CASE VerifySignature(q)
  BY <1>0, <1>7, Zenon DEF VerifySignature, Return, Goto, TypeOK, Stages, issuervars, cachevars
<1> QED
  BY <1>1, <1>2, <1>3, <1>4, <1>5, <1>6, <1>7, Zenon

\* The steps of a request that read the cache or wait (Verify, lookupKey, the
\* issuer's answer, the second look, the signature) keep the invariant.
LEMMA ReadersKeepInv ==
  ASSUME AccessInv, NEW q \in Requests,
         Verify(q) \/ lookupKey(q) \/ Certs(q) \/ RefreshFails(q) \/ Reread(q) \/ VerifySignature(q)
  PROVE  AccessInv'
<1>0. TypeOK /\ TypeOK'
  BY RequestKeepsTypes, Zenon DEF AccessInv
<1>1. UNCHANGED <<now, published, changed, keys, fetchedAt>>
  BY Zenon DEF Verify, lookupKey, Certs, RefreshFails, Reread, VerifySignature, issuervars, cachevars
<1>2. stage \in [Requests -> Stages] /\ token \in [Requests -> Tokens \cup {None}]
      /\ sentAt \in [Requests -> 0 .. now] /\ resp \in [Requests -> SUBSET Keys]
  BY <1>0, Zenon DEF TypeOK
<1>3. \A p \in Requests : p # q =>
        stage'[p] = stage[p] /\ token'[p] = token[p] /\ sentAt'[p] = sentAt[p] /\ resp'[p] = resp[p]
  BY <1>2, Zenon DEF Verify, lookupKey, Certs, RefreshFails, Reread, VerifySignature, Fetch, Return, Goto
<1> DEFINE Own(p) ==
       /\ stage[p] \in Computing \cup Fetching => token[p] \in Tokens
       /\ stage[p] = "lookup" => now < token[p].exp
       /\ stage[p] \in Fetching => sentAt[p] < token[p].exp /\ now <= sentAt[p] + Timeout
       /\ stage[p] = "answered" => \A k \in Keys : AgreesSince(k, resp[p], sentAt[p])
       /\ stage[p] \in {"reread", "found"} => now < token[p].exp + Timeout
       /\ stage[p] = "reread" => fetchedAt = now
       /\ stage[p] = "found" => \/ token[p].kid \in published
                                \/ now - changed[token[p].kid] <= StaleAfter + Timeout
<1>4. \A p \in Requests : Own(p)
  BY Zenon DEF AccessInv
<1>5. \A p \in Requests : p # q => Own(p)'
  BY <1>1, <1>3, <1>4, Zenon DEF AgreesSince
<1>6. Own(q)'
  <2>0. /\ now \in Nat /\ fetchedAt \in Int /\ Timeout \in Nat /\ StaleAfter \in Nat
        /\ \A k \in Keys : changed[k] \in Int
        /\ \A t \in Tokens : t.exp \in Nat /\ t.kid \in Keys
    BY <1>0, ClockTypes, Numbers, Zenon
  <2>1. CASE Verify(q)
    BY <1>1, <1>2, <2>1, Zenon DEF Verify, validateClaims, Return, Goto, Computing, Fetching
  <2>2. CASE lookupKey(q)
    <3>1. token' = token /\ token[q] \in Tokens /\ now < token[q].exp
      BY <2>2, <1>4, Zenon DEF lookupKey, Computing
    <3>2. CASE token[q].kid \in keys /\ ~stale
      <4>1. stage'[q] = "found"
        BY <1>2, <2>2, <3>2, Zenon DEF lookupKey, Goto
      <4>2. fetchedAt # Never /\ AgreesSince(token[q].kid, keys, fetchedAt - Timeout)
        BY <2>0, <3>1, <3>2, Zenon DEF AccessInv
      <4>3. token[q].kid \in published \/ now - changed[token[q].kid] <= StaleAfter + Timeout
        BY <2>0, <3>1, <3>2, <4>2 DEF AgreesSince, stale
      <4> QED
        BY <1>1, <2>0, <3>1, <4>1, <4>3 DEF Computing, Fetching
    <3>3. CASE ~(token[q].kid \in keys /\ ~stale)
      <4>1. stage'[q] = "fetch" /\ sentAt'[q] = now
        BY <1>2, <2>2, <3>3, Zenon DEF lookupKey, Fetch, Goto
      <4> QED
        BY <1>1, <2>0, <3>1, <4>1 DEF Computing, Fetching
    <3> QED
      BY <3>2, <3>3, Zenon
  <2>3. CASE Certs(q)
    <3>1. /\ stage[q] = "fetch" /\ stage'[q] = "answered" /\ resp'[q] = published
          /\ token' = token /\ sentAt' = sentAt
      BY <1>2, <2>3, Zenon DEF Certs, Goto
    <3> QED
      BY <1>1, <1>4, <3>1, Zenon DEF Computing, Fetching, AgreesSince
  <2>4. CASE RefreshFails(q) \/ VerifySignature(q)
    <3>1. stage'[q] \in {"accepted", "refused"}
      BY <1>2, <2>4, Zenon DEF RefreshFails, VerifySignature, Return, Goto
    <3> QED
      BY <3>1, Zenon DEF Computing, Fetching
  <2>5. CASE Reread(q)
    <3>1. CASE token[q].kid \in keys
      <4>1. stage[q] = "reread" /\ stage'[q] = "found" /\ token' = token
        BY <1>2, <2>5, <3>1, Zenon DEF Reread, Goto
      <4>2. token[q] \in Tokens /\ fetchedAt = now /\ now < token[q].exp + Timeout
        BY <1>4, <4>1, Zenon DEF Computing
      <4>3. AgreesSince(token[q].kid, keys, now - Timeout)
        BY <2>0, <4>2, Numbers DEF AccessInv
      <4>4. token[q].kid \in published \/ now - changed[token[q].kid] <= StaleAfter + Timeout
        BY <2>0, <3>1, <4>2, <4>3 DEF AgreesSince
      <4> QED
        BY <1>1, <4>1, <4>2, <4>4, Zenon DEF Computing, Fetching
    <3>2. CASE token[q].kid \notin keys
      <4>1. stage'[q] = "unknown"
        BY <1>2, <2>5, <3>2, Zenon DEF Reread, Return, Goto
      <4> QED
        BY <4>1, Zenon DEF Computing, Fetching
    <3> QED
      BY <3>1, <3>2, Zenon
  <2> QED
    BY <2>1, <2>2, <2>3, <2>4, <2>5, Zenon
<1>7. \A k \in Keys : (IF fetchedAt = Never THEN k \notin keys
                       ELSE AgreesSince(k, keys, fetchedAt - Timeout))'
  BY <1>1, Zenon DEF AccessInv, AgreesSince
<1> QED
  BY <1>0, <1>5, <1>6, <1>7 DEF AccessInv

\* A fetch that ends replaces the cache (refreshKeys), whatever it held: other
\* requests are not disturbed, and what is now cached is at most Timeout old.
LEMMA RefreshKeepsInv ==
  ASSUME AccessInv, NEW q \in Requests, refreshKeys(q)
  PROVE  AccessInv'
<1>0. TypeOK /\ TypeOK'
  BY RequestKeepsTypes, Zenon DEF AccessInv
<1>1. /\ UNCHANGED <<now, published, changed, token>>
      /\ stage[q] = "answered" /\ stage' = [stage EXCEPT ![q] = "reread"]
      /\ keys' = resp[q] /\ fetchedAt' = now
      /\ resp' = [resp EXCEPT ![q] = {}] /\ sentAt' = [sentAt EXCEPT ![q] = 0]
  BY Zenon DEF refreshKeys, Goto, issuervars
<1>2. /\ stage \in [Requests -> Stages] /\ resp \in [Requests -> SUBSET Keys]
      /\ sentAt \in [Requests -> 0 .. now]
      /\ now \in Nat /\ Timeout \in Nat /\ Never < 0 /\ Never \in Int
      /\ \A k \in Keys : changed[k] \in Int
      /\ \A t \in Tokens : t.exp \in Nat
      /\ \A p \in Requests : sentAt[p] \in Nat
  BY <1>0, ClockTypes, Numbers, Zenon DEF TypeOK
<1>3. \A p \in Requests : p # q => stage'[p] = stage[p] /\ sentAt'[p] = sentAt[p] /\ resp'[p] = resp[p]
  BY <1>1, <1>2, Zenon
<1>4. stage'[q] = "reread"
  BY <1>1, <1>2, Zenon
<1>5. /\ token[q] \in Tokens /\ sentAt[q] < token[q].exp /\ now <= sentAt[q] + Timeout
      /\ \A k \in Keys : AgreesSince(k, resp[q], sentAt[q])
  BY <1>1, Zenon DEF AccessInv, Fetching
<1>6. \A k \in Keys : (IF fetchedAt = Never THEN k \notin keys
                       ELSE AgreesSince(k, keys, fetchedAt - Timeout))'
  <2>1. fetchedAt' # Never
    BY <1>1, <1>2
  <2>2. ASSUME NEW k \in Keys PROVE AgreesSince(k, keys, fetchedAt - Timeout)'
    <3>1. (k \in resp[q] <=> k \in published) \/ changed[k] >= sentAt[q]
      BY <1>5, Zenon DEF AgreesSince
    <3>2. changed[k] >= sentAt[q] => changed[k] >= now - Timeout
      BY <1>2, <1>5
    <3> QED
      BY <1>1, <3>1, <3>2, Zenon DEF AgreesSince
  <2> QED
    BY <2>1, <2>2, Zenon
<1>7. now < token[q].exp + Timeout
  BY <1>2, <1>5
<1>8. ASSUME NEW p \in Requests
      PROVE  ( /\ stage[p] \in Computing \cup Fetching => token[p] \in Tokens
               /\ stage[p] = "lookup" => now < token[p].exp
               /\ stage[p] \in Fetching => sentAt[p] < token[p].exp /\ now <= sentAt[p] + Timeout
               /\ stage[p] = "answered" => \A k \in Keys : AgreesSince(k, resp[p], sentAt[p])
               /\ stage[p] \in {"reread", "found"} => now < token[p].exp + Timeout
               /\ stage[p] = "reread" => fetchedAt = now
               /\ stage[p] = "found" => \/ token[p].kid \in published
                                        \/ now - changed[token[p].kid] <= StaleAfter + Timeout)'
  <2>1. CASE p = q
    BY <1>1, <1>4, <1>5, <1>7, <2>1, Zenon DEF Fetching
  <2>2. CASE p # q
    BY <1>1, <1>3, <2>2, Zenon DEF AccessInv, AgreesSince
  <2> QED
    BY <2>1, <2>2, Zenon
<1> QED
  BY <1>0, <1>6, <1>8, Zenon DEF AccessInv

\* The issuer adds or withdraws a key: whatever was fetched or cached agrees
\* with it as of before this moment.
LEMMA RotateKeepsInv ==
  ASSUME AccessInv, Rotate
  PROVE  AccessInv'
<1>0. TypeOK
  BY Zenon DEF AccessInv
<1>1. UNCHANGED <<now, keys, fetchedAt, stage, token, sentAt, resp>>
  BY Zenon DEF Rotate, cachevars, reqvars
<1>2. PICK j \in Keys :
        /\ published' = IF j \in published THEN published \ {j} ELSE published \cup {j}
        /\ changed' = [changed EXCEPT ![j] = now]
  BY Zenon DEF Rotate
<1>3. /\ now \in Nat /\ Timeout \in Nat /\ StaleAfter \in Nat
      /\ fetchedAt \in Int /\ fetchedAt <= now
      /\ \A k \in Keys : changed[k] \in Int
      /\ \A p \in Requests : sentAt[p] \in Nat /\ sentAt[p] <= now
      /\ \A t \in Tokens : t.kid \in Keys
  BY <1>0, ClockTypes, Numbers DEF TypeOK, Never
<1>4. TypeOK'
  BY <1>0, <1>1, <1>2, Zenon DEF TypeOK
<1>5. \A k \in Keys : changed'[k] = IF k = j THEN now ELSE changed[k]
  BY <1>0, <1>2, Zenon DEF TypeOK
<1>6. \A k \in Keys : k # j => (k \in published' <=> k \in published)
  BY <1>2, Zenon
<1>7. \A k \in Keys : (IF fetchedAt = Never THEN k \notin keys
                       ELSE AgreesSince(k, keys, fetchedAt - Timeout))'
  BY <1>1, <1>3, <1>5, <1>6 DEF AccessInv, AgreesSince
<1>8. \A p \in Requests : stage'[p] = "answered" =>
        \A k \in Keys : AgreesSince(k, resp[p], sentAt[p])'
  BY <1>1, <1>3, <1>5, <1>6, Zenon DEF AccessInv, AgreesSince
<1>9. \A p \in Requests : stage'[p] = "found" =>
        \/ token[p].kid \in published'
        \/ now - changed'[token[p].kid] <= StaleAfter + Timeout
  BY <1>1, <1>3, <1>5, <1>6 DEF AccessInv, Computing
<1> QED
  BY <1>1, <1>4, <1>7, <1>8, <1>9, Zenon DEF AccessInv

\* Time passes only while requests wait for the issuer, and not beyond a
\* fetch's timeout.
LEMMA TickKeepsInv ==
  ASSUME AccessInv, Tick
  PROVE  AccessInv'
<1>0. TypeOK
  BY Zenon DEF AccessInv
<1>1. UNCHANGED <<published, changed, keys, fetchedAt, stage, token, sentAt, resp>>
  BY Zenon DEF Tick, issuervars, cachevars, reqvars
<1>2. now' = now + 1 /\ now < MaxTime /\ now \in Nat /\ MaxTime \in Nat /\ Timeout \in Nat
  BY <1>0, ClockTypes, Numbers, Zenon DEF Tick
<1>3. TypeOK'
  BY <1>0, <1>1, <1>2 DEF TypeOK, Times
<1>4. \A p \in Requests : /\ stage[p] \notin Computing
                          /\ stage[p] \in Fetching => now < sentAt[p] + Timeout /\ sentAt[p] \in Nat
  BY <1>0, ClockTypes, Zenon DEF Tick
<1>5. \A p \in Requests : stage[p] \in Fetching => now' <= sentAt[p] + Timeout
  BY <1>2, <1>4
<1> QED
  BY <1>1, <1>3, <1>4, <1>5, Zenon DEF AccessInv, AgreesSince, Computing, Fetching

\* Every step keeps the invariant.
LEMMA NextKeepsInv == AccessInv /\ [Next]_vars => AccessInv'
<1> SUFFICES ASSUME AccessInv, [Next]_vars PROVE AccessInv'
  BY Zenon
<1>1. CASE UNCHANGED vars
  BY <1>1, Zenon DEF vars, issuervars, cachevars, reqvars, AccessInv, TypeOK, AgreesSince
<1>2. CASE Next
  BY <1>2, ReadersKeepInv, RefreshKeepsInv, RotateKeepsInv, TickKeepsInv, Zenon DEF Next
<1> QED
  BY <1>1, <1>2, Zenon

\* The invariant of the key cache and of the requests that use it holds
\* always, for any number of requests and overlapping fetches.
THEOREM AccessInvariant == Spec => []AccessInv
BY InitAccess, NextKeepsInv, PTL DEF Spec

\* What a step that ends a request did.
LEMMA Ends ==
  ASSUME AccessInv, [Next]_vars, NEW q \in Requests, NEW s \in {"accepted", "unknown"}, Becomes(q, s)
  PROVE  (s = "accepted" /\ VerifySignature(q)) \/ (s = "unknown" /\ Reread(q))
<1>0. stage \in [Requests -> Stages]
  BY Zenon DEF AccessInv, TypeOK
<1>1. stage' # stage
  BY Zenon DEF Becomes
<1>2. Next /\ ~Rotate /\ ~Tick
  BY <1>1, Zenon DEF vars, reqvars, Rotate, Tick
<1>3. PICK p \in Requests :
        \/ Verify(p) \/ lookupKey(p) \/ Certs(p) \/ refreshKeys(p)
        \/ RefreshFails(p) \/ Reread(p) \/ VerifySignature(p)
  BY <1>2, Zenon DEF Next
<1>4. p = q
  BY <1>0, <1>3, Zenon DEF Becomes, Verify, lookupKey, Certs, refreshKeys, RefreshFails, Reread,
                    VerifySignature, Fetch, Return, Goto
<1>5. ~Verify(q) /\ ~lookupKey(q) /\ ~Certs(q) /\ ~refreshKeys(q) /\ ~RefreshFails(q)
  BY <1>0, Zenon DEF Becomes, Verify, lookupKey, Certs, refreshKeys, RefreshFails, Fetch, Return, Goto
<1>6. Reread(q) => stage'[q] # "accepted"
  BY <1>0, Zenon DEF Reread, Return, Goto
<1>7. VerifySignature(q) => stage'[q] # "unknown"
  BY <1>0, Zenon DEF VerifySignature, Return, Goto
<1> QED
  BY <1>3, <1>4, <1>5, <1>6, <1>7, Zenon DEF Becomes

\* A request is let in only with a key that the issuer served until at most
\* five minutes and one fetch ago, however fetches overlap (Verify, lookupKey).
THEOREM AcceptedKeysAreRecent == Spec => AcceptedKeyIsRecent
<1>1. AccessInv /\ [Next]_vars =>
        [\A q \in Requests : Becomes(q, "accepted") =>
           \/ token[q].kid \in published
           \/ now - changed[token[q].kid] <= StaleAfter + Timeout]_vars
  <2> SUFFICES ASSUME AccessInv, [Next]_vars, NEW q \in Requests, Becomes(q, "accepted")
               PROVE  \/ token[q].kid \in published
                      \/ now - changed[token[q].kid] <= StaleAfter + Timeout
    BY Zenon
  <2>1. stage[q] = "found"
    BY Ends, Zenon DEF VerifySignature
  <2> QED
    BY <2>1, Zenon DEF AccessInv
<1> QED
  BY <1>1, AccessInvariant, PTL DEF Spec, AcceptedKeyIsRecent

\* Claims are checked before a fetch, and a fetch delays a request by at most
\* its timeout, so that a token is never accepted later than that (Verify).
THEOREM AcceptedTokensHardlyExpired == Spec => AcceptedIsHardlyExpired
<1>1. AccessInv /\ [Next]_vars =>
        [\A q \in Requests : Becomes(q, "accepted") => now < token[q].exp + Timeout]_vars
  <2> SUFFICES ASSUME AccessInv, [Next]_vars, NEW q \in Requests, Becomes(q, "accepted")
               PROVE  now < token[q].exp + Timeout
    BY Zenon
  <2>1. stage[q] = "found"
    BY Ends, Zenon DEF VerifySignature
  <2> QED
    BY <2>1, Zenon DEF AccessInv
<1> QED
  BY <1>1, AccessInvariant, PTL DEF Spec, AcceptedIsHardlyExpired

\* A key the issuer has served for longer than a fetch takes is never reported
\* unknown, although a late answer may replace a newer one (refreshKeys).
THEOREM SettledKeysAreFound == Spec => SettledKeyIsFound
<1>1. AccessInv /\ [Next]_vars =>
        [\A q \in Requests : Becomes(q, "unknown") /\ token[q].kid \in published =>
           now - changed[token[q].kid] <= Timeout]_vars
  <2> SUFFICES ASSUME AccessInv, [Next]_vars, NEW q \in Requests,
                      Becomes(q, "unknown"), token[q].kid \in published
               PROVE  now - changed[token[q].kid] <= Timeout
    BY Zenon
  <2>1. Reread(q)
    BY Ends, Zenon
  <2>2. stage[q] = "reread" /\ stage \in [Requests -> Stages]
    BY <2>1, Zenon DEF Reread, AccessInv, TypeOK
  <2>3. token[q].kid \notin keys
    BY <2>1, <2>2, Zenon DEF Reread, Goto, Becomes
  <2>4. token[q] \in Tokens /\ fetchedAt = now
    BY <2>2, Zenon DEF AccessInv, Computing
  <2>5. /\ now \in Nat /\ Timeout \in Nat /\ Never < 0 /\ Never \in Int
        /\ token[q].kid \in Keys /\ changed[token[q].kid] \in Int
    BY <2>4, ClockTypes, Numbers, Zenon DEF AccessInv
  <2>6. AgreesSince(token[q].kid, keys, now - Timeout)
    BY <2>4, <2>5 DEF AccessInv
  <2> QED
    BY <2>3, <2>5, <2>6 DEF AgreesSince
<1> QED
  BY <1>1, AccessInvariant, PTL DEF Spec, SettledKeyIsFound
=============================================================================
