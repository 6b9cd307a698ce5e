---------------------------- MODULE AccessVerifier ----------------------------
(***************************************************************************)
(* AccessVerifier (server/internal/api/rest/access.go): browser requests   *)
(* carry a token signed by Cloudflare Access; its keys are fetched from    *)
(* the issuer and cached, while the issuer rotates them.                   *)
(*                                                                         *)
(* Each request runs Verify in a goroutine of its own.  The mutex guards   *)
(* the cache, not the fetch: fetches overlap, and whichever ends last      *)
(* replaces the cache.  Time is counted in units, and passes only while    *)
(* every request waits for the issuer, has returned or is still to come.   *)
(***************************************************************************)
EXTENDS Integers

CONSTANTS
  Keys,        \* the issuer's keys, each named by its key ID
  Tokens,      \* the tokens requests may carry
  None,        \* no token
  Requests,    \* bound on requests
  StaleAfter,  \* how long a fetched set of keys is used (5 minutes)
  Timeout,     \* of a fetch (10 seconds)
  Skew,        \* tolerance for nbf (60 seconds)
  MaxTime      \* bound on the clock

\* A token: its key ID, exp and nbf (0: absent), whether format, alg, issuer,
\* type, audience, subject and email are as expected, and whether the signature
\* is one of that key.
ASSUME AccessAssumption ==
  /\ {StaleAfter, Timeout, Skew, MaxTime} \subseteq Nat
  /\ Tokens \subseteq [kid : Keys, exp : Nat, nbf : Nat, sound : BOOLEAN, genuine : BOOLEAN]
  /\ None \notin Tokens

VARIABLES
  now,
  published,   \* the keys the issuer serves
  changed,     \* when each key was last added or withdrawn
  keys,        \* v.keys
  fetchedAt,   \* v.fetchedAt
  stage,       \* of each request's Verify
  token,       \* its token
  sentAt,      \* when its fetch began
  resp         \* the keys in the answer to its fetch

issuervars == <<published, changed>>
cachevars == <<keys, fetchedAt>>
reqvars == <<stage, token, sentAt, resp>>
vars == <<now, issuervars, cachevars, reqvars>>

Times == 0 .. MaxTime

\* Stages in which Verify runs; in the others it waits or has returned.
Computing == {"lookup", "reread", "found"}
Fetching == {"fetch", "answered"}
Stages == Computing \cup Fetching \cup {"unused", "accepted", "refused", "unknown"}

\* The zero time.Time is longer ago than anything.
Never == -(StaleAfter + Timeout + 1)

\* The type of the state.
TypeOK ==
  /\ now \in Times
  /\ published \subseteq Keys
  /\ changed \in [Keys -> Times \cup {Never}]
  /\ keys \subseteq Keys
  /\ fetchedAt \in (0 .. now) \cup {Never}
  /\ stage \in [Requests -> Stages]
  /\ token \in [Requests -> Tokens \cup {None}]
  /\ sentAt \in [Requests -> 0 .. now]
  /\ resp \in [Requests -> SUBSET Keys]

Init ==
  /\ now = 0
  /\ published \in SUBSET Keys
  /\ changed = [k \in Keys |-> Never]
  /\ keys = {}
  /\ fetchedAt = Never
  /\ stage = [q \in Requests |-> "unused"]
  /\ token = [q \in Requests |-> None]
  /\ sentAt = [q \in Requests |-> 0]
  /\ resp = [q \in Requests |-> {}]

Goto(q, s) == stage' = [stage EXCEPT ![q] = s]

\* Verify returns.
Return(q, s) ==
  /\ Goto(q, s)
  /\ token' = [token EXCEPT ![q] = None]

-----------------------------------------------------------------------------
(* Verify *)

\* Mutant of validateClaims: exp is the last instant of the token.
MutLateExpiry(t) ==
  /\ t.sound
  /\ t.exp # 0 /\ now <= t.exp
  /\ t.nbf # 0 => now + Skew >= t.nbf

validateClaims(t) ==
  /\ t.sound
  /\ t.exp # 0 /\ now < t.exp
  /\ t.nbf # 0 => now + Skew >= t.nbf

\* A request arrives and its claims are checked.
Verify(q) ==
  /\ stage[q] = "unused"
  /\ \E t \in Tokens :
       IF validateClaims(t)
         THEN Goto(q, "lookup") /\ token' = [token EXCEPT ![q] = t]
         ELSE Return(q, "refused")
  /\ UNCHANGED <<now, issuervars, cachevars, sentAt, resp>>

stale == now - fetchedAt > StaleAfter

Fetch(q) == Goto(q, "fetch") /\ sentAt' = [sentAt EXCEPT ![q] = now]

\* Mutant of lookupKey: the cache is used however old it is.
MutNeverStale(q) ==
  /\ stage[q] = "lookup"
  /\ IF token[q].kid \in keys THEN Goto(q, "found") /\ sentAt' = sentAt ELSE Fetch(q)
  /\ UNCHANGED <<now, issuervars, cachevars, token, resp>>

\* Mutant of lookupKey: a key missing from a fresh cache is not fetched.
MutTrustCache(q) ==
  /\ stage[q] = "lookup"
  /\ IF stale THEN Fetch(q) ELSE Goto(q, "reread") /\ sentAt' = sentAt
  /\ UNCHANGED <<now, issuervars, cachevars, token, resp>>

\* The first half of lookupKey: the cached key, or a fetch.
lookupKey(q) ==
  /\ stage[q] = "lookup"
  /\ IF token[q].kid \in keys /\ ~stale
       THEN Goto(q, "found") /\ sentAt' = sentAt
       ELSE Fetch(q)
  /\ UNCHANGED <<now, issuervars, cachevars, token, resp>>

\* The issuer answers with the keys it serves at that moment.
Certs(q) ==
  /\ stage[q] = "fetch"
  /\ Goto(q, "answered")
  /\ resp' = [resp EXCEPT ![q] = published]
  /\ UNCHANGED <<now, issuervars, cachevars, token, sentAt>>

\* refreshKeys: the answer, when it has arrived and holds a usable key,
\* replaces the cache.
refreshKeys(q) ==
  /\ stage[q] = "answered"
  /\ resp[q] # {}
  /\ keys' = resp[q]
  /\ fetchedAt' = now
  /\ Goto(q, "reread")
  /\ resp' = [resp EXCEPT ![q] = {}]
  /\ sentAt' = [sentAt EXCEPT ![q] = 0]
  /\ UNCHANGED <<now, issuervars, token>>

\* The fetch fails, is answered with anything else, or times out.
RefreshFails(q) ==
  /\ stage[q] \in Fetching
  /\ Return(q, "refused")
  /\ resp' = [resp EXCEPT ![q] = {}]
  /\ sentAt' = [sentAt EXCEPT ![q] = 0]
  /\ UNCHANGED <<now, issuervars, cachevars>>

\* The second half of lookupKey reads the cache again, under the lock.
Reread(q) ==
  /\ stage[q] = "reread"
  /\ IF token[q].kid \in keys
       THEN Goto(q, "found") /\ token' = token
       ELSE Return(q, "unknown")
  /\ UNCHANGED <<now, issuervars, cachevars, sentAt, resp>>

\* The signature is verified with the key that was found.
VerifySignature(q) ==
  /\ stage[q] = "found"
  /\ Return(q, IF token[q].genuine THEN "accepted" ELSE "refused")
  /\ UNCHANGED <<now, issuervars, cachevars, sentAt, resp>>

-----------------------------------------------------------------------------
(* The environment *)

\* The issuer adds or withdraws a key.
Rotate ==
  /\ \E k \in Keys :
       /\ published' = IF k \in published THEN published \ {k} ELSE published \cup {k}
       /\ changed' = [changed EXCEPT ![k] = now]
  /\ UNCHANGED <<now, cachevars, reqvars>>

\* A unit of time passes.  The client ends a fetch after its timeout.
Tick ==
  /\ now < MaxTime
  /\ \A q \in Requests :
       /\ stage[q] \notin Computing
       /\ stage[q] \in Fetching => now < sentAt[q] + Timeout
  /\ now' = now + 1
  /\ UNCHANGED <<issuervars, cachevars, reqvars>>

Next ==
  \/ \E q \in Requests :
       \/ Verify(q) \/ lookupKey(q) \/ Certs(q) \/ refreshKeys(q)
       \/ RefreshFails(q) \/ Reread(q) \/ VerifySignature(q)
  \/ Rotate
  \/ Tick

Spec == Init /\ [][Next]_vars

-----------------------------------------------------------------------------
(* Properties *)

Becomes(q, s) == stage[q] # s /\ stage'[q] = s

\* A request is let in only with a key the issuer served within the last five
\* minutes and ten seconds, however fetches overlap: an answer that was on its
\* way while the key was withdrawn still counts as fetched when it arrives.
AcceptedKeyIsRecent ==
  [][\A q \in Requests : Becomes(q, "accepted") =>
       \/ token[q].kid \in published
       \/ now - changed[token[q].kid] <= StaleAfter + Timeout]_vars

\* The claims are checked before the fetch: a request let in is expired by less
\* than the time the fetch may take.
AcceptedIsHardlyExpired ==
  [][\A q \in Requests : Becomes(q, "accepted") => now < token[q].exp + Timeout]_vars

\* A key the issuer has served for longer than a fetch takes is never unknown:
\* a late answer to another request may replace the newer keys a request has
\* just fetched, but not take away such a key.
SettledKeyIsFound ==
  [][\A q \in Requests : Becomes(q, "unknown") /\ token[q].kid \in published =>
       now - changed[token[q].kid] <= Timeout]_vars

(***************************************************************************)
(* The inductive invariant behind the above.  What a fetch brings, and the *)
(* cache after it, differs from what the issuer serves only in keys that   *)
(* changed since the fetch began; and a fetch takes at most Timeout.       *)
(***************************************************************************)
AgreesSince(k, K, t) == (k \in K <=> k \in published) \/ changed[k] >= t

AccessInv ==
  /\ TypeOK
  /\ \A k \in Keys : IF fetchedAt = Never THEN k \notin keys
                                          ELSE AgreesSince(k, keys, fetchedAt - Timeout)
  /\ \A q \in Requests :
       /\ stage[q] \in Computing \cup Fetching => token[q] \in Tokens
       /\ stage[q] = "lookup" => now < token[q].exp
       /\ stage[q] \in Fetching => sentAt[q] < token[q].exp /\ now <= sentAt[q] + Timeout
       /\ stage[q] = "answered" => \A k \in Keys : AgreesSince(k, resp[q], sentAt[q])
       /\ stage[q] \in {"reread", "found"} => now < token[q].exp + Timeout
       /\ stage[q] = "reread" => fetchedAt = now
       /\ stage[q] = "found" => \/ token[q].kid \in published
                                \/ now - changed[token[q].kid] <= StaleAfter + Timeout

=============================================================================
