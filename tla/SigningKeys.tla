---------------------------- MODULE SigningKeys ----------------------------
(***************************************************************************)
(* The issuer's signing keys and the cache OidcProvider keeps of them.     *)
(* The issuer publishes keys and withdraws them; every request brings a    *)
(* token, whose key is looked up in the cache and, if it is not there or   *)
(* the cache is past its time to live, once more after a fetch.            *)
(*                                                                         *)
(* Requests run on several threads.  An action is one read or write of the *)
(* cache or one await, so another request may come in between anywhere.    *)
(* Time passes while a request waits for the issuer, for no longer than    *)
(* the HTTP client's timeout, and before its first steps; from the end of  *)
(* a fetch to the answer there is no await and the clock stands still.     *)
(***************************************************************************)
EXTENDS Integers

CONSTANTS
  Tasks,       \* the requests that may be under way at once
  Keys,        \* the issuer's keys, each with its own kid
  Alg,         \* the algorithm of each key: a function on keys
  Algorithms,  \* the allowlist
  Connected,   \* the keys published when the gateway started
  Incoming,    \* the keys it may yet publish
  Outgoing,    \* the keys it may yet withdraw
  TTL,         \* jwks_cache_ttl
  Timeout,     \* http_timeout
  MaxTime,     \* bound of the clock
  Absent

(* What is left of a set of keys once refresh_keys_inner has filtered it.  *)
Usable(K) == {k \in K : Alg[k] \in Algorithms}

Time == 0 .. MaxTime
Tokens == [key : Keys, named : BOOLEAN]
Answers == [keys : SUBSET Keys, at : Time]
Caches == [keys : SUBSET Keys, at : Time, fetchedAt : Time]

ASSUME KeysAssumption ==
  /\ DOMAIN Alg = Keys /\ Connected \subseteq Keys
  /\ Incoming \subseteq Keys /\ Outgoing \subseteq Keys
  /\ Usable(Connected) # {}
ASSUME TimeAssumption == TTL \in Nat /\ Timeout \in Nat /\ MaxTime \in Nat
ASSUME AbsentAssumption ==
  Absent \notin Time /\ Absent \notin Keys /\ Absent \notin Tokens
  /\ Absent \notin Answers

VARIABLES
  now,
  from,       \* when the issuer published each key, or Absent
  until,      \* when it withdrew it, or Absent
  cache,      \* the cached keys, when they were current (history), fetched_at
  step,       \* where the request stands in validate
  token,      \* its token: the key it is signed with, and whether it has a kid
  found,      \* the key the first lookup gave
  asked,      \* when the request's fetch began
  got,        \* the issuer's answer, on its way
  verdict,    \* how the token judged last was judged
  settled,    \* history: its key was then published for longer than a fetch takes
  failed,     \* history: its fetch has failed
  overtaken   \* history: the cache was written between its first two reads

issuer == <<from, until>>
locals == <<step, token, found, asked, got, verdict, settled, failed>>
vars == <<now, issuer, cache, locals, overtaken>>

Steps == {"idle", "lookup", "stale", "fetch", "write", "retry"}
Verdicts == {"none", "accepted", "unknown", "invalid"}

Published == {k \in Keys : from[k] # Absent /\ until[k] = Absent}

(* connect: the gateway does not start without keys. *)
Init ==
  /\ now = 0
  /\ from = [k \in Keys |-> IF k \in Connected THEN 0 ELSE Absent]
  /\ until = [k \in Keys |-> Absent]
  /\ cache = [keys |-> Usable(Connected), at |-> 0, fetchedAt |-> 0]
  /\ step = [t \in Tasks |-> "idle"]
  /\ token = [t \in Tasks |-> Absent]
  /\ found = [t \in Tasks |-> Absent]
  /\ asked = [t \in Tasks |-> Absent]
  /\ got = [t \in Tasks |-> Absent]
  /\ verdict = "none"
  /\ settled = [t \in Tasks |-> FALSE]
  /\ failed = [t \in Tasks |-> FALSE]
  /\ overtaken = [t \in Tasks |-> FALSE]

-----------------------------------------------------------------------------
(* The clock and the issuer.                                               *)

Tick ==
  /\ now < MaxTime
  /\ \A t \in Tasks : /\ step[t] \in {"fetch", "write"} => now < asked[t] + Timeout
                      /\ step[t] # "retry"
  /\ now' = now + 1
  /\ UNCHANGED <<issuer, cache, locals, overtaken>>

Publish(k) ==
  /\ from[k] = Absent
  /\ from' = [from EXCEPT ![k] = now]
  /\ UNCHANGED <<now, until, cache, locals, overtaken>>

Withdraw(k) ==
  /\ k \in Published
  /\ until' = [until EXCEPT ![k] = now]
  /\ UNCHANGED <<now, from, cache, locals, overtaken>>

-----------------------------------------------------------------------------
(* validate.                                                               *)

(* lookup: by algorithm, and by kid if the token has one. *)
Candidates(tok) ==
  {k \in cache.keys : Alg[k] = Alg[tok.key] /\ (tok.named => k = tok.key)}

Goto(t, s) == step' = [step EXCEPT ![t] = s]

(* A token whose algorithm is not on the allowlist gets no further. *)
Begin(t, tok) ==
  /\ step[t] = "idle"
  /\ IF Alg[tok.key] \in Algorithms
     THEN /\ Goto(t, "lookup")
          /\ token' = [token EXCEPT ![t] = tok]
          /\ settled' = [settled EXCEPT ![t] =
               tok.named /\ tok.key \in Published /\ from[tok.key] + Timeout < now]
          /\ verdict' = "none"
     ELSE /\ verdict' = "invalid"
          /\ UNCHANGED <<step, token, settled>>
  /\ UNCHANGED <<now, issuer, cache, found, asked, got, failed, overtaken>>

Leave(t, r) ==
  /\ Goto(t, "idle")
  /\ verdict' = r
  /\ token' = [token EXCEPT ![t] = Absent]
  /\ found' = [found EXCEPT ![t] = Absent]
  /\ asked' = [asked EXCEPT ![t] = Absent]
  /\ got' = [got EXCEPT ![t] = Absent]
  /\ settled' = [settled EXCEPT ![t] = FALSE]
  /\ failed' = [failed EXCEPT ![t] = FALSE]
  /\ overtaken' = [overtaken EXCEPT ![t] = FALSE]
  /\ UNCHANGED <<now, issuer, cache>>

(* The signature is checked with key k, and the claims after it. *)
Decode(t, k) ==
  \/ k = token[t].key /\ Leave(t, "accepted")
  \/ Leave(t, "invalid")

Fetch(t) ==
  /\ Goto(t, "fetch")
  /\ asked' = [asked EXCEPT ![t] = now]
  /\ found' = [found EXCEPT ![t] = Absent]
  /\ overtaken' = [overtaken EXCEPT ![t] = FALSE]
  /\ UNCHANGED <<now, issuer, cache, token, got, verdict, settled, failed>>

Lookup(t) ==
  /\ step[t] = "lookup"
  /\ \/ \E k \in Candidates(token[t]) :
          /\ found' = [found EXCEPT ![t] = k]
          /\ Goto(t, "stale")
          /\ UNCHANGED <<now, issuer, cache, token, asked, got, verdict, settled,
                         failed, overtaken>>
     \/ Candidates(token[t]) = {} /\ Fetch(t)

(* Mutant: a key that is in the cache is good for ever. *)
StaleNever(t) ==
  /\ step[t] = "stale"
  /\ Decode(t, found[t])

(* cache_stale *)
Stale(t) ==
  /\ step[t] = "stale"
  /\ IF now - cache.fetchedAt <= TTL THEN Decode(t, found[t]) ELSE Fetch(t)

(* The issuer answers with what it publishes. *)
Answer(t) ==
  /\ step[t] = "fetch"
  /\ got' = [got EXCEPT ![t] = [keys |-> Published, at |-> now]]
  /\ Goto(t, "write")
  /\ UNCHANGED <<now, issuer, cache, token, found, asked, verdict, settled, failed,
                 overtaken>>

(* A fetch that fails leaves the cache as it is, and is ignored. *)
Fail(t) ==
  /\ Goto(t, "retry")
  /\ failed' = [failed EXCEPT ![t] = TRUE]
  /\ asked' = [asked EXCEPT ![t] = Absent]
  /\ got' = [got EXCEPT ![t] = Absent]
  /\ UNCHANGED <<now, issuer, cache, token, found, verdict, settled, overtaken>>

(* No connection, an error status, a body that does not parse, a timeout. *)
FetchFails(t) == step[t] \in {"fetch", "write"} /\ Fail(t)

(* Mutant: whatever the issuer sends is cached. *)
WriteAnything(t) ==
  /\ step[t] = "write"
  /\ cache' = [keys |-> got[t].keys, at |-> got[t].at, fetchedAt |-> now]
  /\ overtaken' = [u \in Tasks |-> overtaken[u] \/ step[u] = "stale"]
  /\ Goto(t, "retry")
  /\ asked' = [asked EXCEPT ![t] = Absent]
  /\ got' = [got EXCEPT ![t] = Absent]
  /\ UNCHANGED <<now, issuer, token, found, verdict, settled, failed>>

(* The answer replaces the cache, an answer fetched later included. *)
Write(t) ==
  /\ step[t] = "write"
  /\ IF Usable(got[t].keys) = {} THEN Fail(t)
     ELSE /\ cache' = [ keys |-> Usable(got[t].keys), at |-> got[t].at,
                        fetchedAt |-> now ]
          /\ overtaken' = [u \in Tasks |-> overtaken[u] \/ step[u] = "stale"]
          /\ Goto(t, "retry")
          /\ asked' = [asked EXCEPT ![t] = Absent]
          /\ got' = [got EXCEPT ![t] = Absent]
          /\ UNCHANGED <<now, issuer, token, found, verdict, settled, failed>>

(* Mutant: the key is not looked up again. *)
RetryNever(t) ==
  /\ step[t] = "retry"
  /\ Leave(t, "unknown")

(* Mutant: a key that is still unknown is asked for until it is there. *)
RetryFetching(t) ==
  /\ step[t] = "retry"
  /\ \/ \E k \in Candidates(token[t]) : Decode(t, k)
     \/ Candidates(token[t]) = {} /\ Fetch(t)

(* The second lookup, whether or not the fetch went well. *)
Retry(t) ==
  /\ step[t] = "retry"
  /\ \/ \E k \in Candidates(token[t]) : Decode(t, k)
     \/ Candidates(token[t]) = {} /\ Leave(t, "unknown")

(* The client hangs up while its request waits for the issuer. *)
Disconnect(t) == step[t] \in {"fetch", "write"} /\ Leave(t, "none")

Handle(t) ==
  \/ Lookup(t) \/ Stale(t) \/ Answer(t) \/ FetchFails(t) \/ Write(t) \/ Retry(t)

Next ==
  \/ Tick
  \/ \E k \in Incoming : Publish(k)
  \/ \E k \in Outgoing : Withdraw(k)
  \/ \E t \in Tasks :
       \/ \E tok \in Tokens : Begin(t, tok)
       \/ Handle(t) \/ Disconnect(t)

Spec == Init /\ [][Next]_vars

(* Tasks that are ready run; the HTTP client has a timeout. *)
FairSpec == Spec /\ \A t \in Tasks : WF_vars(Handle(t))

-----------------------------------------------------------------------------
(* Properties.                                                             *)

LocalOK(t) ==
  /\ step[t] = "idle" <=> token[t] = Absent
  /\ step[t] = "stale" <=> found[t] # Absent
  /\ step[t] \in {"fetch", "write"} <=> asked[t] # Absent
  /\ step[t] = "write" <=> got[t] # Absent

(* The type invariant.  What is cached is never without a usable key, so   *)
(* that an issuer that answers with none does not lock everybody out.      *)
(* (oidc.rs 176-181)                                                       *)
TypeOK ==
  /\ now \in Time
  /\ from \in [Keys -> Time \cup {Absent}]
  /\ until \in [Keys -> Time \cup {Absent}]
  /\ cache \in Caches /\ cache.keys # {} /\ cache.keys = Usable(cache.keys)
  /\ step \in [Tasks -> Steps]
  /\ token \in [Tasks -> Tokens \cup {Absent}]
  /\ found \in [Tasks -> Keys \cup {Absent}]
  /\ asked \in [Tasks -> Time \cup {Absent}]
  /\ got \in [Tasks -> Answers \cup {Absent}]
  /\ verdict \in Verdicts
  /\ settled \in [Tasks -> BOOLEAN]
  /\ failed \in [Tasks -> BOOLEAN]
  /\ overtaken \in [Tasks -> BOOLEAN]
  /\ \A t \in Tasks : LocalOK(t)

Judged(t, r) == step[t] # "idle" /\ step'[t] = "idle" /\ verdict' = r

(* A token is not accepted with a key withdrawn longer ago than the time   *)
(* to live and the timeout of a fetch together, though answers to several  *)
(* requests may be cached out of order.  There are two exceptions, both    *)
(* the code's own: the request's fetch has failed, or the cache was        *)
(* written between lookup and cache_stale, so that the key is an old       *)
(* cache's and its freshness a new one's.  (oidc.rs 182-207, 236-243)      *)
WithdrawnKeysExpire ==
  [][\A t \in Tasks :
       Judged(t, "accepted") =>
         \/ until[token[t].key] = Absent
         \/ now <= until[token[t].key] + TTL + Timeout
         \/ failed[t] \/ overtaken[t]]_vars

(* A token with a kid is not refused for an unknown key, if the key has    *)
(* not been withdrawn and was published longer than a fetch takes before   *)
(* the request, unless the request's own fetch has failed: rotation needs  *)
(* no luck, and answers cached out of order do no harm.                    *)
(* (oidc.rs 236-247)                                                       *)
SettledKeysKnown ==
  [][\A t \in Tasks :
       Judged(t, "unknown") /\ settled[t] /\ until[token[t].key] = Absent
         => failed[t]]_vars

(* Every token is judged, after one fetch at most, whatever the issuer     *)
(* answers and however often other requests write the cache meanwhile.     *)
(* (oidc.rs 237-246: "try cache -> refresh once -> fail")                  *)
ValidationsEnd == \A t \in Tasks : step[t] # "idle" ~> step[t] = "idle"
=============================================================================
