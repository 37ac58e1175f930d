------------------------ MODULE SigningKeys_proofs ------------------------
(***************************************************************************)
(* Theorems of SigningKeys, for any number of requests and keys, and any   *)
(* time to live and timeout.                                               *)
(***************************************************************************)
EXTENDS SigningKeys, TLAPS

USE KeysAssumption, TimeAssumption, AbsentAssumption

-----------------------------------------------------------------------------
(* The inductive invariant.                                                *)

(* TypeOK without what it says of each request. *)
Typed ==
  /\ now \in Time
  /\ from \in [Keys -> Time \cup {Absent}]
  /\ until \in [Keys -> Time \cup {Absent}]
  /\ cache \in Caches /\ cache.keys # {} /\ cache.keys = Usable(cache.keys)
  /\ step \in [Tasks -> Steps]
  /\ token \in [Tasks -> Tokens \cup {Absent}]
  /\ found \in [Tasks -> Keys \cup {Absent}]
  /\ asked \in [Tasks -> Time \cup {Absent}]
  /\ got \in [Tasks -> Answers \cup {Absent}]
  /\ verdict \in Verdicts
  /\ settled \in [Tasks -> BOOLEAN]
  /\ failed \in [Tasks -> BOOLEAN]
  /\ overtaken \in [Tasks -> BOOLEAN]

(* K is what was published at the time "at", as far as that can be told    *)
(* later: what was withdrawn or published at that very time may be in K    *)
(* or not.                                                                 *)
Current(K, at) ==
  /\ \A k \in K : until[k] = Absent \/ at <= until[k]
  /\ \A k \in Usable(Keys) :
       from[k] # Absent /\ from[k] < at /\ until[k] = Absent => k \in K

(* The cache is no older, when it is written, than a fetch takes. *)
CacheOK ==
  /\ Current(cache.keys, cache.at)
  /\ cache.at <= cache.fetchedAt
  /\ cache.fetchedAt <= cache.at + Timeout
  /\ cache.fetchedAt <= now

FetchOK(t) ==
  /\ step[t] \in {"fetch", "write"} => asked[t] <= now /\ now <= asked[t] + Timeout
  /\ step[t] = "write" => /\ asked[t] <= got[t].at /\ got[t].at <= now
                          /\ Current(got[t].keys, got[t].at)

(* What a lookup may rely on, of the cache, after the first one and after  *)
(* the fetch.                                                              *)
LookupOK(t) ==
  /\ step[t] # "idle" => Alg[token[t].key] \in Algorithms
  /\ step[t] = "stale" /\ ~overtaken[t] => found[t] \in cache.keys
  /\ step[t] = "retry" /\ ~failed[t] => now <= cache.at + Timeout

(* A settled key was published before any answer that is now on its way.   *)
SettledOK(t) ==
  settled[t] =>
    LET k == token[t].key IN
    /\ step[t] # "idle" /\ token[t].named
    /\ from[k] # Absent /\ from[k] + Timeout < now
    /\ step[t] \in {"fetch", "write"} => from[k] < asked[t]
    /\ step[t] = "retry" /\ ~failed[t] => from[k] < cache.at

TaskInv(t) == LocalOK(t) /\ FetchOK(t) /\ LookupOK(t) /\ SettledOK(t)

Inv == Typed /\ CacheOK /\ \A t \in Tasks : TaskInv(t)

LEMMA InvTyped == Inv => TypeOK
BY DEF Inv, Typed, TypeOK, TaskInv

LEMMA TokenOfTask ==
  ASSUME Inv, NEW t \in Tasks, step[t] # "idle"
  PROVE  token[t] \in Tokens /\ token[t].key \in Keys /\ token[t].named \in BOOLEAN
<1>1. token[t] \in Tokens
  BY DEF Inv, Typed, TaskInv, LocalOK
<1>2. QED
  BY <1>1 DEF Tokens

LEMMA InitInv == Init => Inv
<1> SUFFICES ASSUME Init PROVE Inv
  OBVIOUS
<1>1. Usable(Connected) \subseteq Keys /\ Usable(Usable(Connected)) = Usable(Connected)
  BY DEF Usable
<1>2. Typed
  BY <1>1 DEF Init, Typed, Time, Caches, Steps, Verdicts
<1>3. CacheOK
  <2>1. Current(cache.keys, cache.at)
    BY <1>1 DEF Init, Current, Usable
  <2>2. QED
    BY <2>1 DEF Init, CacheOK
<1>4. \A t \in Tasks : TaskInv(t)
  BY DEF Init, TaskInv, LocalOK, FetchOK, LookupOK, SettledOK
<1>5. QED
  BY <1>2, <1>3, <1>4 DEF Inv

-----------------------------------------------------------------------------
(* The clock and the issuer.                                               *)

LEMMA TickInv == Inv /\ Tick => Inv'
<1> SUFFICES ASSUME Inv, Tick PROVE Inv'
  OBVIOUS
<1> USE DEF Tick, issuer, locals
<1>1. Typed'
  BY DEF Inv, Typed, Time, Usable
<1>2. CacheOK'
  BY DEF Inv, Typed, CacheOK, Current, Usable, Caches, Time
<1>3. ASSUME NEW t \in Tasks PROVE TaskInv(t)'
  <2>1. TaskInv(t)
    BY DEF Inv
  <2>2. now \in Nat /\ now' = now + 1
    BY DEF Inv, Typed, Time
  <2>3. LocalOK(t)'
    BY <2>1 DEF TaskInv, LocalOK
  <2>4. FetchOK(t)'
    <3>1. step[t] \in {"fetch", "write"} => asked[t] \in Nat
      BY <2>1 DEF Inv, Typed, Time, TaskInv, LocalOK
    <3>2. step[t] = "write" => got[t].at \in Nat
      BY <2>1 DEF Inv, Typed, Time, TaskInv, LocalOK, Answers
    <3>3. QED
      BY <2>1, <2>2, <3>1, <3>2 DEF TaskInv, FetchOK, Current, Usable
  <2>5. LookupOK(t)'
    BY <2>1 DEF TaskInv, LookupOK
  <2>6. SettledOK(t)'
    <3>1. step[t] # "idle" /\ from[token[t].key] # Absent => from[token[t].key] \in Nat
      BY TokenOfTask DEF Inv, Typed, Time
    <3>2. QED
      BY <2>1, <2>2, <3>1 DEF TaskInv, SettledOK
  <2>7. QED
    BY <2>3, <2>4, <2>5, <2>6 DEF TaskInv
<1>4. QED
  BY <1>1, <1>2, <1>3 DEF Inv

(* What was current stays current: a key that is published or withdrawn    *)
(* now tells nothing of an earlier time.                                   *)
LEMMA StaysCurrent ==
  ASSUME Inv, NEW k \in Keys, Publish(k) \/ Withdraw(k),
         NEW K \in SUBSET Keys, NEW at \in Time, at <= now, Current(K, at)
  PROVE  Current(K, at)'
<1>1. ASSUME NEW j \in K PROVE until'[j] = Absent \/ at <= until'[j]
  <2>1. CASE Publish(k)
    BY <2>1 DEF Publish, Current
  <2>2. CASE Withdraw(k)
    BY <2>2 DEF Withdraw, Current, Inv, Typed
  <2>3. QED
    BY <2>1, <2>2
<1>2. ASSUME NEW j \in Usable(Keys),
             from'[j] # Absent, from'[j] < at, until'[j] = Absent
      PROVE  j \in K
  <2>1. CASE Publish(k)
    BY <1>2, <2>1 DEF Publish, Current, Inv, Typed, Usable, Time
  <2>2. CASE Withdraw(k)
    BY <1>2, <2>2 DEF Withdraw, Current, Inv, Typed, Usable, Time
  <2>3. QED
    BY <2>1, <2>2
<1>3. QED
  BY <1>1, <1>2 DEF Current, Usable

LEMMA IssuerInv ==
  ASSUME Inv, NEW k \in Keys, Publish(k) \/ Withdraw(k)
  PROVE  Inv'
<1>1. UNCHANGED <<now, cache, locals, overtaken>>
  BY DEF Publish, Withdraw
<1>2. /\ from' \in [Keys -> Time \cup {Absent}]
      /\ until' \in [Keys -> Time \cup {Absent}]
      /\ \A j \in Keys : from[j] # Absent => from'[j] = from[j]
  BY DEF Publish, Withdraw, Inv, Typed
<1>3. Typed'
  BY <1>1, <1>2 DEF Inv, Typed, locals, Usable
<1>4. CacheOK'
  <2>1. cache.keys \in SUBSET Keys /\ cache.at \in Time /\ cache.at <= now
    BY DEF Inv, Typed, CacheOK, Caches, Time
  <2>2. QED
    BY <1>1, <2>1, StaysCurrent DEF Inv, CacheOK, Current
<1>5. ASSUME NEW t \in Tasks PROVE TaskInv(t)'
  <2>1. TaskInv(t)
    BY DEF Inv
  <2>2. LocalOK(t)' /\ LookupOK(t)'
    BY <1>1, <2>1 DEF TaskInv, LocalOK, LookupOK, locals
  <2>3. FetchOK(t)'
    <3>1. step[t] = "write" => got[t].keys \in SUBSET Keys /\ got[t].at \in Time
      BY <2>1 DEF Inv, Typed, TaskInv, LocalOK, Answers
    <3>2. CASE step[t] = "write"
      <4>1. /\ got[t].at <= now /\ Current(got[t].keys, got[t].at)
            /\ UNCHANGED <<now, step[t], asked[t], got[t]>>
        BY <1>1, <2>1, <3>2 DEF TaskInv, FetchOK, locals
      <4>2. Current(got[t].keys, got[t].at)'
        BY <3>1, <3>2, <4>1, StaysCurrent DEF Current
      <4>3. QED
        BY <2>1, <3>2, <4>1, <4>2 DEF TaskInv, FetchOK
    <3>3. CASE step[t] # "write"
      BY <1>1, <2>1, <3>3 DEF TaskInv, FetchOK, locals
    <3>4. QED
      BY <3>2, <3>3
  <2>4. SettledOK(t)'
    BY <1>1, <1>2, <2>1, TokenOfTask DEF TaskInv, SettledOK, locals
  <2>5. QED
    BY <2>2, <2>3, <2>4 DEF TaskInv
<1>6. QED
  BY <1>3, <1>4, <1>5 DEF Inv

-----------------------------------------------------------------------------
(* The steps of a request.                                                 *)

shared == <<now, issuer, cache>>

(* Everything TaskInv says of a request, apart from what is shared. *)
Mine(t) == <<step[t], token[t], found[t], asked[t], got[t], settled[t],
             failed[t], overtaken[t]>>

LEMMA Others ==
  ASSUME Inv, NEW t \in Tasks, UNCHANGED shared, Typed', TaskInv(t)',
         \A u \in Tasks \ {t} : UNCHANGED Mine(u)
  PROVE  Inv'
<1>1. CacheOK'
  BY DEF Inv, CacheOK, Current, Usable, shared, issuer
<1>2. ASSUME NEW u \in Tasks \ {t} PROVE TaskInv(u)'
  <2>1. TaskInv(u) /\ UNCHANGED Mine(u)
    BY DEF Inv
  <2>2. LocalOK(u)' /\ LookupOK(u)' /\ SettledOK(u)'
    BY <2>1 DEF TaskInv, LocalOK, LookupOK, SettledOK, Mine, shared, issuer
  <2>3. FetchOK(u)'
    BY <2>1 DEF TaskInv, FetchOK, Current, Usable, Mine, shared, issuer
  <2>4. QED
    BY <2>2, <2>3 DEF TaskInv
<1>3. QED
  BY <1>1, <1>2 DEF Inv

LEMMA LeaveInv ==
  ASSUME Inv, NEW t \in Tasks, NEW r \in Verdicts, Leave(t, r)
  PROVE  Inv'
<1> USE DEF Leave, Goto
<1>1. UNCHANGED shared /\ \A u \in Tasks \ {t} : UNCHANGED Mine(u)
  BY DEF Inv, Typed, Mine, shared
<1>2. Typed'
  BY DEF Inv, Typed, Steps, issuer, Usable
<1>3. TaskInv(t)'
  BY DEF Inv, Typed, TaskInv, LocalOK, FetchOK, LookupOK, SettledOK
<1>4. QED
  BY <1>1, <1>2, <1>3, Others

LEMMA DecodeInv ==
  ASSUME Inv, NEW t \in Tasks, NEW k, Decode(t, k)
  PROVE  Inv'
BY LeaveInv DEF Decode, Verdicts

LEMMA BeginInv ==
  ASSUME Inv, NEW t \in Tasks, NEW tok \in Tokens, Begin(t, tok)
  PROVE  Inv'
<1>1. UNCHANGED shared /\ \A u \in Tasks \ {t} : UNCHANGED Mine(u)
  BY DEF Inv, Typed, Mine, shared, Begin, Goto
<1>2. tok.named \in BOOLEAN /\ tok.key \in Keys /\ TaskInv(t) /\ step[t] = "idle"
  BY DEF Tokens, Inv, Begin
<1>3. CASE Alg[tok.key] \in Algorithms
  <2> DEFINE s == tok.named /\ tok.key \in Published /\ from[tok.key] + Timeout < now
  <2>1. /\ step' = [step EXCEPT ![t] = "lookup"]
        /\ token' = [token EXCEPT ![t] = tok]
        /\ settled' = [settled EXCEPT ![t] = s]
        /\ verdict' = "none"
        /\ UNCHANGED <<now, issuer, cache, found, asked, got, failed, overtaken>>
    BY <1>3 DEF Begin, Goto
  <2>2. s \in BOOLEAN
    BY <1>2
  <2>3. s => from[tok.key] # Absent /\ from[tok.key] + Timeout < now /\ tok.named
    BY DEF Published
  <2> HIDE DEF s
  <2>4. Typed'
    BY <2>1, <2>2 DEF Inv, Typed, Steps, Verdicts, issuer, Usable
  <2>5. LocalOK(t)' /\ FetchOK(t)' /\ LookupOK(t)'
    BY <1>2, <1>3, <2>1 DEF Inv, Typed, TaskInv, LocalOK, FetchOK, LookupOK
  <2>6. SettledOK(t)'
    BY <2>1, <2>3 DEF Inv, Typed, SettledOK, issuer
  <2>7. QED
    BY <1>1, <2>4, <2>5, <2>6, Others DEF TaskInv
<1>4. CASE Alg[tok.key] \notin Algorithms
  <2>1. UNCHANGED <<shared, Mine(t), step, token, found, asked, got, settled,
                    failed, overtaken>> /\ verdict' = "invalid"
    BY <1>4 DEF Begin, shared, Mine
  <2>2. Typed'
    BY <2>1 DEF Inv, Typed, Verdicts, shared, issuer, Usable
  <2>3. TaskInv(t)'
    BY <1>2, <2>1 DEF TaskInv, LocalOK, FetchOK, LookupOK, SettledOK, shared,
       issuer, Mine
  <2>4. QED
    BY <1>1, <2>2, <2>3, Others
<1>5. QED
  BY <1>3, <1>4

LEMMA FetchInv ==
  ASSUME Inv, NEW t \in Tasks, step[t] \in {"lookup", "stale"}, Fetch(t)
  PROVE  Inv'
<1> USE DEF Fetch, Goto
<1>1. UNCHANGED shared /\ \A u \in Tasks \ {t} : UNCHANGED Mine(u)
  BY DEF Inv, Typed, Mine, shared
<1>2. Typed'
  BY DEF Inv, Typed, Steps, issuer, Usable
<1>3. TaskInv(t) /\ now \in Nat
  BY DEF Inv, Typed, Time
<1>4. LocalOK(t)' /\ FetchOK(t)' /\ LookupOK(t)'
  BY <1>3 DEF Inv, Typed, TaskInv, LocalOK, FetchOK, LookupOK
<1>5. SettledOK(t)'
  <2>1. from[token[t].key] # Absent => from[token[t].key] \in Nat
    BY TokenOfTask DEF Inv, Typed, Time
  <2>2. QED
    BY <1>3, <2>1 DEF Inv, Typed, TaskInv, SettledOK, issuer
<1>6. QED
  BY <1>1, <1>2, <1>4, <1>5, Others DEF TaskInv

LEMMA LookupInv ==
  ASSUME Inv, NEW t \in Tasks, Lookup(t)
  PROVE  Inv'
<1>1. CASE Fetch(t)
  BY <1>1, FetchInv DEF Lookup
<1>2. ASSUME NEW k \in Candidates(token[t]),
             found' = [found EXCEPT ![t] = k], Goto(t, "stale"),
             UNCHANGED <<now, issuer, cache, token, asked, got, verdict, settled,
                         failed, overtaken>>
      PROVE  Inv'
  <2> USE DEF Goto
  <2>1. step[t] = "lookup" /\ TaskInv(t)
    BY DEF Lookup, Inv
  <2>2. k \in cache.keys /\ k \in Keys
    BY DEF Candidates, Inv, Typed, Caches
  <2>3. UNCHANGED shared /\ \A u \in Tasks \ {t} : UNCHANGED Mine(u)
    BY <1>2 DEF Inv, Typed, Mine, shared
  <2>4. Typed'
    BY <1>2, <2>2 DEF Inv, Typed, Steps, issuer, Usable
  <2>5. TaskInv(t)'
    BY <1>2, <2>1, <2>2 DEF Inv, Typed, TaskInv, LocalOK, FetchOK, LookupOK,
       SettledOK, issuer
  <2>6. QED
    BY <2>3, <2>4, <2>5, Others
<1>3. QED
  BY <1>1, <1>2 DEF Lookup

LEMMA StaleInv ==
  ASSUME Inv, NEW t \in Tasks, Stale(t)
  PROVE  Inv'
<1>1. step[t] = "stale" /\ (Decode(t, found[t]) \/ Fetch(t))
  BY DEF Stale
<1>2. QED
  BY <1>1, DecodeInv, FetchInv

LEMMA AnswerInv ==
  ASSUME Inv, NEW t \in Tasks, Answer(t)
  PROVE  Inv'
<1> USE DEF Answer, Goto
<1>1. UNCHANGED shared /\ \A u \in Tasks \ {t} : UNCHANGED Mine(u)
  BY DEF Inv, Typed, Mine, shared
<1>2. Published \in SUBSET Keys /\ now \in Time
  BY DEF Published, Inv, Typed
<1>3. [keys |-> Published, at |-> now] \in Answers
  BY <1>2 DEF Answers
<1>4. Typed'
  BY <1>3 DEF Inv, Typed, Steps, issuer, Usable
<1>5. TaskInv(t)
  BY DEF Inv
<1>6. /\ got'[t].keys = Published /\ got'[t].at = now /\ step'[t] = "write"
      /\ got'[t] \in Answers
  BY <1>3 DEF Inv, Typed
<1>7. Current(got[t].keys, got[t].at)'
  BY <1>6 DEF Current, Published, Usable, issuer
<1>8. LocalOK(t)' /\ LookupOK(t)' /\ SettledOK(t)'
  BY <1>5, <1>6 DEF Inv, Typed, TaskInv, LocalOK, LookupOK, SettledOK, issuer
<1>9. FetchOK(t)'
  BY <1>2, <1>5, <1>6, <1>7 DEF TaskInv, FetchOK, Time
<1>10. QED
  BY <1>1, <1>4, <1>8, <1>9, Others DEF TaskInv

LEMMA FailInv ==
  ASSUME Inv, NEW t \in Tasks, step[t] \in {"fetch", "write"}, Fail(t)
  PROVE  Inv'
<1> USE DEF Fail, Goto
<1>1. UNCHANGED shared /\ \A u \in Tasks \ {t} : UNCHANGED Mine(u)
  BY DEF Inv, Typed, Mine, shared
<1>2. Typed'
  BY DEF Inv, Typed, Steps, issuer, Usable
<1>3. TaskInv(t)'
  BY DEF Inv, Typed, TaskInv, LocalOK, FetchOK, LookupOK, SettledOK, issuer
<1>4. QED
  BY <1>1, <1>2, <1>3, Others

(* The one step of a request that others notice: the answer was asked for  *)
(* no longer ago than a fetch takes, and so it is newer than any settled   *)
(* key, whatever it replaces.                                              *)
LEMMA WriteInv ==
  ASSUME Inv, NEW t \in Tasks, Write(t)
  PROVE  Inv'
<1>1. CASE Usable(got[t].keys) = {}
  BY <1>1, FailInv DEF Write
<1>2. CASE Usable(got[t].keys) # {}
  <2>1. /\ step[t] = "write"
        /\ cache' = [ keys |-> Usable(got[t].keys), at |-> got[t].at,
                      fetchedAt |-> now ]
        /\ overtaken' = [u \in Tasks |-> overtaken[u] \/ step[u] = "stale"]
        /\ step' = [step EXCEPT ![t] = "retry"]
        /\ asked' = [asked EXCEPT ![t] = Absent]
        /\ got' = [got EXCEPT ![t] = Absent]
        /\ UNCHANGED <<now, issuer, token, found, verdict, settled, failed>>
    BY <1>2 DEF Write, Goto
  <2>2. got[t] \in Answers /\ got[t].keys \in SUBSET Keys /\ got[t].at \in Nat
    BY <2>1 DEF Inv, Typed, TaskInv, LocalOK, Answers, Time
  <2>3. asked[t] \in Nat /\ now \in Nat
    BY <2>1 DEF Inv, Typed, TaskInv, LocalOK, Time
  <2>4. /\ asked[t] <= got[t].at /\ got[t].at <= now /\ now <= asked[t] + Timeout
        /\ Current(got[t].keys, got[t].at)
    BY <2>1 DEF Inv, TaskInv, FetchOK
  <2>5. /\ cache'.keys = Usable(got[t].keys) /\ cache'.at = got[t].at
        /\ cache'.fetchedAt = now
    BY <2>1
  <2>6. now <= cache'.at + Timeout
    BY <2>2, <2>3, <2>4, <2>5
  <2>7. Typed'
    <3>1. Usable(Usable(got[t].keys)) = Usable(got[t].keys)
      BY DEF Usable
    <3>2. cache' \in Caches /\ cache'.keys # {} /\ cache'.keys = Usable(cache'.keys)
      BY <1>2, <2>1, <2>2, <3>1 DEF Caches, Inv, Typed, TaskInv, LocalOK, Answers,
         Usable
    <3>3. overtaken' \in [Tasks -> BOOLEAN]
      <4>1. \A u \in Tasks : (overtaken[u] \/ step[u] = "stale") \in BOOLEAN
        OBVIOUS
      <4>2. QED
        BY <2>1, <4>1
    <3>4. QED
      BY <2>1, <3>2, <3>3 DEF Inv, Typed, Steps, issuer, Usable
  <2>8. CacheOK'
    <3>1. Current(cache.keys, cache.at)'
      BY <2>1, <2>4, <2>5 DEF Current, Usable, issuer
    <3>2. QED
      BY <2>1, <2>2, <2>3, <2>4, <2>5, <2>6, <3>1 DEF CacheOK
  <2>9. ASSUME NEW u \in Tasks PROVE TaskInv(u)'
    <3>1. TaskInv(u)
      BY DEF Inv
    <3>2. LocalOK(u)'
      BY <2>1, <3>1 DEF Inv, Typed, TaskInv, LocalOK
    <3>3. FetchOK(u)'
      BY <2>1, <3>1 DEF Inv, Typed, TaskInv, FetchOK, Current, Usable, issuer
    <3>4. LookupOK(u)'
      BY <2>1, <2>6, <3>1 DEF Inv, Typed, TaskInv, LookupOK
    <3>5. SettledOK(u)'
      <4>1. step[u] # "idle" /\ from[token[u].key] # Absent
              => from[token[u].key] \in Nat
        BY TokenOfTask DEF Inv, Typed, Time
      <4>2. settled[u] => from[token[u].key] < cache'.at
        BY <2>2, <2>3, <2>4, <2>5, <3>1, <4>1 DEF TaskInv, SettledOK
      <4>3. QED
        BY <2>1, <3>1, <4>2 DEF Inv, Typed, TaskInv, SettledOK, issuer
    <3>6. QED
      BY <3>2, <3>3, <3>4, <3>5 DEF TaskInv
  <2>10. QED
    BY <2>7, <2>8, <2>9 DEF Inv
<1>3. QED
  BY <1>1, <1>2

LEMMA RetryInv ==
  ASSUME Inv, NEW t \in Tasks, Retry(t)
  PROVE  Inv'
BY DecodeInv, LeaveInv DEF Retry, Verdicts

LEMMA NextInv == Inv /\ [Next]_vars => Inv'
<1> SUFFICES ASSUME Inv, [Next]_vars PROVE Inv'
  OBVIOUS
<1>1. CASE Tick
  BY <1>1, TickInv
<1>2. ASSUME NEW k \in Keys, Publish(k) \/ Withdraw(k) PROVE Inv'
  BY <1>2, IssuerInv
<1>3. ASSUME NEW t \in Tasks, NEW tok \in Tokens, Begin(t, tok) PROVE Inv'
  BY <1>3, BeginInv
<1>4. ASSUME NEW t \in Tasks, Handle(t) PROVE Inv'
  BY <1>4, LookupInv, StaleInv, AnswerInv, FailInv, WriteInv, RetryInv
     DEF Handle, FetchFails
<1>5. ASSUME NEW t \in Tasks, Disconnect(t) PROVE Inv'
  BY <1>5, LeaveInv DEF Disconnect, Verdicts
<1>6. CASE UNCHANGED vars
  <2> USE DEF vars, issuer, locals
  <2>1. Typed' /\ CacheOK'
    BY <1>6 DEF Inv, Typed, CacheOK, Current, Usable
  <2>2. ASSUME NEW t \in Tasks PROVE TaskInv(t)'
    BY <1>6 DEF Inv, TaskInv, LocalOK, FetchOK, LookupOK, SettledOK, Current, Usable
  <2>3. QED
    BY <2>1, <2>2 DEF Inv
<1>7. QED
  BY <1>1, <1>2, <1>3, <1>4, <1>5, <1>6 DEF Next

LEMMA Invariance == Spec => []Inv
BY InitInv, NextInv, PTL DEF Spec

(* Type correctness; the cache is never left without a usable key. *)
THEOREM TypeCorrect == Spec => []TypeOK
BY Invariance, InvTyped, PTL

-----------------------------------------------------------------------------
(* What a verdict shows.                                                   *)

(* The two steps that judge a token, and what they say of its key. *)
LEMMA Judges ==
  ASSUME Inv, Next, NEW t \in Tasks, NEW r \in {"accepted", "unknown"}, Judged(t, r)
  PROVE  \/ /\ step[t] = "stale" /\ r = "accepted"
            /\ now - cache.fetchedAt <= TTL /\ found[t] = token[t].key
         \/ /\ step[t] = "retry" /\ r = "accepted"
            /\ token[t].key \in cache.keys
         \/ /\ step[t] = "retry" /\ r = "unknown"
            /\ Candidates(token[t]) = {}
<1> USE DEF Judged
<1>1. \/ Handle(t) \/ Disconnect(t)
      \/ step'[t] = step[t]
  <2>1. ASSUME NEW u \in Tasks \ {t},
               Handle(u) \/ Disconnect(u) \/ \E tok \in Tokens : Begin(u, tok)
        PROVE  step'[t] = step[t]
    BY <2>1 DEF Inv, Typed, Handle, Disconnect, Begin, Lookup, Stale, Answer,
       FetchFails, Write, Retry, Decode, Leave, Fetch, Fail, Goto
  <2>2. ASSUME NEW tok \in Tokens, Begin(t, tok) PROVE FALSE
    BY <2>2 DEF Begin
  <2>3. CASE Tick \/ (\E k \in Incoming : Publish(k))
                  \/ (\E k \in Outgoing : Withdraw(k))
    BY <2>3 DEF Tick, Publish, Withdraw, locals
  <2>4. QED
    BY <2>1, <2>2, <2>3 DEF Next
<1>2. /\ ~Lookup(t) /\ ~Answer(t) /\ ~FetchFails(t) /\ ~Fetch(t)
      /\ ~Disconnect(t)
  BY DEF Inv, Typed, Lookup, Answer, FetchFails, Fail, Fetch, Disconnect, Leave, Goto
<1>3. ~Write(t)
  BY DEF Inv, Typed, Write, Fail, Goto
<1>4. CASE Stale(t)
  <2>1. step[t] = "stale" /\ now - cache.fetchedAt <= TTL /\ Decode(t, found[t])
    BY <1>2, <1>4 DEF Stale
  <2>2. QED
    BY <2>1 DEF Decode, Leave
<1>5. CASE Retry(t)
  BY <1>5 DEF Retry, Decode, Leave, Candidates
<1>6. QED
  BY <1>1, <1>2, <1>3, <1>4, <1>5 DEF Handle

(* A withdrawn key is good for a time to live and a timeout, and then only *)
(* in the two ways the property names.                                     *)
THEOREM WithdrawnKeysAreRefused == Spec => WithdrawnKeysExpire
<1> DEFINE Late(t) ==
      Judged(t, "accepted") =>
        \/ until[token[t].key] = Absent
        \/ now <= until[token[t].key] + TTL + Timeout
        \/ failed[t] \/ overtaken[t]
<1>1. ASSUME Inv, Next, NEW t \in Tasks PROVE Late(t)
  <2> SUFFICES ASSUME Judged(t, "accepted"), until[token[t].key] # Absent,
                      ~failed[t], ~overtaken[t]
               PROVE  now <= until[token[t].key] + TTL + Timeout
    OBVIOUS
  <2> DEFINE u == until[token[t].key]
  <2>1. u \in Nat /\ now \in Nat /\ cache.at \in Nat /\ cache.fetchedAt \in Nat
    BY <1>1, TokenOfTask DEF Inv, Typed, Time, Caches, Judged
  <2>2. token[t].key \in cache.keys => cache.at <= u
    BY <1>1 DEF Inv, CacheOK, Current
  <2>3. cache.fetchedAt <= cache.at + Timeout
    BY <1>1 DEF Inv, CacheOK
  <2>4. CASE step[t] = "stale" /\ now - cache.fetchedAt <= TTL
             /\ found[t] = token[t].key
    <3>1. token[t].key \in cache.keys
      BY <1>1, <2>4 DEF Inv, TaskInv, LookupOK
    <3>2. QED
      BY <2>1, <2>2, <2>3, <2>4, <3>1
  <2>5. CASE step[t] = "retry" /\ token[t].key \in cache.keys
    <3>1. now <= cache.at + Timeout
      BY <1>1, <2>5 DEF Inv, TaskInv, LookupOK
    <3>2. QED
      BY <2>1, <2>2, <2>5, <3>1
  <2>6. QED
    BY <1>1, <2>4, <2>5, Judges
<1>2. ASSUME Inv, [Next]_vars PROVE [\A t \in Tasks : Late(t)]_vars
  BY <1>1, <1>2
<1>3. QED
  BY <1>2, Invariance, PTL DEF Spec, WithdrawnKeysExpire

(* A settled key is found, at the latest after the request's own fetch. *)
THEOREM SettledKeysAreFound == Spec => SettledKeysKnown
<1> DEFINE Known(t) ==
      Judged(t, "unknown") /\ settled[t] /\ until[token[t].key] = Absent
        => failed[t]
<1>1. ASSUME Inv, Next, NEW t \in Tasks PROVE Known(t)
  <2> SUFFICES ASSUME Judged(t, "unknown"), settled[t],
                      until[token[t].key] = Absent, ~failed[t]
               PROVE  FALSE
    OBVIOUS
  <2>1. step[t] = "retry" /\ Candidates(token[t]) = {}
    BY <1>1, Judges
  <2>2. from[token[t].key] # Absent /\ from[token[t].key] < cache.at
    BY <1>1, <2>1 DEF Inv, TaskInv, SettledOK
  <2>3. token[t].key \in Usable(Keys)
    BY <1>1, <2>1, TokenOfTask DEF Inv, TaskInv, LookupOK, Usable
  <2>4. token[t].key \in cache.keys
    BY <1>1, <2>2, <2>3 DEF Inv, CacheOK, Current
  <2>5. QED
    BY <2>1, <2>4 DEF Candidates
<1>2. ASSUME Inv, [Next]_vars PROVE [\A t \in Tasks : Known(t)]_vars
  BY <1>1, <1>2
<1>3. QED
  BY <1>2, Invariance, PTL DEF Spec, SettledKeysKnown
=============================================================================
