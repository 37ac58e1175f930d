-------------------------- MODULE DataPlane_proofs --------------------------
(***************************************************************************)
(* Theorems of DataPlane, for every value of its constants: any number of  *)
(* callers, names and records, and every hazard.                           *)
(***************************************************************************)
EXTENDS DataPlane, TLAPS

USE NamesAssumption, StaticAssumption, AbsentAssumption

(* TypeOK without what it says of the handlers. *)
Typed ==
  /\ R!TypeOK
  /\ step \in [Callers -> Steps]
  /\ call \in [Callers -> Names \cup {Absent}]
  /\ rec \in [Callers -> AllRecords \cup {Absent}]
  /\ url \in [Callers -> Urls \cup {Absent}]
  /\ verdict \in [Callers -> Verdicts]
  /\ audit \in [Callers -> Decisions]
  /\ reply \in [Callers -> Replies]
  /\ forwarded \in [Callers -> Urls \cup {Absent}]
  /\ seen \in [Callers -> SUBSET (AllRecords \cup {Absent})]
  /\ ran \in [Callers -> SUBSET (Urls \cup {Absent})]

LedTo(c, u) ==
  \E r \in seen[c] \ {Absent} :
    \/ r.upstream = u
    \/ r.upstream = Absent /\ u \in ran[c]

(* A tool's record, and one whose endpoint is asked of the provider, has   *)
(* no upstream of its own.                                                 *)
Own(r, n, asked) == n \in Tools \/ asked => r.upstream = Absent

(* What holds of a call under way: its history holds what is in force and  *)
(* what can be routed to now, and the record it has read; once authorised, *)
(* that record lets its caller through; and its upstream is one the name   *)
(* led to.                                                                 *)
CallAt(c) ==
  /\ call[c] # Absent => /\ InForce(call[c], record[call[c]]) \in seen[c]
                         /\ Routable(call[c], workload[call[c]]) \in ran[c]
  /\ rec[c] # Absent => rec[c] \in seen[c]
  /\ step[c] = "forward" => Admits(rec[c], c)
  /\ step[c] = "endpoint" /\ call[c] \in Tools => Admits(rec[c], c)
  /\ step[c] = "endpoint" => call[c] \notin StaticNames
  /\ step[c] \in {"authorize", "endpoint"}
       => Own(rec[c], call[c], step[c] = "endpoint")
  /\ url[c] # Absent => LedTo(c, url[c])

(* Of a call that was forwarded, what the two routing properties say. *)
ForwardedAt(c) ==
  forwarded[c] # Absent => /\ \E r \in seen[c] \ {Absent} : Admits(r, c)
                           /\ LedTo(c, forwarded[c])

(* A call that was forwarded, over or about to be audited, is not denied;  *)
(* and what it is answered follows from what is on record.                 *)
AuditAt(c) ==
  /\ forwarded[c] # Absent => verdict[c] \in {"none", "allow"} /\ audit[c] # "deny"
  /\ reply[c] = "served" <=> audit[c] = "allow"
  /\ reply[c] = "refused" => audit[c] = "deny"

CallInv(c) == LocalOK(c) /\ CallAt(c) /\ ForwardedAt(c) /\ AuditAt(c)

Inv == Typed /\ \A c \in Callers : CallInv(c)

(* The two ways a record leads to an upstream. *)
LEMMA LedByRecord ==
  ASSUME NEW c \in Callers, NEW r \in seen[c], r # Absent
  PROVE  LedTo(c, r.upstream)
BY DEF LedTo

LEMMA LedByWorkload ==
  ASSUME NEW c \in Callers, NEW r \in seen[c], r # Absent, r.upstream = Absent,
         NEW u \in ran[c]
  PROVE  LedTo(c, u)
BY DEF LedTo

LEMMA InvTyped == Inv => TypeOK
BY DEF Inv, Typed, TypeOK, CallInv

(* Everything CallInv says of a call, apart from the registry. *)
Mine(c) == <<step[c], call[c], rec[c], url[c], verdict[c], audit[c], reply[c],
             forwarded[c], seen[c], ran[c]>>

LEMMA Others ==
  ASSUME Inv, NEW c \in Callers, UNCHANGED registry, CallInv(c)',
         \A d \in Callers \ {c} : UNCHANGED Mine(d)
  PROVE  \A d \in Callers : CallInv(d)'
<1> SUFFICES ASSUME NEW d \in Callers \ {c} PROVE CallInv(d)'
  OBVIOUS
<1>1. CallInv(d) /\ UNCHANGED Mine(d)
  BY DEF Inv
<1>2. LocalOK(d)' /\ AuditAt(d)'
  BY <1>1 DEF Mine, CallInv, LocalOK, AuditAt
<1>3. CallAt(d)'
  BY <1>1 DEF Mine, CallInv, CallAt, LedTo, Admits, InForce, Routable, registry
<1>4. ForwardedAt(d)'
  BY <1>1 DEF Mine, CallInv, ForwardedAt, LedTo, Admits
<1>5. QED
  BY <1>2, <1>3, <1>4 DEF CallInv

(* What the registry holds for a name has a type, and so do the records    *)
(* and endpoints a call may take from it.                                  *)
LEMMA RegistryTypes ==
  ASSUME Typed
  PROVE  \A n \in Names : /\ record[n] \in AllRecords \cup {Absent}
                          /\ workload[n] \in Urls \cup {Absent}
                          /\ InForce(n, record[n]) \in AllRecords \cup {Absent}
                          /\ Routable(n, workload[n]) \in Urls \cup {Absent}
<1> TAKE n \in Names
<1>1. record[n] \in Records[n] \cup {Absent} /\ workload[n] \in Workloads[n] \cup {Absent}
  BY DEF Typed, R!TypeOK
<1>2. Records[n] \subseteq AllRecords /\ Workloads[n] \subseteq Urls
  BY DEF AllRecords
<1>3. n \in StaticNames => Static[n] \in AllRecords
  BY DEF AllRecords, StaticRecords
<1>4. QED
  BY <1>1, <1>2, <1>3 DEF InForce, Routable

LEMMA RecordTypes ==
  /\ AllRecords \subseteq RecordType
  /\ \A r \in AllRecords : r # Absent /\ r.upstream \in Urls \cup {Absent}
<1>1. AllRecords \subseteq RecordType
  BY DEF AllRecords, StaticRecords
<1>2. QED
  BY <1>1 DEF RecordType

-----------------------------------------------------------------------------
(* The registry: it keeps its own type ...                                 *)
LEMMA RegistryType ==
  ASSUME R!TypeOK, R!Next PROVE R!TypeOK'
<1> USE DEF R!TypeOK
<1>1. ASSUME NEW n \in Names, R!Put(n) PROVE R!TypeOK'
  BY <1>1 DEF R!Put
<1>2. ASSUME NEW n \in Names, R!Remove(n) PROVE R!TypeOK'
  BY <1>2 DEF R!Remove
<1>3. ASSUME NEW n \in Names, R!Deploy(n) PROVE R!TypeOK'
  BY <1>3 DEF R!Deploy
<1>4. ASSUME NEW n \in Names, R!Teardown(n) PROVE R!TypeOK'
  BY <1>4 DEF R!Teardown
<1>5. CASE R!Forget
  BY <1>5 DEF R!Forget
<1>6. QED
  BY <1>1, <1>2, <1>3, <1>4, <1>5 DEF R!Next

(* ... and only adds to what a call may rest on. *)
LEMMA RegistryInv ==
  ASSUME Inv, RegistryStep PROVE Inv'
<1>1. R!TypeOK'
  BY RegistryType DEF Inv, Typed, RegistryStep
<1>2. UNCHANGED locals
  BY DEF RegistryStep, Observe
<1>3. \A n \in Names : /\ InForce(n, record'[n]) \in AllRecords \cup {Absent}
                       /\ Routable(n, workload'[n]) \in Urls \cup {Absent}
  <2> TAKE n \in Names
  <2>1. /\ record'[n] \in Records[n] \cup {Absent}
        /\ workload'[n] \in Workloads[n] \cup {Absent}
    BY <1>1 DEF R!TypeOK
  <2>2. Records[n] \subseteq AllRecords /\ Workloads[n] \subseteq Urls
    BY DEF AllRecords
  <2>3. n \in StaticNames => Static[n] \in AllRecords
    BY DEF AllRecords, StaticRecords
  <2>4. QED
    BY <2>1, <2>2, <2>3 DEF InForce, Routable
<1>4. Typed'
  BY <1>1, <1>2, <1>3 DEF Inv, Typed, RegistryStep, Observe, locals
<1>5. ASSUME NEW c \in Callers PROVE CallInv(c)'
  <2>1. /\ CallInv(c) /\ seen[c] \subseteq seen'[c] /\ ran[c] \subseteq ran'[c]
        /\ call[c] # Absent => /\ InForce(call[c], record'[call[c]]) \in seen'[c]
                               /\ Routable(call[c], workload'[call[c]]) \in ran'[c]
    BY DEF Inv, Typed, RegistryStep, Observe
  <2>2. LocalOK(c)' /\ AuditAt(c)'
    BY <1>2, <2>1 DEF locals, CallInv, LocalOK, AuditAt
  <2>3. \A u : LedTo(c, u) => LedTo(c, u)'
    BY <2>1 DEF LedTo
  <2>4. CallAt(c)'
    BY <1>2, <2>1, <2>3 DEF locals, CallInv, CallAt, Admits, InForce, Routable
  <2>5. ForwardedAt(c)'
    BY <1>2, <2>1, <2>3 DEF locals, CallInv, ForwardedAt, Admits
  <2>6. QED
    BY <2>2, <2>4, <2>5 DEF CallInv
<1>6. QED
  BY <1>4, <1>5 DEF Inv

-----------------------------------------------------------------------------
(* The ways a step of a call may go.                                       *)

LEMMA BeginInv ==
  ASSUME Inv, NEW c \in Callers, NEW n \in Names, Begin(c, n) PROVE Inv'
<1> USE DEF Begin, Goto, registry
<1>1. Typed /\ CallInv(c)
  BY DEF Inv
<1>2. Typed'
  <2>1. /\ InForce(n, record[n]) \in AllRecords \cup {Absent}
        /\ Routable(n, workload[n]) \in Urls \cup {Absent}
    BY <1>1, RegistryTypes
  <2>2. QED
    BY <1>1, <2>1 DEF Typed, Steps, Decisions, Verdicts, Replies, R!TypeOK
<1>3. LocalOK(c)' /\ AuditAt(c)'
  BY <1>1 DEF Typed, CallInv, LocalOK, AuditAt
<1>4. CallAt(c)' /\ ForwardedAt(c)'
  BY <1>1 DEF Typed, CallInv, LocalOK, CallAt, ForwardedAt, InForce, Routable
<1>5. \A d \in Callers \ {c} : UNCHANGED Mine(d)
  BY <1>1 DEF Typed, Mine
<1>6. QED
  BY <1>2, <1>3, <1>4, <1>5, Others DEF CallInv, Inv

(* The call ends unaudited, and was forwarded on the way or not. *)
LEMMA ReturnInv ==
  ASSUME Inv, NEW c \in Callers, NEW a \in {"failed", "none"}, Return(c, a),
         step[c] # "idle",
         \/ UNCHANGED forwarded
         \/ step[c] = "forward" /\ forwarded' = [forwarded EXCEPT ![c] = url[c]]
  PROVE  Inv'
<1> USE DEF Return, Leave, Goto, registry, history
<1>1. Typed /\ CallInv(c)
  BY DEF Inv
<1>2. Typed'
  BY <1>1 DEF Typed, Steps, Decisions, Verdicts, Replies, R!TypeOK
<1>3. LocalOK(c)'
  BY <1>1 DEF Typed, CallInv, LocalOK
<1>4. AuditAt(c)'
  BY <1>1 DEF Typed, CallInv, LocalOK, AuditAt
<1>5. CallAt(c)'
  BY <1>1 DEF Typed, CallAt
<1>6. ForwardedAt(c)'
  BY <1>1 DEF Typed, CallInv, LocalOK, CallAt, ForwardedAt, LedTo, Admits
<1>7. \A d \in Callers \ {c} : UNCHANGED Mine(d)
  BY <1>1 DEF Typed, Mine
<1>8. QED
  BY <1>2, <1>3, <1>4, <1>5, <1>6, <1>7, Others DEF CallInv, Inv

(* The answer is decided.  What was or is forwarded is not denied. *)
LEMMA DecideInv ==
  ASSUME Inv, NEW c \in Callers, NEW d \in Verdicts \ {"none"}, Decide(c, d),
         step[c] \notin {"idle", "audit"},
         \/ UNCHANGED forwarded
         \/ /\ step[c] = "forward" /\ d = "allow"
            /\ forwarded' = [forwarded EXCEPT ![c] = url[c]]
  PROVE  Inv'
<1> USE DEF Decide, Goto, registry, history
<1>1. Typed /\ CallInv(c)
  BY DEF Inv
<1>2. Typed'
  BY <1>1 DEF Typed, Steps, Decisions, Verdicts, R!TypeOK
<1>3. LocalOK(c)' /\ AuditAt(c)'
  BY <1>1 DEF Typed, CallInv, LocalOK, AuditAt
<1>4. CallAt(c)'
  BY <1>1 DEF Typed, CallInv, CallAt, LedTo, InForce, Routable
<1>5. ForwardedAt(c)'
  BY <1>1 DEF Typed, CallInv, LocalOK, CallAt, ForwardedAt, LedTo, Admits
<1>6. \A e \in Callers \ {c} : UNCHANGED Mine(e)
  BY <1>1 DEF Typed, Mine
<1>7. QED
  BY <1>2, <1>3, <1>4, <1>5, <1>6, Others DEF CallInv, Inv

(* The handler goes on with a record of the call's history. *)
LEMMA TakeInv ==
  ASSUME Inv, NEW c \in Callers, step[c] \notin {"idle", "audit"},
         NEW r \in AllRecords, r \in seen[c],
         NEW u \in Urls \cup {Absent}, u # Absent => LedTo(c, u),
         NEW s \in {"authorize", "endpoint", "forward"}, Take(c, r, u, s),
         s = "forward" => u # Absent /\ Admits(r, c),
         s = "authorize" /\ call[c] \notin Tools => u # Absent,
         s = "endpoint" => call[c] \notin StaticNames,
         s = "endpoint" /\ call[c] \in Tools => Admits(r, c),
         Own(r, call[c], s = "endpoint")
  PROVE  Inv'
<1> USE DEF Take, Goto, registry, history
<1>1. Typed /\ CallInv(c)
  BY DEF Inv
<1>2. Typed'
  BY <1>1 DEF Typed, Steps, R!TypeOK
<1>3. step'[c] = s /\ rec'[c] = r /\ url'[c] = u
  BY <1>1 DEF Typed
<1>4. LocalOK(c)' /\ AuditAt(c)'
  <2>1. r # Absent
    BY RecordTypes
  <2>2. LocalOK(c)'
    BY <1>1, <1>3, <2>1 DEF CallInv, LocalOK
  <2>3. AuditAt(c)'
    BY <1>1 DEF CallInv, AuditAt
  <2>4. QED
    BY <2>2, <2>3
<1>5. CallAt(c)'
  <2>1. s \in {"authorize", "endpoint"} => Own(r, call[c], s = "endpoint")'
    BY DEF Own
  <2>2. QED
    BY <1>1, <1>3, <2>1 DEF CallInv, CallAt, LedTo, InForce, Routable, Admits, Own
<1>6. ForwardedAt(c)'
  BY <1>1 DEF CallInv, ForwardedAt, LedTo, Admits
<1>7. \A d \in Callers \ {c} : UNCHANGED Mine(d)
  BY <1>1 DEF Typed, Mine
<1>8. QED
  BY <1>2, <1>4, <1>5, <1>6, <1>7, Others DEF CallInv, Inv

LEMMA AuditInv ==
  ASSUME Inv, NEW c \in Callers, Audit(c) PROVE Inv'
<1> USE DEF Audit, Leave, Goto, registry, history
<1>1. Typed /\ CallInv(c)
  BY DEF Inv
<1>2. /\ verdict[c] \in {"allow", "deny", "error"}
      /\ Answer[verdict[c]] \in {"served", "refused", "failed"}
      /\ Answer[verdict[c]] = "served" <=> verdict[c] = "allow"
  BY <1>1 DEF Typed, CallInv, LocalOK, Decisions, Verdicts, Answer
<1>3. Typed'
  BY <1>1, <1>2 DEF Typed, Steps, Decisions, Verdicts, Replies, R!TypeOK
<1>4. LocalOK(c)'
  BY <1>1 DEF Typed, CallInv, LocalOK
<1>5. AuditAt(c)'
  BY <1>1, <1>2 DEF Typed, CallInv, AuditAt
<1>6. CallAt(c)'
  BY <1>1 DEF Typed, CallAt
<1>7. ForwardedAt(c)'
  BY <1>1 DEF CallInv, ForwardedAt, LedTo, Admits
<1>8. \A d \in Callers \ {c} : UNCHANGED Mine(d)
  BY <1>1 DEF Typed, Mine
<1>9. QED
  BY <1>3, <1>4, <1>5, <1>6, <1>7, <1>8, Others DEF CallInv, Inv

-----------------------------------------------------------------------------
(* The handler, step by step.                                              *)
LEMMA HandleInv ==
  ASSUME Inv, NEW c \in Callers, Handle(c) PROVE Inv'
<1>1. Typed /\ CallInv(c)
  BY DEF Inv
<1>2. /\ step[c] # "idle" => call[c] \in Names
      /\ rec[c] # Absent => rec[c] \in AllRecords /\ rec[c] \in seen[c]
      /\ url[c] \in Urls \cup {Absent}
      /\ url[c] # Absent => LedTo(c, url[c])
  BY <1>1 DEF Typed, CallInv, LocalOK, CallAt
<1>3. ASSUME step[c] # "idle", call[c] \notin StaticNames
      PROVE  /\ record[call[c]] \in seen[c]
             /\ record[call[c]] \in AllRecords \cup {Absent}
             /\ workload[call[c]] \in ran[c]
             /\ workload[call[c]] \in Urls \cup {Absent}
             /\ record[call[c]] # Absent => Own(record[call[c]], call[c], FALSE)
  <2>1. record[call[c]] \in Records[call[c]] \cup {Absent}
    BY <1>1, <1>2, <1>3 DEF Typed, R!TypeOK
  <2>2. record[call[c]] # Absent => Own(record[call[c]], call[c], FALSE)
    BY <2>1 DEF Own
  <2>3. QED
    BY <1>1, <1>2, <1>3, <2>2, RegistryTypes
    DEF CallInv, LocalOK, CallAt, InForce, Routable
<1>4. CASE ResolveStatic(c)
  <2>1. /\ Static[call[c]] \in AllRecords /\ Static[call[c]] \in seen[c]
        /\ Static[call[c]].upstream # Absent
    BY <1>1, <1>2, <1>4
    DEF ResolveStatic, CallInv, LocalOK, CallAt, InForce, AllRecords, StaticRecords
  <2>2. LedTo(c, Static[call[c]].upstream) /\ Static[call[c]].upstream \in Urls
    <3>1. Static[call[c]] # Absent /\ Static[call[c]].upstream \in Urls \cup {Absent}
      BY <2>1, RecordTypes
    <3>2. QED
      BY <2>1, <3>1, LedByRecord
  <2>3. Own(Static[call[c]], call[c], FALSE)
    BY <1>4 DEF ResolveStatic, Own
  <2>4. QED
    BY <1>4, <2>1, <2>2, <2>3, TakeInv DEF ResolveStatic
<1>5. CASE ResolveRecord(c)
  <2>1. step[c] = "resolve" /\ call[c] \notin Tools /\ call[c] \notin StaticNames
    BY <1>5 DEF ResolveRecord
  <2>2. CASE Deny(c)
    BY <2>1, <2>2, DecideInv DEF Deny, Verdicts, Decisions
  <2>3. CASE /\ record[call[c]] # Absent /\ record[call[c]].upstream # Absent
             /\ Take(c, record[call[c]], record[call[c]].upstream, "authorize")
    <3>1. LedTo(c, record[call[c]].upstream) /\ record[call[c]].upstream \in Urls
      BY <1>3, <2>1, <2>3, RecordTypes, LedByRecord
    <3>2. Own(record[call[c]], call[c], FALSE)
      BY <1>3, <2>1, <2>3
    <3>3. QED
      BY <1>3, <2>1, <2>3, <3>1, <3>2, TakeInv
  <2>4. CASE /\ record[call[c]] # Absent /\ record[call[c]].upstream = Absent
             /\ Take(c, record[call[c]], Absent, "endpoint")
    BY <1>3, <2>1, <2>4, TakeInv DEF Own
  <2>5. CASE Return(c, "failed") /\ UNCHANGED forwarded
    BY <2>1, <2>5, ReturnInv
  <2>6. QED
    BY <1>5, <2>2, <2>3, <2>4, <2>5 DEF ResolveRecord
<1>6. CASE ResolveWorkload(c)
  <2>1. /\ step[c] = "endpoint" /\ call[c] \notin Tools /\ call[c] \notin StaticNames
        /\ rec[c] # Absent /\ rec[c].upstream = Absent
    BY <1>1, <1>6 DEF ResolveWorkload, CallInv, CallAt, LocalOK, Own
  <2>2. CASE /\ workload[call[c]] # Absent
             /\ Take(c, rec[c], workload[call[c]], "authorize")
    <3>1. LedTo(c, workload[call[c]])
      BY <1>2, <1>3, <2>1, LedByWorkload
    <3>2. QED
      BY <1>2, <1>3, <2>1, <2>2, <3>1, TakeInv DEF Own
  <2>3. CASE Deny(c)
    BY <2>1, <2>3, DecideInv DEF Deny, Verdicts, Decisions
  <2>4. QED
    BY <1>6, <2>2, <2>3 DEF ResolveWorkload
<1>7. CASE LookupTool(c)
  <2>1. step[c] = "resolve" /\ call[c] \in Tools /\ call[c] \notin StaticNames
    BY <1>7 DEF LookupTool
  <2>2. CASE Return(c, "failed") /\ UNCHANGED forwarded
    BY <2>1, <2>2, ReturnInv
  <2>3. CASE Deny(c)
    BY <2>1, <2>3, DecideInv DEF Deny, Verdicts, Decisions
  <2>4. CASE record[call[c]] # Absent /\ Take(c, record[call[c]], Absent, "authorize")
    BY <1>3, <2>1, <2>4, TakeInv DEF Own
  <2>5. QED
    BY <1>7, <2>2, <2>3, <2>4 DEF LookupTool
<1>8. CASE Authorize(c)
  <2>1. /\ step[c] = "authorize" /\ rec[c] # Absent
        /\ call[c] \notin Tools => url[c] # Absent
        /\ Own(rec[c], call[c], FALSE)
    BY <1>1, <1>8 DEF Authorize, CallInv, LocalOK, CallAt
  <2>2. CASE Admits(rec[c], c) /\ Take(c, rec[c], url[c], Authorized(c))
    <3>1. CASE call[c] \in Tools
      <4>1. Own(rec[c], call[c], TRUE)
        BY <2>1, <3>1 DEF Own
      <4>2. Take(c, rec[c], url[c], "endpoint") /\ call[c] \notin StaticNames
        BY <1>2, <2>1, <2>2, <3>1 DEF Authorized
      <4>3. QED
        BY <1>2, <2>1, <2>2, <3>1, <4>1, <4>2, TakeInv
    <3>2. CASE call[c] \notin Tools
      <4>1. Take(c, rec[c], url[c], "forward") /\ Own(rec[c], call[c], FALSE)
        BY <2>1, <2>2, <3>2 DEF Authorized
      <4>2. QED
        BY <1>2, <2>1, <2>2, <3>2, <4>1, TakeInv
    <3>3. QED
      BY <3>1, <3>2
  <2>3. CASE Deny(c)
    BY <2>1, <2>3, DecideInv DEF Deny, Verdicts, Decisions
  <2>4. ASSUME NEW d \in {"deny", "error"}, Decide(c, d), UNCHANGED forwarded
        PROVE  Inv'
    BY <2>1, <2>4, DecideInv DEF Verdicts, Decisions
  <2>5. QED
    BY <1>8, <2>2, <2>3, <2>4 DEF Authorize
<1>9. CASE ToolEndpoint(c)
  <2>1. /\ step[c] = "endpoint" /\ call[c] \in Tools /\ call[c] \notin StaticNames
        /\ rec[c] # Absent /\ rec[c].upstream = Absent /\ Admits(rec[c], c)
    BY <1>1, <1>9 DEF ToolEndpoint, CallInv, CallAt, LocalOK, Own
  <2>2. CASE /\ workload[call[c]] # Absent
             /\ Take(c, rec[c], workload[call[c]], "forward")
    <3>1. LedTo(c, workload[call[c]])
      BY <1>2, <1>3, <2>1, LedByWorkload
    <3>2. QED
      BY <1>2, <1>3, <2>1, <2>2, <3>1, TakeInv DEF Own
  <2>3. CASE Decide(c, "allow") /\ UNCHANGED forwarded
    BY <2>1, <2>3, DecideInv DEF Verdicts, Decisions
  <2>4. QED
    BY <1>9, <2>2, <2>3 DEF ToolEndpoint
<1>10. CASE Forward(c)
  BY <1>10, DecideInv, ReturnInv DEF Forward, Verdicts, Decisions
<1>11. CASE Audit(c)
  BY <1>11, AuditInv
<1>12. QED
  BY <1>4, <1>5, <1>6, <1>7, <1>8, <1>9, <1>10, <1>11 DEF Handle

LEMMA InvStep == Inv /\ [Next]_vars => Inv'
<1> SUFFICES ASSUME Inv, [Next]_vars PROVE Inv'
  OBVIOUS
<1>1. CASE RegistryStep
  BY <1>1, RegistryInv
<1>2. ASSUME NEW c \in Callers, NEW n \in Names, Begin(c, n) PROVE Inv'
  BY <1>2, BeginInv
<1>3. ASSUME NEW c \in Callers, Handle(c) PROVE Inv'
  BY <1>3, HandleInv
<1>4. ASSUME NEW c \in Callers, Disconnect(c) PROVE Inv'
  BY <1>4, ReturnInv DEF Disconnect
<1>5. CASE UNCHANGED vars
  <2>1. Typed'
    BY <1>5 DEF vars, registry, locals, history, Inv, Typed, R!TypeOK
  <2>2. ASSUME NEW c \in Callers PROVE CallInv(c)'
    <3>1. CallInv(c) /\ UNCHANGED Mine(c) /\ UNCHANGED registry
      BY <1>5 DEF vars, locals, history, Mine, Inv
    <3>2. LocalOK(c)' /\ AuditAt(c)'
      BY <3>1 DEF Mine, CallInv, LocalOK, AuditAt
    <3>3. CallAt(c)'
      BY <3>1 DEF Mine, CallInv, CallAt, LedTo, Admits, InForce, Routable, registry
    <3>4. ForwardedAt(c)'
      BY <3>1 DEF Mine, CallInv, ForwardedAt, LedTo, Admits
    <3>5. QED
      BY <3>2, <3>3, <3>4 DEF CallInv
  <2>3. QED
    BY <2>1, <2>2 DEF Inv
<1>6. QED
  BY <1>1, <1>2, <1>3, <1>4, <1>5 DEF Next

LEMMA InvInit == Init => Inv
<1> SUFFICES ASSUME Init PROVE Inv
  OBVIOUS
<1>1. Typed
  BY DEF Init, Typed, R!Init, R!TypeOK, Steps, Decisions, Verdicts, Replies
<1>2. \A c \in Callers : CallInv(c)
  BY DEF Init, CallInv, LocalOK, CallAt, ForwardedAt, AuditAt
<1>3. QED
  BY <1>1, <1>2 DEF Inv

LEMMA Invariant == Spec => []Inv
BY InvInit, InvStep, PTL DEF Spec

-----------------------------------------------------------------------------
(* Every state of the data plane is well typed, and every handler has read *)
(* a record before it authorises and has an upstream before it forwards.   *)
THEOREM TypeCorrect == Spec => []TypeOK
BY Invariant, InvTyped, PTL

(* However the registry changes a record while a call runs, the call is    *)
(* forwarded only under one that admits its caller.                        *)
THEOREM OnlyGrantedForwarded == Spec => []ForwardedUnderGrant
<1>1. Inv => ForwardedUnderGrant
  BY DEF Inv, CallInv, ForwardedAt, ForwardedUnderGrant
<1>2. QED
  BY <1>1, Invariant, PTL

(* A call is never forwarded to an upstream that was not the name's own    *)
(* while the call ran.                                                     *)
THEOREM OnlyLiveRoutes == Spec => []RoutedByLiveState
<1>1. Inv => RoutedByLiveState
  BY DEF Inv, CallInv, ForwardedAt, LedTo, RoutedByLiveState
<1>2. QED
  BY <1>1, Invariant, PTL

(* Whatever fails, a caller hears what came of a call only when the call   *)
(* is on record as allowed, and no call on record as denied was forwarded. *)
THEOREM ForwardsAreAudited == Spec => []ForwardsAudited
<1>1. Inv => ForwardsAudited
  <2> SUFFICES ASSUME Inv, NEW c \in Callers
               PROVE  /\ reply[c] = "served" <=> audit[c] = "allow"
                      /\ audit[c] = "deny" => forwarded[c] = Absent
                      /\ step[c] = "idle" /\ forwarded[c] # Absent /\ audit[c] # "allow"
                           => reply[c] \in {"failed", "none"}
    BY DEF ForwardsAudited
  <2>1. AuditAt(c) /\ reply[c] \in Replies
    BY DEF Inv, Typed, CallInv
  <2>2. QED
    BY <2>1 DEF AuditAt, Replies
<1>2. QED
  BY <1>1, Invariant, PTL
=============================================================================
