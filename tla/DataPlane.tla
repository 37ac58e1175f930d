----------------------------- MODULE DataPlane -----------------------------
(***************************************************************************)
(* The data plane of the gateway: a call is resolved to a record and an    *)
(* upstream, authorised, forwarded and audited, while the registry changes *)
(* underneath it in any way Registry allows.  POST /adapters/{n}/mcp       *)
(* resolves first and authorises then; tools/call of POST /mcp reads the   *)
(* tool, authorises, and asks for an endpoint last.  Each await is one     *)
(* action.                                                                 *)
(***************************************************************************)
EXTENDS Integers

CONSTANTS
  Callers,    \* users of the data plane; each has one call in flight
  Names,      \* adapters and tools
  Tools,      \* the names that are tools
  Static,     \* the adapters of the configuration file: a function on names
  Urls,       \* upstreams and endpoints
  Records,    \* the records each name may have: a function on names
  Workloads,  \* the endpoints each name may get: a function on names
  Hazards,
  Absent

HazardKinds ==
  { "storeError",      \* a metadata read may fail
    "providerError",   \* a look for endpoints may fail
    "policyError",     \* the policy engine may fail
    "garbled",         \* a tool may answer 200 with a body that is not JSON
    "disconnect" }     \* a client may hang up

StaticNames == DOMAIN Static
StaticRecords == {Static[n] : n \in StaticNames}
AllRecords == (UNION {Records[n] : n \in Names}) \cup StaticRecords
Endpoints == UNION {Workloads[n] : n \in Names}

(* What of a record matters to a call: its upstream, if it has one of its  *)
(* own, and whom the policy, by its tags, and required_roles let through.  *)
RecordType == [ upstream : Urls \cup {Absent},
                policy : SUBSET Callers, roles : SUBSET Callers ]

ASSUME NamesAssumption ==
  /\ Tools \subseteq Names /\ StaticNames \subseteq Names \ Tools
  /\ Records \in [Names -> SUBSET RecordType]
  /\ \A n \in Tools : \A r \in Records[n] : r.upstream = Absent
  /\ Workloads \in [Names -> SUBSET Urls]
ASSUME StaticAssumption ==
  \A n \in StaticNames : Static[n] \in RecordType /\ Static[n].upstream # Absent
ASSUME HazardsAssumption == Hazards \subseteq HazardKinds
ASSUME AbsentAssumption ==
  Absent \notin RecordType /\ Absent \notin Urls /\ Absent \notin Names

VARIABLES
  record,     \* the metadata store
  workload,   \* the endpoint of the name's workload, or Absent
  step,       \* where the handler of a caller's call stands
  call,       \* the name called, or Absent
  rec,        \* the record the handler has read
  url,        \* the upstream the handler has resolved
  verdict,    \* what the handler has made of the call and is about to audit
  audit,      \* the decision of the call's audit record, or "none"
  reply,      \* how the call was answered, or "none"
  forwarded,  \* the upstream the call was sent to, or Absent
  seen,       \* history: the records in force for the name since the call began
  ran         \* history: its routable workloads since the call began

R == INSTANCE Registry

registry == <<record, workload>>
history == <<seen, ran>>
locals == <<step, call, rec, url, verdict, audit, reply, forwarded>>
vars == <<registry, locals, history>>

Steps == {"idle", "resolve", "authorize", "endpoint", "forward", "audit"}
Decisions == {"none", "allow", "deny"}

(* A call whose policy engine failed is denied too, but answered as failed. *)
Verdicts == Decisions \cup {"error"}

(* Refused, failed with an internal or invalid-request error, or answered  *)
(* with what came of an authorised call (an error of the upstream too).    *)
Replies == {"none", "refused", "failed", "served"}

Init ==
  /\ R!Init
  /\ step = [c \in Callers |-> "idle"]
  /\ call = [c \in Callers |-> Absent]
  /\ rec = [c \in Callers |-> Absent]
  /\ url = [c \in Callers |-> Absent]
  /\ verdict = [c \in Callers |-> "none"]
  /\ audit = [c \in Callers |-> "none"]
  /\ reply = [c \in Callers |-> "none"]
  /\ forwarded = [c \in Callers |-> Absent]
  /\ seen = [c \in Callers |-> {}]
  /\ ran = [c \in Callers |-> {}]

-----------------------------------------------------------------------------
(* The registry, as a call sees it.                                        *)

(* The configuration file is in force whatever the registry says: what is  *)
(* registered under a name of the file is stored and runs, out of reach.   *)
InForce(n, r) == IF n \in StaticNames THEN Static[n] ELSE r
Routable(n, w) == IF n \in StaticNames THEN Absent ELSE w

(* What a call in flight lives through, at every step of the registry. *)
Observe ==
  /\ seen' = [c \in Callers |->
       IF call[c] = Absent THEN seen[c]
       ELSE seen[c] \cup {InForce(call[c], record'[call[c]])}]
  /\ ran' = [c \in Callers |->
       IF call[c] = Absent THEN ran[c]
       ELSE ran[c] \cup {Routable(call[c], workload'[call[c]])}]
  /\ UNCHANGED locals

RegistryStep == R!Next /\ Observe

-----------------------------------------------------------------------------
(* A call.                                                                 *)

Goto(c, s) == step' = [step EXCEPT ![c] = s]

Admits(r, c) == c \in r.policy /\ c \in r.roles

Begin(c, n) ==
  /\ step[c] = "idle"
  /\ Goto(c, "resolve")
  /\ call' = [call EXCEPT ![c] = n]
  /\ audit' = [audit EXCEPT ![c] = "none"]
  /\ reply' = [reply EXCEPT ![c] = "none"]
  /\ forwarded' = [forwarded EXCEPT ![c] = Absent]
  /\ seen' = [seen EXCEPT ![c] = {InForce(n, record[n])}]
  /\ ran' = [ran EXCEPT ![c] = {Routable(n, workload[n])}]
  /\ UNCHANGED <<registry, rec, url, verdict>>

Leave(c, answer) ==
  /\ Goto(c, "idle")
  /\ reply' = [reply EXCEPT ![c] = answer]
  /\ call' = [call EXCEPT ![c] = Absent]
  /\ rec' = [rec EXCEPT ![c] = Absent]
  /\ url' = [url EXCEPT ![c] = Absent]
  /\ verdict' = [verdict EXCEPT ![c] = "none"]
  /\ UNCHANGED <<registry, history>>

(* The call is answered at once, with no audit record. *)
Return(c, answer) == Leave(c, answer) /\ UNCHANGED audit

(* The call's answer is decided and its audit record is next. *)
Decide(c, d) ==
  /\ Goto(c, "audit")
  /\ verdict' = [verdict EXCEPT ![c] = d]
  /\ UNCHANGED <<registry, history, call, rec, url, audit, reply>>

Deny(c) == Decide(c, "deny") /\ UNCHANGED forwarded

Take(c, r, u, s) ==
  /\ rec' = [rec EXCEPT ![c] = r]
  /\ url' = [url EXCEPT ![c] = u]
  /\ Goto(c, s)
  /\ UNCHANGED <<registry, history, call, verdict, audit, reply, forwarded>>

(* resolve_adapter: the static configuration first ... *)
ResolveStatic(c) ==
  /\ step[c] = "resolve" /\ call[c] \in StaticNames
  /\ Take(c, Static[call[c]], Static[call[c]].upstream, "authorize")

(* Mutant: a managed record is used before its endpoint is known. *)
ResolveRecordOnly(c) ==
  LET r == record[call[c]] IN
  /\ step[c] = "resolve" /\ call[c] \notin Tools \cup StaticNames
  /\ \/ r = Absent /\ Deny(c)
     \/ r # Absent /\ Take(c, r, r.upstream, "authorize")
     \/ "storeError" \in Hazards /\ Return(c, "failed") /\ UNCHANGED forwarded

(* ... then the metadata store, whose failure is answered unaudited. *)
ResolveRecord(c) ==
  LET r == record[call[c]] IN
  /\ step[c] = "resolve" /\ call[c] \notin Tools \cup StaticNames
  /\ \/ r = Absent /\ Deny(c)
     \/ r # Absent /\ r.upstream # Absent /\ Take(c, r, r.upstream, "authorize")
     \/ r # Absent /\ r.upstream = Absent /\ Take(c, r, Absent, "endpoint")
     \/ "storeError" \in Hazards /\ Return(c, "failed") /\ UNCHANGED forwarded

(* Mutant: with no endpoint at hand, one is guessed. *)
ResolveWorkloadGuessing(c) ==
  LET w == workload[call[c]] IN
  /\ step[c] = "endpoint" /\ call[c] \notin Tools
  /\ Take(c, rec[c], IF w = Absent THEN CHOOSE u \in Endpoints : TRUE ELSE w,
          "authorize")

(* ... whose endpoint the provider gives.  Any failure is "not found". *)
ResolveWorkload(c) ==
  LET w == workload[call[c]] IN
  /\ step[c] = "endpoint" /\ call[c] \notin Tools
  /\ \/ w # Absent /\ Take(c, rec[c], w, "authorize")
     \/ (w = Absent \/ "providerError" \in Hazards) /\ Deny(c)

(* tools/call: parameters that do not parse and a failing store are        *)
(* answered unaudited.                                                     *)
LookupTool(c) ==
  LET r == record[call[c]] IN
  /\ step[c] = "resolve" /\ call[c] \in Tools
  /\ \/ Return(c, "failed") /\ UNCHANGED forwarded
     \/ r = Absent /\ Deny(c)
     \/ r # Absent /\ Take(c, r, Absent, "authorize")

Authorized(c) == IF call[c] \in Tools THEN "endpoint" ELSE "forward"

(* Mutant: required_roles are left to the policy engine. *)
AuthorizeByPolicy(c) ==
  /\ step[c] = "authorize"
  /\ IF c \in rec[c].policy THEN Take(c, rec[c], url[c], Authorized(c)) ELSE Deny(c)

(* The policy engine, then required_roles.  An engine that fails denies:    *)
(* a tool is forbidden by it, an adapter answers an internal error.         *)
Authorize(c) ==
  /\ step[c] = "authorize"
  /\ \/ Admits(rec[c], c) /\ Take(c, rec[c], url[c], Authorized(c))
     \/ ~Admits(rec[c], c) /\ Deny(c)
     \/ /\ "policyError" \in Hazards
        /\ Decide(c, IF call[c] \in Tools THEN "deny" ELSE "error")
        /\ UNCHANGED forwarded

(* Mutant: a call waits for the tool to have an endpoint. *)
ToolEndpointWaiting(c) ==
  /\ step[c] = "endpoint" /\ call[c] \in Tools
  /\ workload[call[c]] # Absent
  /\ Take(c, rec[c], workload[call[c]], "forward")

(* An authorised call with no endpoint is audited as allowed. *)
ToolEndpoint(c) ==
  LET w == workload[call[c]] IN
  /\ step[c] = "endpoint" /\ call[c] \in Tools
  /\ \/ w # Absent /\ Take(c, rec[c], w, "forward")
     \/ /\ w = Absent \/ "providerError" \in Hazards
        /\ Decide(c, "allow")
        /\ UNCHANGED forwarded

(* Mutant: the answer of the upstream is relayed before it is audited. *)
ForwardUnaudited(c) ==
  /\ step[c] = "forward"
  /\ forwarded' = [forwarded EXCEPT ![c] = url[c]]
  /\ Decide(c, "allow") \/ Return(c, "served")

(* Success, an error status, a timeout or no connection: audited alike.    *)
(* Only a tool's success with a body that does not parse is not.           *)
Forward(c) ==
  /\ step[c] = "forward"
  /\ forwarded' = [forwarded EXCEPT ![c] = url[c]]
  /\ \/ Decide(c, "allow")
     \/ "garbled" \in Hazards /\ call[c] \in Tools /\ Return(c, "failed")

Answer == [allow |-> "served", deny |-> "refused", error |-> "failed"]

Audit(c) ==
  /\ step[c] = "audit"
  /\ audit' = [audit EXCEPT ![c] = IF verdict[c] = "allow" THEN "allow" ELSE "deny"]
  /\ Leave(c, Answer[verdict[c]])
  /\ UNCHANGED forwarded

(* The handler is dropped, with no answer and no record.  The request to    *)
(* the upstream may have been on its way.                                  *)
Disconnect(c) ==
  /\ "disconnect" \in Hazards
  /\ step[c] # "idle"
  /\ Return(c, "none")
  /\ \/ UNCHANGED forwarded
     \/ /\ step[c] = "forward"
        /\ forwarded' = [forwarded EXCEPT ![c] = url[c]]

Handle(c) ==
  \/ ResolveStatic(c) \/ ResolveRecord(c) \/ ResolveWorkload(c)
  \/ LookupTool(c) \/ Authorize(c) \/ ToolEndpoint(c)
  \/ Forward(c) \/ Audit(c)

Next ==
  \/ RegistryStep
  \/ \E c \in Callers :
       \/ \E n \in Names : Begin(c, n)
       \/ Handle(c) \/ Disconnect(c)

Spec == Init /\ [][Next]_vars

(* Tasks that are ready run; the HTTP client has a timeout. *)
FairSpec == Spec /\ \A c \in Callers : WF_vars(Handle(c))

-----------------------------------------------------------------------------
(* Properties.                                                             *)

(* What is true of a handler where it stands: it has read a record before  *)
(* it authorises, and has an upstream before it forwards.                  *)
LocalOK(c) ==
  /\ step[c] = "idle" <=> call[c] = Absent
  /\ step[c] \in {"idle", "resolve"} => rec[c] = Absent /\ url[c] = Absent
  /\ step[c] \in {"authorize", "endpoint", "forward"} => rec[c] # Absent
  /\ step[c] = "forward" => url[c] # Absent
  /\ step[c] = "authorize" /\ call[c] \notin Tools => url[c] # Absent
  /\ step[c] = "audit" <=> verdict[c] # "none"
  /\ step[c] \notin {"idle", "audit"} => forwarded[c] = Absent
  /\ step[c] # "idle" => audit[c] = "none" /\ reply[c] = "none"

(* The type invariant, with what every handler keeps true of its locals.   *)
TypeOK ==
  /\ R!TypeOK
  /\ step \in [Callers -> Steps]
  /\ call \in [Callers -> Names \cup {Absent}]
  /\ rec \in [Callers -> AllRecords \cup {Absent}]
  /\ url \in [Callers -> Urls \cup {Absent}]
  /\ verdict \in [Callers -> Verdicts]
  /\ audit \in [Callers -> Decisions]
  /\ reply \in [Callers -> Replies]
  /\ forwarded \in [Callers -> Urls \cup {Absent}]
  /\ seen \in [Callers -> SUBSET (AllRecords \cup {Absent})]
  /\ ran \in [Callers -> SUBSET (Urls \cup {Absent})]
  /\ \A c \in Callers : LocalOK(c)

(* A call is forwarded only under a record that was in force while the     *)
(* call ran and that lets its caller through, by the policy and by         *)
(* required_roles both, whatever the registry does meanwhile.              *)
(* (data_plane.rs 88-155, tool_router.rs 316-348)                          *)
ForwardedUnderGrant ==
  \A c \in Callers :
    forwarded[c] # Absent => \E r \in seen[c] \ {Absent} : Admits(r, c)

(* A call goes where a record in force during the call says or, if that    *)
(* record has no upstream of its own, to a workload that was running       *)
(* during the call: resolution fails closed rather than routing to a stale *)
(* or guessed URL, a workload is passed over for an upstream, and a name   *)
(* of the configuration file goes where the file says.                     *)
(* (state.rs 142-181, tool_router.rs 349-391)                              *)
RoutedByLiveState ==
  \A c \in Callers :
    forwarded[c] # Absent =>
      \E r \in seen[c] \ {Absent} :
        \/ r.upstream = forwarded[c]
        \/ r.upstream = Absent /\ forwarded[c] \in ran[c]

(* A client is told what came of its call only if the call is on record as *)
(* allowed, and a call on record as denied reached no upstream.  What left *)
(* unrecorded was answered as an internal error, or had no client left.    *)
(* (data_plane.rs 199-218, tool_router.rs 392-484)                         *)
ForwardsAudited ==
  \A c \in Callers :
    /\ reply[c] = "served" <=> audit[c] = "allow"
    /\ audit[c] = "deny" => forwarded[c] = Absent
    /\ step[c] = "idle" /\ forwarded[c] # Absent /\ audit[c] # "allow"
         => reply[c] \in {"failed", "none"}

(* Every call is answered, whatever the store, the provider, the policy    *)
(* engine and the upstream do.                                             *)
CallsEnd == \A c \in Callers : step[c] # "idle" ~> step[c] = "idle"
=============================================================================
