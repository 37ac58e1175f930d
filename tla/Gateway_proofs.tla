--------------------------- MODULE Gateway_proofs ---------------------------
(***************************************************************************)
(* The gateway as a whole: the control plane is the registry that the data *)
(* plane was proved correct over, so the theorems of DataPlane_proofs hold *)
(* beside these handlers; and a change that was answered with success is   *)
(* in force for every call that begins after it.                           *)
(***************************************************************************)
EXTENDS Gateway, ControlPlaneVersions_proofs, ControlPlaneRegistry_proofs

USE ToolsAssumption, AbsentAssumption, SaysAssumption, EndpointAssumption,
    NoValueAssumption

-----------------------------------------------------------------------------
(* The gateway's steps are steps of the control plane or leave it alone.   *)
LEMMA ControlSteps ==
  ASSUME [GatewayNext]_gatewayVars PROVE [Next]_vars
<1>1. ASSUME NEW c \in Clients, ControlStep(c) PROVE Next
  BY <1>1 DEF ControlStep, Next
<1>2. CASE Restart
  BY <1>2 DEF Restart, Next
<1>3. ASSUME NEW u \in Callers, NEW n \in Resources, BeginCall(u, n)
      PROVE  UNCHANGED vars
  BY <1>3 DEF BeginCall
<1>4. ASSUME NEW u \in Callers, HandleCall(u) PROVE UNCHANGED vars
  BY <1>4 DEF HandleCall
<1>5. CASE UNCHANGED gatewayVars
  BY <1>5 DEF gatewayVars
<1>6. QED
  BY <1>1, <1>2, <1>3, <1>4, <1>5 DEF GatewayNext

(* The control plane within the gateway is the control plane. *)
LEMMA ControlPlaneWithin == GatewaySpec => Spec
<1>1. GatewayInit => Init
  BY DEF GatewayInit
<1>2. QED
  BY <1>1, ControlSteps, PTL DEF GatewaySpec, Spec

-----------------------------------------------------------------------------
(* The registry that calls see.                                            *)
LEMMA RecordOfView ==
  ASSUME NEW n \in Resources, NEW r \in Records, n \in Tools => ~r.external
  PROVE  RecordOf(n, r) \in CallRecords[n] /\ r # Absent
<1>1. View(r) \in ViewsOf(n) /\ r # Absent
  BY ViewType
<1>2. RecordOf(n, View(r)) = RecordOf(n, r)
  <2>1. /\ View(r) # Absent
        /\ View(r).note = r.note /\ View(r).external = r.external
    BY <1>1 DEF View
  <2>2. QED
    BY <1>1, <2>1 DEF RecordOf
<1>3. QED
  BY <1>1, <1>2 DEF CallRecords

(* A step that changes nothing is one that puts what is there. *)
LEMMA SameRegistry ==
  ASSUME TypeOK, ToolsManaged, UNCHANGED <<store, running>>
  PROVE  D!R!Next
<1>0. UNCHANGED <<CallRecord, CallWorkload>>
  BY DEF CallRecord, CallWorkload
<1>1. CASE Resources = {}
  <2>1. D!R!Forget
    BY <1>0, <1>1 DEF D!R!Forget, CallRecord
  <2>2. QED
    BY <2>1 DEF D!R!Next
<1>2. ASSUME NEW n \in Resources, store[n] = Absent PROVE D!R!Next
  <2>1. CallRecord' = [CallRecord EXCEPT ![n] = Absent]
    BY <1>0, <1>2 DEF CallRecord, RecordOf
  <2>2. D!R!Remove(n)
    BY <1>0, <2>1 DEF D!R!Remove
  <2>3. QED
    BY <2>2 DEF D!R!Next
<1>3. ASSUME NEW n \in Resources, store[n] # Absent PROVE D!R!Next
  <2>1. RecordOf(n, store[n]) \in CallRecords[n]
    BY <1>3, RecordOfView DEF TypeOK, ToolsManaged, StoreManaged
  <2>2. CallRecord' = [CallRecord EXCEPT ![n] = RecordOf(n, store[n])]
    BY <1>0 DEF CallRecord
  <2>3. D!R!Put(n)
    BY <1>0, <2>1, <2>2 DEF D!R!Put
  <2>4. QED
    BY <2>3 DEF D!R!Next
<1>4. QED
  BY <1>1, <1>2, <1>3

LEMMA EffectCalls ==
  ASSUME TypeOK, ToolsManaged, NEW n \in Resources, Effect(n)
  PROVE  D!R!Next
<1>1. ASSUME NEW r, Puts(n, r) PROVE D!R!Put(n)
  <2>1. CallRecord' = [CallRecord EXCEPT ![n] = RecordOf(n, r)]
    BY <1>1 DEF Puts, CallRecord, TypeOK
  <2>2. RecordOf(n, r) \in CallRecords[n]
    BY <1>1, RecordOfView DEF Puts
  <2>3. UNCHANGED CallWorkload
    BY <1>1 DEF Puts, CallWorkload
  <2>4. QED
    BY <2>1, <2>2, <2>3 DEF D!R!Put
<1>2. CASE Removes(n)
  <2>1. CallRecord' = [CallRecord EXCEPT ![n] = Absent] /\ UNCHANGED CallWorkload
    BY <1>2 DEF Removes, CallRecord, CallWorkload, RecordOf, TypeOK
  <2>2. D!R!Remove(n)
    BY <2>1 DEF D!R!Remove
  <2>3. QED
    BY <2>2 DEF D!R!Next
<1>3. ASSUME NEW i \in Images, Deploys(n, i) PROVE D!R!Deploy(n)
  <2>1. CallWorkload' = [CallWorkload EXCEPT ![n] = Endpoint[n]]
    BY <1>3 DEF Deploys, CallWorkload, TypeOK
  <2>2. UNCHANGED CallRecord
    BY <1>3 DEF Deploys, CallRecord
  <2>3. QED
    BY <2>1, <2>2 DEF D!R!Deploy, CallWorkloads
<1>4. CASE TearsDown(n)
  <2>1. CallWorkload' = [CallWorkload EXCEPT ![n] = Absent] /\ UNCHANGED CallRecord
    BY <1>4 DEF TearsDown, CallRecord, CallWorkload, TypeOK
  <2>2. D!R!Teardown(n)
    BY <2>1 DEF D!R!Teardown
  <2>3. QED
    BY <2>2 DEF D!R!Next
<1>5. QED
  BY <1>1, <1>2, <1>3, <1>4, SameRegistry DEF Effect, D!R!Next

LEMMA RestartCalls ==
  ASSUME TypeOK, ToolsManaged, Crash PROVE D!R!Next
<1>1. CASE "volatile" \in Hazards
  <2>1. CallRecord' = [n \in Resources |-> Absent] /\ UNCHANGED CallWorkload
    BY <1>1 DEF Crash, CallRecord, CallWorkload, RecordOf
  <2>2. D!R!Forget
    BY <2>1 DEF D!R!Forget
  <2>3. QED
    BY <2>2 DEF D!R!Next
<1>2. CASE "volatile" \notin Hazards
  BY <1>2, SameRegistry DEF Crash
<1>3. QED
  BY <1>1, <1>2

(* Every step of the gateway is one the data plane is specified with.      *)
LEMMA GatewaySteps ==
  ASSUME TypeOK, ToolsManaged, [GatewayNext]_gatewayVars
  PROVE  [D!Next]_(D!vars)
<1>1. ASSUME NEW c \in Clients, ControlStep(c) PROVE D!Next
  <2>1. CASE SendRequest(c) \/ Disconnect(c)
    <3>1. UNCHANGED <<store, running>>
      BY <2>1, SendRequestSends DEF Get, Send, Disconnect
    <3>2. QED
      BY <1>1, <3>1, SameRegistry DEF ControlStep, D!Next, D!RegistryStep
  <2>2. CASE Handle(c)
    <3>1. D!R!Next
      BY <2>2, HandleChanges, EffectCalls
    <3>2. QED
      BY <1>1, <3>1 DEF ControlStep, D!Next, D!RegistryStep
  <2>3. QED
    BY <1>1, <2>1, <2>2 DEF ControlStep
<1>2. CASE Restart
  BY <1>2, RestartCalls DEF Restart, D!Next, D!RegistryStep
<1>3. ASSUME NEW u \in Callers, NEW n \in Resources, BeginCall(u, n) PROVE D!Next
  BY <1>3 DEF BeginCall, D!Next
<1>4. ASSUME NEW u \in Callers, HandleCall(u) PROVE D!Next
  BY <1>4 DEF HandleCall, D!Next
<1>5. CASE UNCHANGED gatewayVars
  <2>1. UNCHANGED <<store, running, dlocals, seen, ran>>
    BY <1>5 DEF gatewayVars, vars
  <2>2. QED
    BY <2>1 DEF dlocals, D!vars, D!registry, D!locals, D!history, CallRecord,
                CallWorkload
<1>6. QED
  BY <1>1, <1>2, <1>3, <1>4, <1>5 DEF GatewayNext

(* TypeOK and ToolsManaged hold throughout. *)
LEMMA ControlInvariant == GatewaySpec => [](TypeOK /\ ToolsManaged)
<1>1. GatewayInit => TypeOK /\ ToolsManaged
  <2>1. Init => TypeOK
    BY DEF Init, TypeOK, LocalsOK, Steps, Outcomes
  <2>2. Init => ToolsManaged
    BY DEF Init, ToolsManaged, StoreManaged, ToolsAt
  <2>3. QED
    BY <2>1, <2>2 DEF GatewayInit
<1>2. TypeOK /\ ToolsManaged /\ [GatewayNext]_gatewayVars
        => (TypeOK /\ ToolsManaged)'
  BY ControlSteps, NextType, NextManaged
<1>3. QED
  BY <1>1, <1>2, PTL DEF GatewaySpec

(* The gateway implements the data plane: its registry is the control      *)
(* plane, whose overlapping, failing and restarting requests change it     *)
(* only as the data plane is prepared for.                                 *)
THEOREM ServesCallsThroughout == GatewaySpec => ServesCalls
<1>1. GatewayInit => D!Init
  BY DEF GatewayInit
<1>2. QED
  BY <1>1, ControlInvariant, GatewaySteps, PTL DEF GatewaySpec, ServesCalls, D!Spec

-----------------------------------------------------------------------------
(* The theorems of the data plane, for this registry.                      *)
DP == INSTANCE DataPlane_proofs WITH
        Names <- Resources, Hazards <- CallHazards,
        Records <- CallRecords, Workloads <- CallWorkloads,
        record <- CallRecord, workload <- CallWorkload,
        step <- dstep, call <- dcall, rec <- drec, url <- durl,
        verdict <- dverdict, audit <- daudit, reply <- dreply

(* What DataPlane assumes of its constants holds of these. *)
LEMMA CallNames ==
  /\ Tools \subseteq Resources /\ DP!StaticNames \subseteq Resources \ Tools
  /\ CallRecords \in [Resources -> SUBSET DP!RecordType]
  /\ \A n \in Tools : \A r \in CallRecords[n] : r.upstream = Absent
  /\ CallWorkloads \in [Resources -> SUBSET Urls]
<1>1. DP!StaticNames \subseteq Resources \ Tools
  BY StaticNamesAssumption DEF DP!StaticNames, D!StaticNames
<1>2. ASSUME NEW n \in Resources, NEW v \in ViewsOf(n)
      PROVE  /\ RecordOf(n, v) \in DP!RecordType
             /\ n \in Tools => RecordOf(n, v).upstream = Absent
  <2>1. /\ v # Absent /\ v.note \in Notes /\ v.external \in BOOLEAN
        /\ n \in Tools => v.external = FALSE
    BY DEF ViewsOf
  <2>2. Says[n][v.note] \in Attributes
    BY <2>1
  <2>3. QED
    BY <2>1, <2>2 DEF RecordOf, Attributes, DP!RecordType
<1>3. QED
  BY <1>1, <1>2 DEF CallRecords, CallWorkloads

LEMMA CallStatics ==
  \A n \in DP!StaticNames :
    Static[n] \in DP!RecordType /\ Static[n].upstream # Absent
BY StaticRecordsAssumption DEF DP!StaticNames, D!StaticNames, Attributes, DP!RecordType

LEMMA CallHazardKinds == CallHazards \subseteq DP!HazardKinds
BY CallHazardsAssumption DEF DP!HazardKinds, D!HazardKinds

LEMMA CallAbsent ==
  Absent \notin DP!RecordType /\ Absent \notin Urls /\ Absent \notin Resources
BY DEF DP!RecordType, D!RecordType

LEMMA SameSpec == D!Spec => DP!Spec
<1>1. D!Init => DP!Init
  BY DEF D!Init, DP!Init, D!R!Init, DP!R!Init
<1>2. [D!Next]_(D!vars) => [DP!Next]_(DP!vars)
  BY DEF D!StaticNames, DP!StaticNames, D!StaticRecords, DP!StaticRecords,
         D!AllRecords, DP!AllRecords, D!Endpoints, DP!Endpoints,
         D!RecordType, DP!RecordType, D!registry, DP!registry, D!history,
         DP!history, D!locals, DP!locals, D!vars, DP!vars, D!Steps, DP!Steps,
         D!Decisions, DP!Decisions, D!Verdicts, DP!Verdicts,
         D!Answer, DP!Answer, D!Replies, DP!Replies, D!InForce, DP!InForce,
         D!Routable, DP!Routable, D!Observe, DP!Observe,
         D!RegistryStep, DP!RegistryStep, D!Goto, DP!Goto, D!Admits,
         DP!Admits, D!Begin, DP!Begin, D!Leave, DP!Leave, D!Return,
         DP!Return, D!Decide, DP!Decide, D!Deny, DP!Deny, D!Take, DP!Take,
         D!ResolveStatic, DP!ResolveStatic, D!ResolveRecord,
         DP!ResolveRecord, D!ResolveWorkload, DP!ResolveWorkload,
         D!LookupTool, DP!LookupTool, D!Authorized, DP!Authorized,
         D!Authorize, DP!Authorize, D!ToolEndpoint, DP!ToolEndpoint,
         D!Forward, DP!Forward, D!Audit, DP!Audit, D!Disconnect,
         DP!Disconnect, D!Handle, DP!Handle, D!Next, DP!Next, D!R!Put,
         DP!R!Put, D!R!Remove, DP!R!Remove, D!R!Deploy, DP!R!Deploy,
         D!R!Teardown, DP!R!Teardown, D!R!Forget, DP!R!Forget, D!R!Next,
         DP!R!Next
<1>3. QED
  BY <1>1, <1>2, PTL DEF D!Spec, DP!Spec

(* What the data plane keeps of its calls, said of this registry. *)
CallsKept == D!TypeOK /\ D!ForwardedUnderGrant /\ D!RoutedByLiveState

LEMMA CallsInvariant == GatewaySpec => []CallsKept
<1>1. DP!Spec => [](DP!TypeOK /\ DP!ForwardedUnderGrant /\ DP!RoutedByLiveState)
  BY DP!TypeCorrect, DP!OnlyGrantedForwarded, DP!OnlyLiveRoutes,
     CallNames, CallStatics, CallHazardKinds, CallAbsent, PTL
<1>2. DP!TypeOK /\ DP!ForwardedUnderGrant /\ DP!RoutedByLiveState => CallsKept
  BY DEF CallsKept, D!TypeOK, DP!TypeOK, D!LocalOK, DP!LocalOK, D!AllRecords,
         DP!AllRecords, D!StaticRecords, DP!StaticRecords, D!StaticNames,
         DP!StaticNames, D!Steps, DP!Steps, D!Decisions, DP!Decisions, D!Verdicts,
         DP!Verdicts, D!Answer, DP!Answer, D!Replies, DP!Replies, D!R!TypeOK, DP!R!TypeOK,
         D!ForwardedUnderGrant, DP!ForwardedUnderGrant, D!RoutedByLiveState,
         DP!RoutedByLiveState, D!Admits, DP!Admits
<1>3. QED
  BY <1>1, <1>2, ServesCallsThroughout, SameSpec, PTL DEF ServesCalls

-----------------------------------------------------------------------------
(* What was told.  A handler changes the store only once it counts as      *)
(* having touched something, so a refused request leaves it as it was.     *)
TouchedAt(c) == pc[c] \in {"apply", "rollback"} => touched[c]

TouchInv == \A c \in Clients : TouchedAt(c)

LEMMA HandleTouches ==
  ASSUME TypeOK, TouchInv, NEW c \in Clients, Handle(c)
  PROVE  /\ TouchedAt(c)'
         /\ ~touched'[c] => ~touched[c] /\ UNCHANGED store
BY DEF Handle, CreateAdmit, CreateCheck, CreatePut, CreateApply,
       CreateRollback, UpdateAdmit, UpdateRead, UpdatePut, UpdateApply,
       DeleteAdmit, DeleteRead, DeleteTeardown, DeleteRemove, Finish,
       Return, Decide, Goto, At, Touch, StoreFails, TypeOK, TouchInv, TouchedAt

LEMMA NextTouch ==
  ASSUME TypeOK, TouchInv, [Next]_vars PROVE TouchInv'
<1> USE DEF TouchInv, TouchedAt
<1>1. ASSUME NEW c \in Clients, SendRequest(c) PROVE TouchInv'
  <2>1. CASE \E n \in Resources : Get(c, n)
    BY <2>1 DEF Get
  <2>2. CASE \E k \in Calls : Send(c, k)
    BY <2>2 DEF Send, Goto, TypeOK
  <2>3. QED
    BY <1>1, <2>1, <2>2, SendRequestSends
<1>2. ASSUME NEW c \in Clients, Handle(c) PROVE TouchInv'
  BY <1>2, HandleTouches, HandleFrame
<1>3. ASSUME NEW c \in Clients, Disconnect(c) PROVE TouchInv'
  BY <1>3 DEF Disconnect, Return, Goto, TypeOK
<1>4. CASE Crash
  BY <1>4 DEF Crash
<1>5. CASE UNCHANGED vars
  BY <1>5 DEF vars
<1>6. QED
  BY <1>1, <1>2, <1>3, <1>4, <1>5 DEF Next

(* What holds of the control plane when requests do not overlap. *)
ControlInv == TypeOK /\ CoordInv /\ PutInv /\ CleanInv /\ TouchInv

LEMMA NextControl ==
  ASSUME ControlInv, [Next]_vars, "overlap" \notin Hazards PROVE ControlInv'
BY NextType, NextCoordinated, NextPut, NextClean, NextTouch DEF ControlInv

LEMMA InitControl == Init => ControlInv
BY DEF Init, ControlInv, TypeOK, LocalsOK, Steps, Outcomes, CoordInv, Exclusive,
       FreshAt, At, PutInv, PutAt, CleanInv, CleanAt, Rejections, TouchInv,
       TouchedAt

(* What a name's clients were told is what the store holds, unless a       *)
(* request under way has changed it already.                               *)
Untouched(n) == \A c \in Clients : InFlight(c, n) => ~touched[c]

ToldAt(n) ==
  told[n] # Unknown /\ Untouched(n) => told[n] = RecordOf(n, store[n])

ToldInv == /\ told \in [Resources -> D!RecordType \cup {Absent, Unknown}]
           /\ \A n \in Resources : ToldAt(n)

(* A handler that answers with success answers with what is stored. *)
LEMMA AnsweredRecord ==
  ASSUME ControlInv, NEW c \in Clients, ControlStep(c),
         pc[c] # "idle", pc'[c] = "idle", outcome'[c] = "ok"
  PROVE  /\ call[c].target \in Resources
         /\ store[call[c].target] = Representation(c)
         /\ store' = store
<1>0. TypeOK
  BY DEF ControlInv
<1>1. Handle(c)
  <2>1. ~SendRequest(c)
    BY <1>0, SendRequestSends DEF Get, Send
  <2>2. ~Disconnect(c)
    BY <1>0 DEF Disconnect, Return, TypeOK
  <2>3. QED
    BY <2>1, <2>2 DEF ControlStep
<1>2. Finish(c)
  BY <1>0, <1>1 DEF Handle, CreateAdmit, CreateCheck, CreatePut,
     CreateApply, CreateRollback, UpdateAdmit, UpdateRead, UpdatePut,
     UpdateApply, DeleteAdmit, DeleteRead, DeleteTeardown, DeleteRemove,
     StoreFails, Return, Decide, Goto, At, TypeOK
<1>3. QED
  BY <1>0, <1>2 DEF Finish, ControlInv, PutInv, PutAt, TypeOK, LocalsOK, Calls

LEMMA StoredRecordType ==
  ASSUME TypeOK, ToolsManaged, NEW n \in Resources
  PROVE  RecordOf(n, store[n]) \in D!RecordType \cup {Absent}
<1>1. CASE store[n] = Absent
  BY <1>1 DEF RecordOf
<1>2. CASE store[n] # Absent
  <2>1. RecordOf(n, store[n]) \in CallRecords[n]
    BY <1>2, RecordOfView DEF TypeOK, ToolsManaged, StoreManaged
  <2>2. CallRecords[n] \subseteq D!RecordType
    BY CallNames DEF DP!RecordType, D!RecordType
  <2>3. QED
    BY <2>1, <2>2
<1>3. QED
  BY <1>1, <1>2

LEMMA ControlTold ==
  ASSUME ControlInv, ControlInv', ToldInv, NEW c \in Clients, ControlStep(c),
         "overlap" \notin Hazards
  PROVE  \A n \in Resources : ToldAt(n)'
<1> SUFFICES ASSUME NEW n \in Resources, told'[n] # Unknown, Untouched(n)'
             PROVE  told'[n] = RecordOf(n, store'[n])
  BY DEF ToldAt
<1>0. TypeOK /\ ToldAt(n) /\ told \in [Resources -> D!RecordType \cup {Absent, Unknown}]
  BY DEF ControlInv, ToldInv
<1>1. CASE SendRequest(c)
  <2>1. told'[n] = told[n]
    BY <1>0, <1>1, SendRequestSends DEF ControlStep, Hear, Settled, Get, Send
  <2>2. store' = store
    BY <1>0, <1>1, SendRequestSends DEF Get, Send
  <2>3. Untouched(n)
    <3>1. CASE \E m \in Resources : Get(c, m)
      BY <3>1 DEF Get, Untouched, InFlight
    <3>2. CASE \E k \in Calls : Send(c, k)
      <4>1. PICK k \in Calls : Send(c, k)
        BY <3>2
      <4>2. \A d \in Clients : InFlight(d, n) => d # c
        BY <4>1 DEF Send, InFlight
      <4>3. \A d \in Clients \ {c} :
              /\ InFlight(d, n)' <=> InFlight(d, n)
              /\ touched'[d] = touched[d]
        BY <1>0, <4>1 DEF Send, Goto, InFlight, TypeOK
      <4>4. QED
        BY <4>2, <4>3 DEF Untouched
    <3>3. QED
      BY <1>0, <1>1, <3>1, <3>2, SendRequestSends
  <2>4. QED
    BY <1>0, <2>1, <2>2, <2>3 DEF ToldAt
<1>2. CASE Disconnect(c)
  <2>1. /\ pc[c] # "idle" /\ pc'[c] = "idle" /\ outcome'[c] = "none"
        /\ store' = store
    BY <1>0, <1>2 DEF Disconnect, Return, Goto, TypeOK
  <2>2. call[c].target # n
    BY <1>0, <2>1 DEF ControlStep, Hear, Settled, Rejections
  <2>3. told'[n] = told[n]
    BY <1>0, <2>1, <2>2 DEF ControlStep, Hear, Settled
  <2>4. Untouched(n)
    BY <1>0, <1>2, <2>2, HandleFrame DEF Untouched, InFlight
  <2>5. QED
    BY <1>0, <2>1, <2>3, <2>4 DEF ToldAt
<1>3. CASE Handle(c)
  <2>0. /\ pc[c] # "idle" /\ call[c].target \in Resources
        /\ pc'[c] # "idle" => call'[c] = call[c]
    BY <1>0, <1>3, HandleKeepsCall DEF TypeOK, LocalsOK, Calls
  <2>1. CASE n # call[c].target
    <3>1. told'[n] = told[n]
      BY <1>0, <2>1 DEF ControlStep, Hear, Settled
    <3>2. store'[n] = store[n]
      BY <1>0, <1>3, <2>1, HandleWrites
    <3>3. Untouched(n)
      BY <1>0, <1>3, <2>1, HandleFrame DEF Untouched, InFlight
    <3>4. QED
      BY <1>0, <3>1, <3>2, <3>3 DEF ToldAt
  <2>2. CASE n = call[c].target /\ ~touched'[c] /\ told'[n] = told[n]
    <3>1. ~touched[c] /\ store' = store
      BY <1>0, <1>3, <2>2, HandleTouches DEF ControlInv
    <3>2. \A d \in Clients : InFlight(d, n) => d = c
      BY <2>0, <2>2 DEF InFlight, ControlInv, CoordInv, Exclusive
    <3>3. Untouched(n)
      BY <3>1, <3>2 DEF Untouched
    <3>4. QED
      BY <1>0, <2>2, <3>1, <3>3 DEF ToldAt
  <2>3. CASE n = call[c].target /\ pc'[c] # "idle"
    <3>1. ~touched'[c]
      BY <2>0, <2>3 DEF Untouched, InFlight
    <3>2. told'[n] = told[n]
      BY <2>3 DEF ControlStep, Hear, Settled
    <3>3. QED
      BY <2>2, <2>3, <3>1, <3>2
  <2>4. CASE /\ n = call[c].target /\ pc'[c] = "idle"
             /\ outcome'[c] \in Rejections \ {"refused"}
    <3>1. ~touched'[c]
      BY <2>4 DEF ControlInv, CleanInv, CleanAt
    <3>2. told'[n] = told[n]
      BY <1>0, <2>0, <2>4 DEF ControlStep, Hear, Settled, Rejections
    <3>3. QED
      BY <2>2, <2>4, <3>1, <3>2
  <2>5. CASE /\ n = call[c].target /\ pc'[c] = "idle"
             /\ outcome'[c] \notin Rejections \ {"refused"}
    <3>1. outcome'[c] = "ok" /\ told'[n] = RecordOf(n, Representation(c))
      BY <1>0, <2>0, <2>5 DEF ControlStep, Hear, Settled
    <3>2. store[n] = Representation(c) /\ store' = store
      BY <2>0, <2>5, <3>1, AnsweredRecord
    <3>3. QED
      BY <3>1, <3>2
  <2>6. QED
    BY <2>1, <2>3, <2>4, <2>5
<1>4. QED
  BY <1>1, <1>2, <1>3 DEF ControlStep

LEMMA ToldTypes ==
  ASSUME ControlInv, ControlInv', ToolsManaged, ToldInv,
         NEW c \in Clients, ControlStep(c)
  PROVE  told' \in [Resources -> D!RecordType \cup {Absent, Unknown}]
<1> DEFINE n == call[c].target
<1>0. TypeOK /\ told \in [Resources -> D!RecordType \cup {Absent, Unknown}]
  BY DEF ControlInv, ToldInv
<1>1. CASE ~(pc[c] # "idle" /\ pc'[c] = "idle")
  BY <1>0, <1>1 DEF ControlStep, Hear, Settled
<1>2. CASE pc[c] # "idle" /\ pc'[c] = "idle"
  <2>1. CASE outcome'[c] # "ok"
    BY <1>0, <1>2, <2>1 DEF ControlStep, Hear, Settled
  <2>2. CASE outcome'[c] = "ok"
    <3>1. n \in Resources /\ store[n] = Representation(c)
      BY <1>2, <2>2, AnsweredRecord
    <3>2. RecordOf(n, Representation(c)) \in D!RecordType \cup {Absent}
      BY <1>0, <3>1, StoredRecordType
    <3>3. QED
      BY <1>0, <1>2, <2>2, <3>2 DEF ControlStep, Hear, Settled
  <2>3. QED
    BY <2>1, <2>2
<1>3. QED
  BY <1>1, <1>2

-----------------------------------------------------------------------------
(* The promise a call began under.                                         *)
BoundAt(u) ==
  bound[u] # Unknown =>
    /\ dcall[u] # Absent => /\ dcall[u] \in Resources \ D!StaticNames
                            /\ ~Busy(dcall[u])
                            /\ told[dcall[u]] = bound[u]
    /\ dcall[u] # Absent \/ forwarded[u] # Absent => seen[u] = {bound[u]}

BoundInv == /\ bound \in [Callers -> D!RecordType \cup {Absent, Unknown}]
            /\ \A u \in Callers : BoundAt(u)

(* A step of one client's request is of no other. *)
LEMMA ControlFrame ==
  ASSUME TypeOK, NEW c \in Clients, ControlStep(c)
  PROVE  /\ \A d \in Clients \ {c} : pc'[d] = pc[d] /\ call'[d] = call[d]
         /\ pc[c] # "idle" /\ pc'[c] # "idle" => call'[c] = call[c]
<1>1. CASE \E n \in Resources : Get(c, n)
  BY <1>1 DEF Get
<1>2. CASE \E k \in Calls : Send(c, k)
  BY <1>2 DEF Send, Goto, TypeOK
<1>3. CASE Handle(c)
  BY <1>3, HandleFrame, HandleKeepsCall
<1>4. CASE Disconnect(c)
  BY <1>4 DEF Disconnect, Return, Goto, TypeOK
<1>5. QED
  BY <1>1, <1>2, <1>3, <1>4, SendRequestSends DEF ControlStep

(* No request for another name makes this one busy. *)
LEMMA ControlBound ==
  ASSUME ControlInv, D!TypeOK, ToldInv, BoundInv, NEW c \in Clients, ControlStep(c)
  PROVE  BoundInv'
<1>0. /\ TypeOK /\ bound \in [Callers -> D!RecordType \cup {Absent, Unknown}]
      /\ told \in [Resources -> D!RecordType \cup {Absent, Unknown}]
      /\ UNCHANGED dlocals /\ D!Observe
  BY DEF ControlInv, ToldInv, BoundInv, ControlStep, D!Observe, dlocals, D!locals
<1>1. bound' \in [Callers -> D!RecordType \cup {Absent, Unknown}]
  BY <1>0 DEF ControlStep, Unsettle
<1>2. ASSUME NEW u \in Callers, bound'[u] # Unknown PROVE BoundAt(u)'
  <2>1. /\ bound'[u] = bound[u] /\ BoundAt(u)
        /\ ~(pc[c] = "idle" /\ pc'[c] # "idle" /\ call'[c].target = dcall[u])
    BY <1>0, <1>2 DEF ControlStep, Unsettle, BoundInv
  <2>2. CASE dcall[u] = Absent
    <3>1. seen'[u] = seen[u]
      BY <1>0, <2>2 DEF D!Observe, D!TypeOK
    <3>2. QED
      BY <1>0, <1>2, <2>1, <2>2, <3>1 DEF BoundAt, dlocals
  <2>3. CASE dcall[u] # Absent
    <3> DEFINE n == dcall[u]
    <3>1. /\ n \in Resources \ D!StaticNames /\ ~Busy(n)
          /\ told[n] = bound[u] /\ seen[u] = {bound[u]} /\ bound[u] # Unknown
      BY <1>2, <2>1, <2>3 DEF BoundAt
    <3>2. ~InFlight(c, n)
      BY <3>1 DEF Busy
    <3>3. told'[n] = told[n]
      BY <1>0, <3>1, <3>2 DEF ControlStep, Hear, Settled, InFlight
    <3>4. store'[n] = store[n]
      BY <1>0, <3>1, <3>2, HandleWrites, HandleKeepsCall, SendRequestSends
      DEF ControlStep, InFlight, Get, Send, Disconnect
    <3>5. ~Busy(n)'
      <4>1. \A d \in Clients \ {c} : pc'[d] = pc[d] /\ call'[d] = call[d]
        BY <1>0, ControlFrame
      <4>2. ~InFlight(c, n)'
        <5>1. CASE pc[c] = "idle"
          BY <1>0, <2>1, <5>1 DEF InFlight, dlocals
        <5>2. CASE pc[c] # "idle"
          BY <1>0, <3>2, <5>2, ControlFrame DEF InFlight, dlocals
        <5>3. QED
          BY <5>1, <5>2
      <4>3. QED
        BY <1>0, <3>1, <4>1, <4>2 DEF Busy, InFlight, dlocals
    <3>6. RecordOf(n, store[n]) = bound[u]
      BY <1>2, <2>1, <3>1 DEF ToldInv, ToldAt, Untouched, Busy
    <3>7. seen'[u] = seen[u] \cup {RecordOf(n, store'[n])}
      BY <1>0, <2>3, <3>1 DEF D!Observe, D!InForce, CallRecord
    <3>8. QED
      BY <1>0, <2>1, <3>1, <3>3, <3>4, <3>5, <3>6, <3>7 DEF BoundAt, dlocals
  <2>4. QED
    BY <2>2, <2>3
<1>3. QED
  BY <1>1, <1>2 DEF BoundInv, BoundAt

(* A restart finds no call under way. *)
LEMMA RestartPromises ==
  ASSUME TypeOK, D!TypeOK, ToldInv, BoundInv, Restart
  PROVE  ToldInv' /\ BoundInv'
<1>0. /\ told \in [Resources -> D!RecordType \cup {Absent, Unknown}]
      /\ bound \in [Callers -> D!RecordType \cup {Absent, Unknown}]
      /\ UNCHANGED dlocals /\ UNCHANGED bound /\ D!Observe /\ Crash
  BY DEF ToldInv, BoundInv, Restart, D!Observe, dlocals, D!locals
<1>1. ToldInv'
  <2>1. told' \in [Resources -> D!RecordType \cup {Absent, Unknown}]
    BY <1>0 DEF Restart
  <2>2. ASSUME NEW n \in Resources, told'[n] # Unknown
        PROVE  told'[n] = RecordOf(n, store'[n])
    <3>1. told'[n] = told[n] /\ ~Busy(n) /\ "volatile" \notin Hazards
      BY <2>2 DEF Restart
    <3>2. store' = store
      BY <1>0, <3>1 DEF Crash
    <3>3. QED
      BY <2>2, <3>1, <3>2 DEF ToldInv, ToldAt, Untouched, Busy
  <2>3. QED
    BY <2>1, <2>2 DEF ToldInv, ToldAt
<1>2. ASSUME NEW u \in Callers PROVE BoundAt(u)'
  <2>1. dcall[u] = Absent
    BY DEF Restart, D!TypeOK, D!LocalOK
  <2>2. seen'[u] = seen[u]
    BY <1>0, <2>1 DEF D!Observe, D!TypeOK
  <2>3. QED
    BY <1>0, <2>1, <2>2 DEF BoundInv, BoundAt, dlocals
<1>3. QED
  BY <1>0, <1>1, <1>2 DEF BoundInv

(* A call begins under what was told of its name, if nothing is under way. *)
LEMMA BeginBound ==
  ASSUME D!TypeOK, ToldInv, BoundInv, NEW u \in Callers, NEW n \in Resources,
         BeginCall(u, n)
  PROVE  BoundInv'
<1>0. /\ told \in [Resources -> D!RecordType \cup {Absent, Unknown}]
      /\ bound \in [Callers -> D!RecordType \cup {Absent, Unknown}]
      /\ UNCHANGED <<pc, call, store, told>> /\ D!Begin(u, n)
  BY DEF ToldInv, BoundInv, BeginCall, vars
<1>1. bound' \in [Callers -> D!RecordType \cup {Absent, Unknown}]
  BY <1>0 DEF BeginCall
<1>2. BoundAt(u)'
  <2> SUFFICES ASSUME bound'[u] # Unknown
               PROVE  /\ dcall'[u] = n /\ n \notin D!StaticNames /\ ~Busy(n)'
                      /\ told'[n] = bound'[u] /\ seen'[u] = {bound'[u]}
    BY DEF BoundAt
  <2>1. /\ ~Busy(n) /\ n \notin D!StaticNames /\ bound'[u] = told[n]
    BY <1>0 DEF BeginCall
  <2>2. told[n] = RecordOf(n, store[n])
    BY <2>1 DEF ToldInv, ToldAt, Untouched, Busy
  <2>3. seen'[u] = {RecordOf(n, store[n])} /\ dcall'[u] = n
    BY <1>0, <2>1 DEF D!Begin, D!InForce, D!TypeOK, CallRecord
  <2>4. ~Busy(n)'
    BY <1>0, <2>1 DEF Busy, InFlight
  <2>5. QED
    BY <1>0, <2>1, <2>2, <2>3, <2>4
<1>3. ASSUME NEW v \in Callers \ {u} PROVE BoundAt(v)'
  <2>1. /\ dcall'[v] = dcall[v] /\ forwarded'[v] = forwarded[v]
        /\ seen'[v] = seen[v] /\ bound'[v] = bound[v]
    BY <1>0 DEF D!Begin, D!TypeOK, BeginCall
  <2>2. QED
    BY <1>0, <2>1 DEF BoundInv, BoundAt, Busy, InFlight
<1>4. QED
  BY <1>1, <1>2, <1>3 DEF BoundInv

(* A handler's step keeps its call's name or ends the call. *)
LEMMA HandleBound ==
  ASSUME D!TypeOK, BoundInv, NEW u \in Callers, HandleCall(u)
  PROVE  BoundInv'
<1>1. /\ UNCHANGED <<pc, call, seen, told, bound>>
      /\ dcall[u] # Absent /\ dcall'[u] \in {dcall[u], Absent}
      /\ \A v \in Callers \ {u} :
           dcall'[v] = dcall[v] /\ forwarded'[v] = forwarded[v]
  <2>1. UNCHANGED <<pc, call, told, bound>> /\ (D!Handle(u) \/ D!Disconnect(u))
    BY DEF HandleCall, vars, promises
  <2>2. dcall[u] # Absent
    BY <2>1 DEF D!Handle, D!ResolveStatic, D!ResolveRecord, D!ResolveWorkload,
       D!LookupTool, D!Authorize, D!ToolEndpoint, D!Forward, D!Audit,
       D!Disconnect, D!TypeOK, D!LocalOK
  <2>3. /\ seen' = seen /\ dcall'[u] \in {dcall[u], Absent}
        /\ \A v \in Callers \ {u} :
             dcall'[v] = dcall[v] /\ forwarded'[v] = forwarded[v]
    BY <2>1 DEF D!Handle, D!ResolveStatic, D!ResolveRecord, D!ResolveWorkload,
       D!LookupTool, D!Authorize, D!ToolEndpoint, D!Forward, D!Audit,
       D!Disconnect, D!Take, D!Deny, D!Decide, D!Return, D!Leave, D!history,
       D!TypeOK
  <2>4. QED
    BY <2>1, <2>2, <2>3
<1>2. ASSUME NEW v \in Callers PROVE BoundAt(v)'
  BY <1>1 DEF BoundInv, BoundAt, Busy, InFlight
<1>3. QED
  BY <1>1, <1>2 DEF BoundInv

-----------------------------------------------------------------------------
(* Together.  While requests for one name do not overlap, and whatever     *)
(* fails, hangs up or restarts: what the store holds is what was told, a   *)
(* call that nothing overtakes has only ever seen what was told when it    *)
(* began, and the data plane's own theorems say the rest.                  *)
PromiseInv == ControlInv /\ ToldInv /\ BoundInv

LEMMA NextPromise ==
  ASSUME PromiseInv, ToolsManaged, D!TypeOK, [GatewayNext]_gatewayVars,
         "overlap" \notin Hazards
  PROVE  PromiseInv'
<1>0. ControlInv' /\ ControlInv /\ TypeOK /\ ToldInv /\ BoundInv
  BY ControlSteps, NextControl DEF PromiseInv, ControlInv
<1>1. ASSUME NEW c \in Clients, ControlStep(c) PROVE PromiseInv'
  BY <1>0, <1>1, ControlTold, ToldTypes, ControlBound DEF PromiseInv, ToldInv
<1>2. CASE Restart
  BY <1>0, <1>2, RestartPromises DEF PromiseInv
<1>3. ASSUME NEW u \in Callers, NEW n \in Resources, BeginCall(u, n)
      PROVE  PromiseInv'
  <2>1. ToldInv'
    BY <1>0, <1>3 DEF BeginCall, vars, ToldInv, ToldAt, Untouched, InFlight
  <2>2. QED
    BY <1>0, <1>3, <2>1, BeginBound DEF PromiseInv
<1>4. ASSUME NEW u \in Callers, HandleCall(u) PROVE PromiseInv'
  <2>1. ToldInv'
    BY <1>0, <1>4 DEF HandleCall, vars, promises, ToldInv, ToldAt, Untouched, InFlight
  <2>2. QED
    BY <1>0, <1>4, <2>1, HandleBound DEF PromiseInv
<1>5. CASE UNCHANGED gatewayVars
  BY <1>0, <1>5 DEF gatewayVars, vars, dlocals, promises, PromiseInv, ToldInv,
     ToldAt, Untouched, InFlight, BoundInv, BoundAt, Busy
<1>6. QED
  BY <1>1, <1>2, <1>3, <1>4, <1>5 DEF GatewayNext

LEMMA InitPromise == GatewayInit => PromiseInv
<1> SUFFICES ASSUME GatewayInit PROVE PromiseInv
  OBVIOUS
<1>1. ControlInv
  BY InitControl DEF GatewayInit
<1>2. ToldInv /\ BoundInv
  BY DEF GatewayInit, ToldInv, ToldAt, BoundInv, BoundAt
<1>3. QED
  BY <1>1, <1>2 DEF PromiseInv

LEMMA KeptPromises ==
  ASSUME PromiseInv, CallsKept PROVE AcknowledgedInForce
<1> SUFFICES ASSUME NEW u \in Callers, forwarded[u] # Absent, bound[u] # Unknown
             PROVE  /\ bound[u] # Absent
                    /\ D!Admits(bound[u], u)
                    /\ IF bound[u].upstream = Absent THEN forwarded[u] \in ran[u]
                       ELSE forwarded[u] = bound[u].upstream
  BY DEF AcknowledgedInForce
<1>1. seen[u] = {bound[u]}
  BY DEF PromiseInv, BoundInv, BoundAt
<1>2. bound[u] # Absent /\ D!Admits(bound[u], u)
  BY <1>1 DEF CallsKept, D!ForwardedUnderGrant
<1>3. \/ bound[u].upstream = forwarded[u]
      \/ bound[u].upstream = Absent /\ forwarded[u] \in ran[u]
  BY <1>1 DEF CallsKept, D!RoutedByLiveState
<1>4. QED
  BY <1>2, <1>3

(* A change is in force once it is answered: no call that begins after a   *)
(* delete, or after an update that shuts its caller out or moves the       *)
(* upstream, has answered success is served as if it had not been made.    *)
THEOREM ChangesTakeEffect ==
  ASSUME "overlap" \notin Hazards
  PROVE  GatewaySpec => []AcknowledgedInForce
<1>1. PromiseInv /\ ToolsManaged /\ D!TypeOK /\ [GatewayNext]_gatewayVars
        => PromiseInv'
  BY NextPromise
<1>2. CallsKept => D!TypeOK
  BY DEF CallsKept
<1>3. PromiseInv /\ CallsKept => AcknowledgedInForce
  BY KeptPromises
<1>4. QED
  BY <1>1, <1>2, <1>3, InitPromise, ControlInvariant, CallsInvariant, PTL
  DEF GatewaySpec
-----------------------------------------------------------------------------
(* What answers a call.  Between requests, what runs is what was answered  *)
(* to run; while one is under way, until it has called the provider.       *)
Moved(c) ==
  \/ pc[c] = "remove"
  \/ pc[c] = "audit" /\ outcome[c] = "ok" /\ (call[c].verb = "delete" \/ Ships(c))

Moving(n) == \E c \in Clients : InFlight(c, n) /\ Moved(c)

InstalledAt(n) == installed[n] # Unknown /\ ~Moving(n) => running[n] = installed[n]

(* A request calls the provider with the image it will answer with, which  *)
(* is still there when it answers.                                         *)
ShippedAt(c) ==
  /\ pc[c] = "apply" => Ships(c)
  /\ pc[c] = "audit" /\ outcome[c] = "ok" /\ Ships(c)
       => running[call[c].target] = Representation(c).image

InstalledInv ==
  /\ installed \in [Resources -> Images \cup {Absent, Unknown}]
  /\ \A n \in Resources : InstalledAt(n)
  /\ \A c \in Clients : ShippedAt(c)

(* What a request answers with. *)
LEMMA RepresentationType ==
  ASSUME TypeOK, NEW c \in Clients,
         \/ pc[c] \in {"put", "apply"}
         \/ pc[c] = "audit" /\ outcome[c] = "ok"
  PROVE  /\ Representation(c) \in Records \cup {Absent}
         /\ call[c].verb \in {"create", "update"} => Representation(c) # Absent
<1>1. call[c] \in Calls
  BY DEF TypeOK, LocalsOK
<1>2. CASE call[c].verb = "create"
  <2>1. Representation(c) = NewRecord(call[c])
    BY <1>2 DEF Representation
  <2>2. NewRecord(call[c]) \in Records
    BY <1>1, <1>2, NewRecordType DEF TypeOK, LocalsOK
  <2>3. QED
    BY <2>1, <2>2
<1>3. CASE call[c].verb = "update"
  <2>1. Representation(c) = Merged(pre[c], call[c])
    BY <1>3 DEF Representation
  <2>2. Merged(pre[c], call[c]) \in Records
    BY <1>1, <1>3, MergedType DEF TypeOK, LocalsOK
  <2>3. QED
    BY <2>1, <2>2
<1>4. CASE call[c].verb \notin {"create", "update"}
  BY <1>4 DEF Representation
<1>5. QED
  BY <1>2, <1>3, <1>4

(* A handler's own step: it deploys as it decides on success, and nothing  *)
(* else it does before or after touches what runs, except a teardown.      *)
LEMMA HandleShips ==
  ASSUME TypeOK, NEW c \in Clients, Handle(c), PutAt(c), ShippedAt(c)
  PROVE  /\ ShippedAt(c)'
         /\ pc'[c] # "idle" => Moved(c)' \/ (~Moved(c) /\ UNCHANGED running)
         /\ pc'[c] = "idle" => UNCHANGED running
<1> DEFINE n == call[c].target
<1>0. n \in Resources /\ call[c] \in Calls
  BY HandleKeepsCall DEF TypeOK, LocalsOK, Calls
<1> USE DEF Moved, ShippedAt, At, Goto
<1>1. CASE \/ CreateAdmit(c) \/ CreateCheck(c) \/ CreateRollback(c)
           \/ UpdateAdmit(c) \/ UpdateRead(c) \/ DeleteAdmit(c) \/ DeleteRead(c)
  BY <1>0, <1>1 DEF CreateAdmit, CreateCheck, CreateRollback, UpdateAdmit,
     UpdateRead, DeleteAdmit, DeleteRead, StoreFails, Decide, Return, PutAt, TypeOK
<1>2. CASE CreatePut(c)
  <2>0. pc[c] = "put" /\ call[c].verb = "create" /\ running' = running
    BY <1>2 DEF CreatePut, StoreFails
  <2>1. /\ Representation(c) # Absent /\ Representation(c).external = call[c].external
    BY <2>0, RepresentationType DEF Representation, NewRecord
  <2>2. Ships(c) <=> ~call[c].external
    BY <2>0, <2>1 DEF Ships
  <2>3. pc'[c] \in {"idle", "apply", "audit"}
    BY <1>2 DEF CreatePut, StoreFails, Decide, Return, TypeOK
  <2>4. pc'[c] # "idle" =>
          /\ call' = call /\ pre' = pre
          /\ IF call[c].external THEN pc'[c] = "audit" ELSE pc'[c] = "apply"
    BY <1>2 DEF CreatePut, StoreFails, Decide, Return, TypeOK
  <2>5. pc'[c] # "idle" => (Ships(c)' <=> Ships(c))
    BY <2>4 DEF Ships, Representation
  <2>6. QED
    BY <2>0, <2>2, <2>3, <2>4, <2>5
<1>3. CASE CreateApply(c)
  <2>0. /\ pc[c] = "apply" /\ call[c].verb = "create" /\ Ships(c)
        /\ call' = call /\ pre' = pre
    BY <1>3 DEF CreateApply, Decide
  <2>1. (Ships(c)' <=> Ships(c)) /\ Representation(c)' = Representation(c)
    BY <2>0 DEF Ships, Representation
  <2>2. \/ /\ running' = [running EXCEPT ![n] = call[c].image]
           /\ pc'[c] = "audit" /\ outcome'[c] = "ok"
        \/ pc'[c] = "rollback" /\ running' = running
    BY <1>3 DEF CreateApply, Decide, TypeOK
  <2>3. Representation(c).image = call[c].image
    BY <2>0 DEF Representation, NewRecord
  <2>4. QED
    BY <1>0, <2>0, <2>1, <2>2, <2>3 DEF TypeOK
<1>4. CASE UpdatePut(c)
  <2>0. pc[c] = "put" /\ call[c].verb = "update" /\ running' = running
    BY <1>4 DEF UpdatePut, StoreFails
  <2>1. Representation(c) # Absent /\ Representation(c) = Merged(pre[c], call[c])
    BY <2>0, RepresentationType DEF Representation
  <2>2. Ships(c) <=> /\ DeploymentChanged(pre[c], Representation(c))
                     /\ ~Representation(c).external
    BY <2>0, <2>1 DEF Ships
  <2>3. pc'[c] \in {"idle", "apply", "audit"}
    BY <1>4 DEF UpdatePut, StoreFails, Decide, Return, TypeOK
  <2>4. pc'[c] # "idle" =>
          /\ call' = call /\ pre' = pre
          /\ IF Ships(c) THEN pc'[c] = "apply" ELSE pc'[c] = "audit"
    BY <1>4, <2>1, <2>2 DEF UpdatePut, StoreFails, Decide, Return, TypeOK
  <2>5. pc'[c] # "idle" => (Ships(c)' <=> Ships(c))
    BY <2>4 DEF Ships, Representation
  <2>6. QED
    BY <2>0, <2>2, <2>3, <2>4, <2>5
<1>5. CASE UpdateApply(c)
  <2>0. /\ pc[c] = "apply" /\ call[c].verb = "update" /\ Ships(c)
        /\ call' = call /\ pre' = pre
    BY <1>5 DEF UpdateApply, Decide
  <2>1. (Ships(c)' <=> Ships(c)) /\ Representation(c)' = Representation(c)
    BY <2>0 DEF Ships, Representation
  <2>2. \/ /\ running' = [running EXCEPT ![n] = Merged(pre[c], call[c]).image]
           /\ pc'[c] = "audit" /\ outcome'[c] = "ok"
        \/ /\ pc'[c] = "audit" /\ outcome'[c] # "ok" /\ running' = running
    BY <1>5, ApplyErrorKinds DEF UpdateApply, Decide, TypeOK
  <2>3. Representation(c) = Merged(pre[c], call[c])
    BY <2>0 DEF Representation
  <2>4. QED
    BY <1>0, <2>0, <2>1, <2>2, <2>3 DEF TypeOK
<1>6. CASE DeleteTeardown(c) \/ DeleteRemove(c)
  <2>1. /\ call[c].verb = "delete" /\ pc'[c] \in {"idle", "remove", "audit"}
        /\ pc'[c] # "idle" => call' = call
    BY <1>6 DEF DeleteTeardown, DeleteRemove, StoreFails, Decide, Return, TypeOK
  <2>2. pc'[c] # "idle" => ~Ships(c)'
    BY <2>1 DEF Ships, Representation
  <2>3. \/ Moved(c)'
        \/ pc'[c] = "idle" /\ running' = running
        \/ ~Moved(c) /\ running' = running
    BY <1>6, <2>1 DEF DeleteTeardown, DeleteRemove, StoreFails, Decide, Return, TypeOK
  <2>4. pc'[c] = "idle" => running' = running
    BY <1>6 DEF DeleteTeardown, DeleteRemove, StoreFails, Decide, TypeOK
  <2>5. QED
    BY <2>1, <2>2, <2>3, <2>4
<1>8. CASE Finish(c)
  BY <1>0, <1>8 DEF Finish, TypeOK
<1>9. QED
  BY <1>1, <1>2, <1>3, <1>4, <1>5, <1>6, <1>8 DEF Handle

(* What another client's step leaves of a request under way. *)
LEMMA OthersShip ==
  ASSUME TypeOK, Exclusive, NEW c \in Clients, ControlStep(c),
         NEW d \in Clients \ {c}, ShippedAt(d)
  PROVE  ShippedAt(d)' /\ (InFlight(d, call[d].target) => (Moved(d)' <=> Moved(d)))
<1>1. /\ pc'[d] = pc[d] /\ call'[d] = call[d] /\ pre'[d] = pre[d]
      /\ outcome'[d] = outcome[d]
  <2>1. CASE \E n \in Resources : Get(c, n)
    BY <2>1 DEF Get
  <2>2. CASE \E k \in Calls : Send(c, k)
    BY <2>2 DEF Send, Goto, TypeOK
  <2>3. CASE Handle(c) \/ Disconnect(c)
    BY <2>3, HandleFrame
  <2>4. QED
    BY <2>1, <2>2, <2>3, SendRequestSends DEF ControlStep
<1>2. (Ships(d)' <=> Ships(d)) /\ Representation(d)' = Representation(d)
  BY <1>1 DEF Ships, Representation
<1>3. pc[d] # "idle" => running'[call[d].target] = running[call[d].target]
  <2>1. CASE SendRequest(c) \/ Disconnect(c)
    BY <2>1, SendRequestSends DEF Get, Send, Disconnect
  <2>2. CASE Handle(c) /\ pc[d] # "idle"
    <3>1. pc[c] # "idle" /\ call[d].target \in Resources
      BY <2>2, HandleKeepsCall DEF TypeOK, LocalsOK, Calls
    <3>2. QED
      BY <2>2, <3>1, HandleWrites DEF Exclusive
  <2>3. QED
    BY <2>1, <2>2 DEF ControlStep
<1>4. QED
  BY <1>1, <1>2, <1>3 DEF ShippedAt, Moved

(* A name that the step's request is not for stays as it was. *)
LEMMA OthersInstalled ==
  ASSUME ControlInv, InstalledInv, NEW c \in Clients, ControlStep(c),
         NEW n \in Resources, installed'[n] = installed[n], running'[n] = running[n],
         InFlight(c, n) => ~Moved(c)
  PROVE  InstalledAt(n)'
<1>0. TypeOK /\ Exclusive
  BY DEF ControlInv, CoordInv
<1>1. ASSUME NEW d \in Clients, InFlight(d, n), Moved(d) PROVE Moving(n)'
  <2>1. d # c
    BY <1>1
  <2>2. InFlight(d, n)'
    BY <1>0, <1>1, <2>1, ControlFrame DEF InFlight
  <2>3. Moved(d)'
    BY <1>0, <1>1, <2>1, OthersShip DEF InFlight, InstalledInv
  <2>4. QED
    BY <2>2, <2>3 DEF Moving
<1>2. QED
  BY <1>1 DEF InstalledInv, InstalledAt, Moving

(* A request's own step. *)
LEMMA HandleInstalled ==
  ASSUME ControlInv, InstalledInv, NEW c \in Clients, Handle(c), ControlStep(c),
         NEW n \in Resources, n = call[c].target
  PROVE  InstalledAt(n)' /\ ShippedAt(c)'
<1>0. /\ TypeOK /\ pc[c] # "idle" /\ InFlight(c, n)
      /\ installed \in [Resources -> Images \cup {Absent, Unknown}]
      /\ InstalledAt(n) /\ ShippedAt(c) /\ PutAt(c)
  BY HandleKeepsCall DEF ControlInv, PutInv, InstalledInv, InFlight
<1>1. ShippedAt(c)'
  BY <1>0, HandleShips
<1> SUFFICES InstalledAt(n)'
  BY <1>1
<1>2. CASE pc'[c] # "idle"
  <2>1. installed'[n] = installed[n]
    BY <1>2 DEF ControlStep, Hear
  <2>2. CASE Moved(c)'
    <3>1. InFlight(c, n)'
      BY <1>0, <1>2, HandleKeepsCall DEF InFlight
    <3>2. QED
      BY <2>2, <3>1 DEF InstalledAt, Moving
  <2>3. CASE ~Moved(c) /\ running' = running
    BY <2>1, <2>3, OthersInstalled
  <2>4. QED
    BY <1>0, <1>2, <2>2, <2>3, HandleShips
<1>3. CASE pc'[c] = "idle"
  <2>1. /\ running' = running
        /\ installed'[n] = Settled(c, Rejections, installed[n],
                                       Delivered(c, installed[n]))
    BY <1>0, <1>3, HandleShips DEF ControlStep, Hear
  <2>2. CASE installed'[n] = Unknown
    BY <2>2 DEF InstalledAt
  <2>3. CASE outcome'[c] \in Rejections
    <3>1. installed'[n] = installed[n]
      BY <2>1, <2>3 DEF Settled, Rejections
    <3>2. ~Moved(c)
      BY <1>0, <1>3, <2>3 DEF Moved, Handle, Finish, DeleteRemove, StoreFails,
         CreateAdmit, CreateCheck, CreatePut, CreateApply, CreateRollback,
         UpdateAdmit, UpdateRead, UpdatePut, UpdateApply, DeleteAdmit,
         DeleteRead, DeleteTeardown, Decide, Return, Goto, At, Rejections, TypeOK
    <3>3. QED
      BY <1>0, <2>1, <3>1, <3>2, OthersInstalled
  <2>4. CASE outcome'[c] = "ok" /\ installed'[n] # Unknown
    <3>1. /\ pc[c] = "audit" /\ outcome[c] = "ok" /\ call[c].verb # "delete"
          /\ installed'[n] = IF Ships(c) THEN Representation(c).image ELSE installed[n]
      <4>1. pc[c] = "audit" /\ outcome[c] = "ok"
        BY <1>0, <1>3, <2>4 DEF Handle, Finish, DeleteRemove, StoreFails,
           CreateAdmit, CreateCheck, CreatePut, CreateApply, CreateRollback,
           UpdateAdmit, UpdateRead, UpdatePut, UpdateApply, DeleteAdmit,
           DeleteRead, DeleteTeardown, Decide, Return, Goto, At, TypeOK
      <4>2. QED
        BY <2>1, <2>4, <4>1 DEF Settled, Delivered
    <3>2. CASE Ships(c)
      BY <1>0, <2>1, <3>1, <3>2 DEF ShippedAt, InstalledAt
    <3>3. CASE ~Ships(c)
      BY <1>0, <2>1, <3>1, <3>3, OthersInstalled DEF Moved
    <3>4. QED
      BY <3>2, <3>3
  <2>5. QED
    BY <2>1, <2>2, <2>3, <2>4 DEF Settled
<1>4. QED
  BY <1>2, <1>3

LEMMA ControlInstalled ==
  ASSUME ControlInv, InstalledInv, NEW c \in Clients, ControlStep(c)
  PROVE  InstalledInv'
<1>0. /\ TypeOK /\ Exclusive /\ \A d \in Clients : ShippedAt(d)
      /\ installed \in [Resources -> Images \cup {Absent, Unknown}]
  BY DEF ControlInv, CoordInv, InstalledInv
<1>1. installed' \in [Resources -> Images \cup {Absent, Unknown}]
  <2>1. CASE UNCHANGED installed
    BY <1>0, <2>1
  <2>2. CASE /\ pc[c] # "idle" /\ outcome'[c] = "ok" /\ Ships(c)
             /\ call[c].verb # "delete" /\ pc'[c] = "idle"
    <3>1. pc[c] = "audit" /\ outcome[c] = "ok"
      BY <1>0, <2>2, SendRequestSends
      DEF ControlStep, Get, Send, Disconnect, Handle, Finish, DeleteRemove,
          StoreFails, CreateAdmit, CreateCheck, CreatePut, CreateApply,
          CreateRollback, UpdateAdmit, UpdateRead, UpdatePut, UpdateApply,
          DeleteAdmit, DeleteRead, DeleteTeardown, Decide, Return, Goto, At,
          TypeOK
    <3>2. Representation(c) \in Records
      BY <1>0, <2>2, <3>1, RepresentationType DEF Ships
    <3>3. Representation(c).image \in Images
      BY <3>2 DEF Records
    <3>4. QED
      BY <1>0, <2>2, <3>3 DEF ControlStep, Hear, Settled, Delivered
  <2>3. QED
    BY <1>0, <2>1, <2>2 DEF ControlStep, Hear, Settled, Delivered
<1>2. ASSUME NEW d \in Clients \ {c} PROVE ShippedAt(d)'
  BY <1>0, OthersShip
<1>3. CASE SendRequest(c) \/ Disconnect(c)
  <2>1. /\ running' = running /\ ShippedAt(c)'
        /\ pc[c] = "idle" \/ Disconnect(c)
    <3>1. CASE \E n \in Resources : Get(c, n)
      BY <1>0, <3>1 DEF Get, ShippedAt
    <3>2. CASE \E k \in Calls : Send(c, k)
      BY <1>0, <3>2 DEF Send, Goto, ShippedAt, TypeOK
    <3>3. CASE Disconnect(c)
      BY <1>0, <3>3 DEF Disconnect, Return, Goto, ShippedAt, TypeOK
    <3>4. QED
      BY <1>0, <1>3, <3>1, <3>2, <3>3, SendRequestSends
  <2>2. ASSUME NEW n \in Resources PROVE InstalledAt(n)'
    <3>1. CASE ~InFlight(c, n)
      <4>1. installed'[n] = installed[n]
        BY <1>0, <3>1 DEF ControlStep, Hear, InFlight
      <4>2. QED
        BY <2>1, <3>1, <4>1, OthersInstalled
    <3>2. CASE InFlight(c, n)
      <4>1. Disconnect(c) /\ pc'[c] = "idle" /\ outcome'[c] = "none"
        BY <1>0, <2>1, <3>2 DEF InFlight, Disconnect, Return, Goto, TypeOK
      <4>2. installed'[n] = Unknown
        BY <1>0, <3>2, <4>1 DEF ControlStep, Hear, Settled, Rejections, InFlight
      <4>3. QED
        BY <4>2 DEF InstalledAt
    <3>3. QED
      BY <3>1, <3>2
  <2>3. QED
    BY <1>1, <1>2, <2>1, <2>2 DEF InstalledInv
<1>4. CASE Handle(c)
  <2>1. ASSUME NEW n \in Resources, n # call[c].target PROVE InstalledAt(n)'
    <3>1. installed'[n] = installed[n] /\ running'[n] = running[n]
      BY <1>0, <1>4, <2>1, HandleWrites DEF ControlStep, Hear
    <3>2. QED
      BY <2>1, <3>1, OthersInstalled DEF InFlight
  <2>2. ASSUME NEW n \in Resources, n = call[c].target
        PROVE  InstalledAt(n)' /\ ShippedAt(c)'
    BY <1>4, <2>2, HandleInstalled
  <2>3. call[c].target \in Resources
    BY <1>0, <1>4, HandleKeepsCall DEF TypeOK, LocalsOK, Calls
  <2>4. QED
    BY <1>1, <1>2, <2>1, <2>2, <2>3 DEF InstalledInv
<1>5. QED
  BY <1>3, <1>4 DEF ControlStep

LEMMA NextInstalled ==
  ASSUME ControlInv, InstalledInv, [GatewayNext]_gatewayVars
  PROVE  InstalledInv'
<1>1. ASSUME NEW c \in Clients, ControlStep(c) PROVE InstalledInv'
  BY <1>1, ControlInstalled
<1>2. CASE Restart
  <2>1. /\ running' = running /\ \A c \in Clients : pc'[c] = "idle"
        /\ installed' = [n \in Resources |-> IF Busy(n) THEN Unknown ELSE installed[n]]
    BY <1>2 DEF Restart, Crash
  <2>2. ASSUME NEW n \in Resources PROVE InstalledAt(n)'
    BY <2>1 DEF InstalledInv, InstalledAt, Moving, Busy
  <2>3. QED
    BY <2>1, <2>2 DEF InstalledInv, ShippedAt
<1>3. CASE UNCHANGED <<vars, installed>>
  <2>1. /\ \A c \in Clients : /\ Ships(c)' <=> Ships(c)
                              /\ Representation(c)' = Representation(c)
        /\ UNCHANGED <<pc, call, outcome, running, installed>>
    BY <1>3 DEF vars, Ships, Representation
  <2>2. QED
    BY <2>1 DEF InstalledInv, InstalledAt, ShippedAt, Moving, Moved, InFlight
<1>4. QED
  BY <1>1, <1>2, <1>3 DEF GatewayNext, BeginCall, HandleCall, promises, gatewayVars

LEMMA InitInstalled == GatewayInit => InstalledInv
BY DEF GatewayInit, Init, InstalledInv, InstalledAt, ShippedAt

-----------------------------------------------------------------------------
(* What answers a call.  Only a call's own step forwards it.               *)
LEMMA ForwardedByCall ==
  ASSUME D!TypeOK, [GatewayNext]_gatewayVars, NEW u \in Callers,
         forwarded[u] = Absent, forwarded'[u] # Absent
  PROVE  dcall[u] # Absent
<1>1. ~ \E c \in Clients : ControlStep(c)
  BY DEF ControlStep, D!Observe, D!locals
<1>2. ~Restart
  BY DEF Restart, D!Observe, D!locals
<1>3. ASSUME NEW v \in Callers, NEW n \in Resources, BeginCall(v, n)
      PROVE  FALSE
  BY <1>3 DEF BeginCall, D!Begin, D!TypeOK
<1>4. PICK v \in Callers : HandleCall(v)
  BY <1>1, <1>2, <1>3 DEF GatewayNext, gatewayVars, dlocals
<1>5. D!Handle(v) \/ D!Disconnect(v)
  BY <1>4 DEF HandleCall
<1>6. v = u
  BY <1>5 DEF D!Handle, D!ResolveStatic, D!ResolveRecord, D!ResolveWorkload,
     D!LookupTool, D!Authorize, D!ToolEndpoint, D!Forward, D!Audit,
     D!Disconnect, D!Take, D!Deny, D!Decide, D!Return, D!Leave, D!history,
     D!TypeOK
<1>7. QED
  BY <1>5, <1>6 DEF D!Handle, D!ResolveStatic, D!ResolveRecord,
     D!ResolveWorkload, D!LookupTool, D!Authorize, D!ToolEndpoint, D!Forward,
     D!Audit, D!Disconnect, D!TypeOK, D!LocalOK

(* A call is forwarded while nothing is under way for its name. *)
LEMMA ReachStep ==
  ASSUME PromiseInv, InstalledInv, D!TypeOK, [GatewayNext]_gatewayVars,
         NEW u \in Callers, forwarded[u] = Absent, forwarded'[u] # Absent,
         bound[u] # Unknown, installed[dcall[u]] # Unknown
  PROVE  running[dcall[u]] = installed[dcall[u]]
<1>1. dcall[u] # Absent
  BY ForwardedByCall
<1>2. dcall[u] \in Resources /\ ~Busy(dcall[u])
  BY <1>1 DEF PromiseInv, BoundInv, BoundAt
<1>3. QED
  BY <1>2 DEF InstalledInv, InstalledAt, Moving, Busy

(* A call reaches the new image: no call that begins after a create or an  *)
(* update has been answered is served by what ran before it, whatever      *)
(* fails, hangs up or restarts in between.                                 *)
THEOREM NewImageReached ==
  ASSUME "overlap" \notin Hazards
  PROVE  GatewaySpec => ReachesNewImage
<1> DEFINE Reached ==
      \A u \in Callers :
        /\ forwarded[u] = Absent /\ forwarded'[u] # Absent
        /\ bound[u] \notin {Unknown, Absent} /\ bound[u].upstream = Absent
        /\ installed[dcall[u]] # Unknown
        => running[dcall[u]] = installed[dcall[u]]
<1>1. /\ PromiseInv /\ InstalledInv /\ ToolsManaged /\ D!TypeOK
      /\ [GatewayNext]_gatewayVars
      => (PromiseInv /\ InstalledInv)' /\ Reached
  BY NextPromise, NextInstalled, ReachStep DEF PromiseInv
<1>2. CallsKept => D!TypeOK
  BY DEF CallsKept
<1>3. Reached => [Reached]_gatewayVars
  OBVIOUS
<1>4. QED
  BY <1>1, <1>2, <1>3, InitPromise, InitInstalled, ControlInvariant,
     CallsInvariant, PTL DEF GatewaySpec, ReachesNewImage
=============================================================================
