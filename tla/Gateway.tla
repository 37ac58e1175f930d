------------------------------ MODULE Gateway ------------------------------
(***************************************************************************)
(* The whole gateway: the control plane and the data plane of one process  *)
(* over the same metadata store and the same provider.  Nothing else is    *)
(* between them: no cache, no event and no lock, so that a change is seen  *)
(* by the calls that read the store after it, and by no others.            *)
(*                                                                         *)
(* The variables of the control plane keep their names, those of the data  *)
(* plane that would clash begin with d.                                    *)
(***************************************************************************)
EXTENDS ControlPlane

CONSTANTS
  Callers,      \* users of the data plane
  Static,       \* the adapters of the configuration file
  Urls,         \* upstreams and endpoints
  Says,         \* what a note says to a call: a function on names and notes
  Endpoint,     \* where the provider makes a workload reachable, by name
  CallHazards,  \* what may go wrong for a call
  Unknown       \* no promise

VARIABLES
  dstep, dcall, drec, durl, dverdict, daudit, dreply, forwarded, seen, ran,
  told,       \* history: what the last change of a name left, as it was answered
  installed,  \* history: the image of the last deployment that was answered
  bound       \* history: what was told of the name of a call when it began

(* The note of a record stands for its upstream (where it has one of its    *)
(* own), and for the tags and required_roles that decide who may call.     *)
Attributes == [upstream : Urls, policy : SUBSET Callers, roles : SUBSET Callers]

(* A record, or Absent, as a call sees it. *)
RecordOf(n, v) ==
  IF v = Absent THEN Absent
  ELSE [Says[n][v.note] EXCEPT !.upstream = IF v.external THEN @ ELSE Absent]

(* The registry, as calls see it. *)
CallRecords == [n \in Resources |-> {RecordOf(n, v) : v \in ViewsOf(n)}]
CallWorkloads == [n \in Resources |-> {Endpoint[n]}]
CallRecord == [n \in Resources |-> RecordOf(n, store[n])]
CallWorkload == [n \in Resources |->
                   IF running[n] = Absent THEN Absent ELSE Endpoint[n]]

D == INSTANCE DataPlane WITH
       Names <- Resources, Hazards <- CallHazards,
       Records <- CallRecords, Workloads <- CallWorkloads,
       record <- CallRecord, workload <- CallWorkload,
       step <- dstep, call <- dcall, rec <- drec, url <- durl,
       verdict <- dverdict, audit <- daudit, reply <- dreply

ASSUME SaysAssumption == Says \in [Resources -> [Notes -> Attributes]]
ASSUME EndpointAssumption == Endpoint \in [Resources -> Urls]
ASSUME StaticNamesAssumption == D!StaticNames \subseteq Resources \ Tools
ASSUME StaticRecordsAssumption ==
  \A n \in D!StaticNames : Static[n] \in Attributes
ASSUME CallHazardsAssumption ==
  /\ CallHazards \subseteq D!HazardKinds
  /\ "crash" \in Hazards => "disconnect" \in CallHazards
ASSUME NoValueAssumption ==
  /\ Absent \notin D!RecordType /\ Absent \notin Urls /\ Absent \notin Resources
  /\ \A n \in Resources : Absent \notin ViewsOf(n)
  /\ Unknown \notin D!RecordType \cup Images /\ Unknown # Absent

dlocals == <<dstep, dcall, drec, durl, dverdict, daudit, dreply, forwarded>>
promises == <<told, installed, bound>>
gatewayVars == <<vars, dlocals, seen, ran, promises>>

GatewayInit ==
  /\ Init
  /\ D!Init
  /\ told = [n \in Resources |-> Unknown]
  /\ installed = [n \in Resources |-> Unknown]
  /\ bound = [u \in Callers |-> Unknown]

-----------------------------------------------------------------------------
(* What clients of the control plane are told.                             *)

InFlight(c, n) == pc[c] # "idle" /\ call[c].target = n
Busy(n) == \E c \in Clients : InFlight(c, n)

(* The answer to a request settles what is in force for its name: success  *)
(* says what, one of the given refusals leaves things as they were, and    *)
(* any other end promises nothing.                                         *)
Settled(c, refusals, old, new) ==
  IF outcome'[c] = "ok" THEN new
  ELSE IF outcome'[c] \in refusals THEN old
  ELSE Unknown

(* Has a request that succeeds had its image deployed? *)
Ships(c) ==
  LET r == Representation(c) IN
  /\ r # Absent /\ ~r.external
  /\ call[c].verb = "create" \/ DeploymentChanged(pre[c], r)

(* What it leaves of an image that was deployed before. *)
Delivered(c, old) ==
  IF call[c].verb = "delete" THEN Unknown
  ELSE IF Ships(c) THEN Representation(c).image
  ELSE old

(* An image that the provider refuses leaves what runs as it was, but the   *)
(* record need not be: an update has put it, a rollback may fail.          *)
Hear(c) ==
  LET n == call[c].target IN
  IF pc[c] # "idle" /\ pc'[c] = "idle"
    THEN /\ told' = [told EXCEPT ![n] =
                       Settled(c, Rejections \ {"refused"}, @,
                               RecordOf(n, Representation(c)))]
         /\ installed' = [installed EXCEPT ![n] =
                            Settled(c, Rejections, @, Delivered(c, @))]
    ELSE UNCHANGED <<told, installed>>

(* A call that is overtaken by a request for its name is promised nothing. *)
Unsettle(c) ==
  bound' = [u \in Callers |->
              IF pc[c] = "idle" /\ pc'[c] # "idle" /\ call'[c].target = dcall[u]
                THEN Unknown ELSE bound[u]]

ControlStep(c) ==
  /\ SendRequest(c) \/ Handle(c) \/ Disconnect(c)
  /\ D!Observe
  /\ Hear(c)
  /\ Unsettle(c)

(* The process ends: the calls in flight have been dropped, too. *)
Restart ==
  /\ \A u \in Callers : dstep[u] = "idle"
  /\ Crash
  /\ D!Observe
  /\ told' = [n \in Resources |->
                IF "volatile" \in Hazards \/ Busy(n) THEN Unknown ELSE told[n]]
  /\ installed' = [n \in Resources |-> IF Busy(n) THEN Unknown ELSE installed[n]]
  /\ UNCHANGED bound

BeginCall(u, n) ==
  /\ UNCHANGED vars
  /\ D!Begin(u, n)
  /\ bound' = [bound EXCEPT ![u] =
                 IF Busy(n) \/ n \in D!StaticNames THEN Unknown ELSE told[n]]
  /\ UNCHANGED <<told, installed>>

HandleCall(u) ==
  /\ UNCHANGED vars
  /\ D!Handle(u) \/ D!Disconnect(u)
  /\ UNCHANGED promises

GatewayNext ==
  \/ \E c \in Clients : ControlStep(c)
  \/ Restart
  \/ \E u \in Callers : \/ \E n \in Resources : BeginCall(u, n)
                        \/ HandleCall(u)

GatewaySpec == GatewayInit /\ [][GatewayNext]_gatewayVars

-----------------------------------------------------------------------------
(* Properties.                                                             *)

(* Composed with the control plane, whatever its requests do to the        *)
(* registry, the data plane does what DataPlane specifies.                 *)
(* (state.rs 142-181, tool_router.rs 316-348)                              *)
ServesCalls == D!Spec

(* A change takes effect when it is answered: a call that begins after a   *)
(* create, an update or a delete has succeeded, and is not overtaken by    *)
(* another, is forwarded only if what was answered admits its caller, to   *)
(* where it says; a deleted name, or a caller shut out, is not served from *)
(* what was there before.  A refused request in between changes nothing,   *)
(* but for one whose image the provider refused: it ends the promise.      *)
(* (control_plane.rs 565-655; state.rs 142-181; tool_router.rs 316-348)    *)
AcknowledgedInForce ==
  \A u \in Callers :
    forwarded[u] # Absent /\ bound[u] # Unknown =>
      /\ bound[u] # Absent
      /\ D!Admits(bound[u], u)
      /\ IF bound[u].upstream = Absent THEN forwarded[u] \in ran[u]
         ELSE forwarded[u] = bound[u].upstream

(* ... and what answers it is new as well: a call that is sent to a         *)
(* workload under what was answered reaches the image that the last create *)
(* or update to deploy one was answered for, and no earlier one, unless a  *)
(* request since then has ended with a 500, or with no answer at all.  An  *)
(* image that the provider refused is not deployed: the one before it is.  *)
(* (control_plane.rs 426-447, 565-592, 624-647)                            *)
ReachesNewImage ==
  [][\A u \in Callers :
       /\ forwarded[u] = Absent /\ forwarded'[u] # Absent
       /\ bound[u] \notin {Unknown, Absent} /\ bound[u].upstream = Absent
       /\ installed[dcall[u]] # Unknown
       => running[dcall[u]] = installed[dcall[u]]]_gatewayVars
=============================================================================
