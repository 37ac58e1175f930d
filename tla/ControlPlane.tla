---------------------------- MODULE ControlPlane ----------------------------
(***************************************************************************)
(* The control plane of the gateway: the create, update and delete         *)
(* handlers of adapters and tools, run by concurrent HTTP requests over a  *)
(* metadata store and a deployment provider they share.                    *)
(*                                                                         *)
(* A handler is a straight line of awaits.  The gateway takes no lock and  *)
(* opens no transaction across them, so each await is one action here: the *)
(* steps of two requests interleave freely, and a handler can be dropped   *)
(* at any of them (the client disconnects, the process dies).  What a      *)
(* handler read stays in its own local variables and may be stale.         *)
(***************************************************************************)
EXTENDS Integers, FiniteSets

CONSTANTS
  Clients,     \* each has at most one request in flight
  Resources,   \* names of adapters and tools
  Tools,       \* the resources that are tools: they never have an upstream
  Images,      \* values of the deployment-affecting fields, taken together
  Notes,       \* values of the other fields (description, tags, labels ...)
  Grants,      \* <<client, verb>> pairs the policy engine allows
  Hazards,     \* what the environment of the instance may do
  MaxRev,      \* no update is sent once a record is at this revision
  Absent       \* no value: Rust's None

Verbs == {"create", "update", "delete"}

HazardKinds ==
  { "overlap",        \* requests in flight together for one resource
    "attach",         \* an update may give an adapter an upstream
    "delete",         \* clients send deletes
    "storeError",     \* a metadata operation may fail, changing nothing
    "providerError",  \* a provider call may fail, changing nothing
    "imageRefused",   \* the provider may refuse an image it is given
    "disconnect",     \* a client may hang up: its handler is dropped
    "crash",          \* the gateway may restart
    "volatile" }      \* the metadata store is the in-memory one

Records == [image : Images, note : Notes, external : BOOLEAN, rev : Nat]

ASSUME ClientsAssumption == IsFiniteSet(Clients) /\ Absent \notin Clients
ASSUME ToolsAssumption == Tools \subseteq Resources
ASSUME GrantsAssumption == Grants \subseteq Clients \X Verbs
ASSUME HazardsAssumption == Hazards \subseteq HazardKinds
ASSUME MaxRevAssumption == MaxRev \in Nat
ASSUME AbsentAssumption == /\ Absent \notin Records
                           /\ Absent \notin Images
                           /\ Absent \notin Notes
                           /\ Absent \notin Nat

VARIABLES
  store,     \* the metadata store: a record, or Absent, per resource
  running,   \* the provider: the image that runs, or Absent, per resource
  known,     \* the representation (with its ETag) a client last received
  pc,        \* where the handler of a client's request stands
  call,      \* the request: verb, target, body and precondition
  pre,       \* the record the handler read from the store
  outcome,   \* the response, from the moment the handler has decided it
  audit,     \* the decision of the request's audit record, or "none"
  touched    \* history: has the request changed the store or the provider?

vars == <<store, running, known, pc, call, pre, outcome, audit, touched>>

Calls == [ verb : Verbs, target : Resources,
           image : Images \cup {Absent}, note : Notes \cup {Absent},
           external : BOOLEAN, ifMatch : Nat \cup {Absent} ]

Steps == { "idle", "admit", "read", "put", "apply", "rollback",
           "teardown", "remove", "audit" }

(* Responses below 500.  Both "invalid" and "refused" are 400s; "refused" is *)
(* the one of the provider, which comes after the record has been put.     *)
Rejections == {"forbidden", "invalid", "conflict", "notFound", "refused"}
Outcomes == Rejections \cup {"none", "ok", "error"}

Init ==
  /\ store = [n \in Resources |-> Absent]
  /\ running = [n \in Resources |-> Absent]
  /\ known = [c \in Clients |-> [n \in Resources |-> Absent]]
  /\ pc = [c \in Clients |-> "idle"]
  /\ call = [c \in Clients |-> Absent]
  /\ pre = [c \in Clients |-> Absent]
  /\ outcome = [c \in Clients |-> "none"]
  /\ audit = [c \in Clients |-> "none"]
  /\ touched = [c \in Clients |-> FALSE]

-----------------------------------------------------------------------------
(* What a handler computes from its locals.                                *)

(* The record a create writes: the body, at revision 1. *)
NewRecord(k) ==
  [image |-> k.image, note |-> k.note, external |-> k.external, rev |-> 1]

(* Mutants of Merged: a missing field erases; the revision is not bumped.  *)
MergedErasing(p, k) ==
  [ image |-> k.image, note |-> k.note,
    external |-> p.external \/ k.external, rev |-> p.rev + 1 ]

MergedSameRev(p, k) ==
  [ image    |-> IF k.image = Absent THEN p.image ELSE k.image,
    note     |-> IF k.note = Absent THEN p.note ELSE k.note,
    external |-> p.external \/ k.external,
    rev      |-> p.rev ]

(* The record an update writes: a field the body lacks keeps the value that *)
(* was read, an upstream is never cleared, and the revision read goes up.   *)
Merged(p, k) ==
  [ image    |-> IF k.image = Absent THEN p.image ELSE k.image,
    note     |-> IF k.note = Absent THEN p.note ELSE k.note,
    external |-> p.external \/ k.external,
    rev      |-> p.rev + 1 ]

(* Mutant: a new image is not seen as a change of the deployment. *)
DeploymentChangedUpstreamOnly(p, r) == p.external # r.external

(* deployment_changed, as the update handler computes it. *)
DeploymentChanged(p, r) == p.image # r.image \/ p.external # r.external

(* Mutant: an older revision passes as well. *)
PreconditionAtMost(k, p) == k.ifMatch # Absent => k.ifMatch <= p.rev

(* No If-Match, or the revision that was read. *)
PreconditionHolds(k, p) == k.ifMatch = Absent \/ k.ifMatch = p.rev

Granted(c) == <<c, call[c].verb>> \in Grants

At(c, verb, step) == pc[c] = step /\ call[c].verb = verb

Goto(c, step) == pc' = [pc EXCEPT ![c] = step]

(* An early return through `?`: the response, and no audit record. *)
Return(c, o) ==
  /\ Goto(c, "idle")
  /\ outcome' = [outcome EXCEPT ![c] = o]
  /\ call' = [call EXCEPT ![c] = Absent]
  /\ pre' = [pre EXCEPT ![c] = Absent]

(* The response is decided; what remains is to emit the audit record. *)
Decide(c, o) ==
  /\ Goto(c, "audit")
  /\ outcome' = [outcome EXCEPT ![c] = o]
  /\ UNCHANGED <<call, pre>>

Touch(c) == touched' = [touched EXCEPT ![c] = TRUE]

(* A metadata call of the handler fails: 500, nothing stored, no audit. *)
StoreFails(c) ==
  /\ "storeError" \in Hazards
  /\ Return(c, "error")
  /\ UNCHANGED <<store, running, known, audit, touched>>

(* A provider call of the handler fails and has changed nothing. *)
ProviderFails == "providerError" \in Hazards

(* What the response says when apply does not: a failure of the provider,  *)
(* or that it does not take this image (its policy, or it cannot parse it). *)
ApplyErrors == { o \in {"error", "refused"} :
                   \/ o = "error" /\ ProviderFails
                   \/ o = "refused" /\ "imageRefused" \in Hazards }

-----------------------------------------------------------------------------
(* Clients.                                                                *)

Free(n) ==
  "overlap" \notin Hazards =>
    ~ \E d \in Clients : pc[d] # "idle" /\ call[d].target = n

Send(c, k) ==
  /\ pc[c] = "idle"
  /\ Free(k.target)
  /\ Goto(c, "admit")
  /\ call' = [call EXCEPT ![c] = k]
  /\ outcome' = [outcome EXCEPT ![c] = "none"]
  /\ audit' = [audit EXCEPT ![c] = "none"]
  /\ touched' = [touched EXCEPT ![c] = FALSE]
  /\ UNCHANGED <<store, running, known, pre>>

(* A client sends no If-Match, or the ETag it was last given. *)
IfMatches(c, n) ==
  {Absent} \cup (IF known[c][n] = Absent THEN {} ELSE {known[c][n].rev})

SendCreateAdapter(c, n) ==
  \E i \in Images, t \in Notes, x \in BOOLEAN :
    /\ n \notin Tools
    /\ Send(c, [ verb |-> "create", target |-> n, image |-> i, note |-> t,
                 external |-> x, ifMatch |-> Absent ])

SendCreateTool(c, n) ==
  \E i \in Images, t \in Notes :
    /\ n \in Tools
    /\ Send(c, [ verb |-> "create", target |-> n, image |-> i, note |-> t,
                 external |-> FALSE, ifMatch |-> Absent ])

(* The bound on revisions: no update is sent once one has been reached. *)
BelowMaxRev ==
  /\ \A n \in Resources : store[n] # Absent => store[n].rev < MaxRev
  /\ \A d \in Clients : pre[d] # Absent => pre[d].rev < MaxRev

SendUpdateAdapter(c, n) ==
  \E i \in Images \cup {Absent}, t \in Notes \cup {Absent}, x \in BOOLEAN,
     e \in IfMatches(c, n) :
    /\ n \notin Tools
    /\ x => "attach" \in Hazards
    /\ BelowMaxRev
    /\ Send(c, [ verb |-> "update", target |-> n, image |-> i, note |-> t,
                 external |-> x, ifMatch |-> e ])

SendUpdateTool(c, n) ==
  \E i \in Images \cup {Absent}, t \in Notes \cup {Absent},
     e \in IfMatches(c, n) :
    /\ n \in Tools
    /\ BelowMaxRev
    /\ Send(c, [ verb |-> "update", target |-> n, image |-> i, note |-> t,
                 external |-> FALSE, ifMatch |-> e ])

SendDelete(c, n) ==
  \E e \in IfMatches(c, n) :
    /\ "delete" \in Hazards
    /\ Send(c, [ verb |-> "delete", target |-> n, image |-> Absent,
                 note |-> Absent, external |-> FALSE, ifMatch |-> e ])

(* GET: one read of the store, whose answer the client keeps. *)
Get(c, n) ==
  /\ pc[c] = "idle"
  /\ known[c][n] # store[n]
  /\ known' = [known EXCEPT ![c][n] = store[n]]
  /\ UNCHANGED <<store, running, pc, call, pre, outcome, audit, touched>>

-----------------------------------------------------------------------------
(* create_adapter and create_tool.                                         *)

(* authorize, then the name, the env names and the Location header. *)
CreateAdmit(c) ==
  /\ At(c, "create", "admit")
  /\ \/ ~Granted(c) /\ Decide(c, "forbidden")
     \/ Granted(c) /\ Decide(c, "invalid")
     \/ Granted(c) /\ Goto(c, "read") /\ UNCHANGED <<call, pre, outcome>>
  /\ UNCHANGED <<store, running, known, audit, touched>>

CreateCheck(c) ==
  /\ At(c, "create", "read")
  /\ \/ /\ IF store[call[c].target] # Absent
             THEN Decide(c, "conflict")
             ELSE Goto(c, "put") /\ UNCHANGED <<call, pre, outcome>>
        /\ UNCHANGED <<store, running, known, audit, touched>>
     \/ StoreFails(c)

(* put is an upsert: nothing checks again that the name is free. *)
CreatePut(c) ==
  /\ At(c, "create", "put")
  /\ \/ /\ store' = [store EXCEPT ![call[c].target] = NewRecord(call[c])]
        /\ Touch(c)
        /\ IF call[c].external
             THEN Decide(c, "ok")
             ELSE Goto(c, "apply") /\ UNCHANGED <<call, pre, outcome>>
        /\ UNCHANGED <<running, known, audit>>
     \/ StoreFails(c)

CreateApply(c) ==
  /\ At(c, "create", "apply")
  /\ \/ /\ running' = [running EXCEPT ![call[c].target] = call[c].image]
        /\ Decide(c, "ok")
     \/ /\ \E o \in ApplyErrors : outcome' = [outcome EXCEPT ![c] = o]
        /\ Goto(c, "rollback")
        /\ UNCHANGED <<running, call, pre>>
  /\ UNCHANGED <<store, known, audit, touched>>

(* Mutant: the error leaves the handler before it is audited. *)
CreateRollbackUnaudited(c) ==
  /\ At(c, "create", "rollback")
  /\ store' = [store EXCEPT ![call[c].target] = Absent]
  /\ Return(c, outcome[c])
  /\ UNCHANGED <<running, known, audit, touched>>

(* The record is taken back, whoever wrote it; an error here is ignored,    *)
(* and the response is the error of apply.                                 *)
CreateRollback(c) ==
  /\ At(c, "create", "rollback")
  /\ \/ store' = [store EXCEPT ![call[c].target] = Absent]
     \/ "storeError" \in Hazards /\ UNCHANGED store
  /\ Decide(c, outcome[c])
  /\ UNCHANGED <<running, known, audit, touched>>

-----------------------------------------------------------------------------
(* update_adapter and update_tool.                                         *)

(* authorize, then the env names (audited), then If-Match (not audited). *)
UpdateAdmit(c) ==
  /\ At(c, "update", "admit")
  /\ \/ ~Granted(c) /\ Decide(c, "forbidden")
     \/ Granted(c) /\ Decide(c, "invalid")
     \/ Granted(c) /\ Return(c, "invalid")
     \/ Granted(c) /\ Goto(c, "read") /\ UNCHANGED <<call, pre, outcome>>
  /\ UNCHANGED <<store, running, known, audit, touched>>

UpdateRead(c) ==
  LET rec == store[call[c].target] IN
  /\ At(c, "update", "read")
  /\ \/ rec = Absent /\ Return(c, "notFound")
     \/ rec # Absent /\ ~PreconditionHolds(call[c], rec) /\ Decide(c, "conflict")
     \/ /\ rec # Absent /\ PreconditionHolds(call[c], rec)
        /\ Goto(c, "put")
        /\ pre' = [pre EXCEPT ![c] = rec]
        /\ UNCHANGED <<call, outcome>>
     \/ "storeError" \in Hazards /\ Return(c, "error")
  /\ UNCHANGED <<store, running, known, audit, touched>>

(* An upsert again: the record written comes from what was read before. *)
UpdatePut(c) ==
  LET rec == Merged(pre[c], call[c]) IN
  /\ At(c, "update", "put")
  /\ \/ /\ store' = [store EXCEPT ![call[c].target] = rec]
        /\ Touch(c)
        /\ IF DeploymentChanged(pre[c], rec) /\ ~rec.external
             THEN Goto(c, "apply") /\ UNCHANGED <<call, pre, outcome>>
             ELSE Decide(c, "ok")
        /\ UNCHANGED <<running, known, audit>>
     \/ StoreFails(c)

(* Mutant: the spec is made from the record that was read. *)
UpdateApplyOld(c) ==
  /\ At(c, "update", "apply")
  /\ \/ /\ running' = [running EXCEPT ![call[c].target] = pre[c].image]
        /\ Decide(c, "ok")
     \/ \E o \in ApplyErrors : Decide(c, o) /\ UNCHANGED running
  /\ UNCHANGED <<store, known, audit, touched>>

(* On failure the record stays as it was put. *)
UpdateApply(c) ==
  /\ At(c, "update", "apply")
  /\ \/ /\ running' = [running EXCEPT ![call[c].target] =
                         Merged(pre[c], call[c]).image]
        /\ Decide(c, "ok")
     \/ \E o \in ApplyErrors : Decide(c, o) /\ UNCHANGED running
  /\ UNCHANGED <<store, known, audit, touched>>

-----------------------------------------------------------------------------
(* delete_adapter and delete_tool.                                         *)

(* Mutant: the decision of the policy engine is not looked at. *)
DeleteAdmitAnyone(c) ==
  /\ At(c, "delete", "admit")
  /\ Goto(c, "read")
  /\ UNCHANGED <<store, running, known, call, pre, outcome, audit, touched>>

DeleteAdmit(c) ==
  /\ At(c, "delete", "admit")
  /\ \/ ~Granted(c) /\ Decide(c, "forbidden")
     \/ Granted(c) /\ Goto(c, "read") /\ UNCHANGED <<call, pre, outcome>>
  /\ UNCHANGED <<store, running, known, audit, touched>>

(* Here a missing record is audited, and If-Match is parsed after the read. *)
DeleteRead(c) ==
  LET rec == store[call[c].target] IN
  /\ At(c, "delete", "read")
  /\ \/ rec = Absent /\ Decide(c, "notFound")
     \/ rec # Absent /\ Return(c, "invalid")
     \/ rec # Absent /\ ~PreconditionHolds(call[c], rec) /\ Decide(c, "conflict")
     \/ /\ rec # Absent /\ PreconditionHolds(call[c], rec)
        /\ Goto(c, IF rec.external THEN "remove" ELSE "teardown")
        /\ pre' = [pre EXCEPT ![c] = rec]
        /\ UNCHANGED <<call, outcome>>
     \/ "storeError" \in Hazards /\ Return(c, "error")
  /\ UNCHANGED <<store, running, known, audit, touched>>

(* Mutants of DeleteTeardown: a provider error is ignored like a NotFound; *)
(* or it sends the handler back to try again.                              *)
DeleteTeardownBestEffort(c) ==
  /\ At(c, "delete", "teardown")
  /\ \/ running' = [running EXCEPT ![call[c].target] = Absent]
     \/ ProviderFails /\ UNCHANGED running
  /\ Touch(c)
  /\ Goto(c, "remove")
  /\ UNCHANGED <<store, known, call, pre, outcome, audit>>

DeleteTeardownRetrying(c) ==
  /\ At(c, "delete", "teardown")
  /\ \/ /\ running' = [running EXCEPT ![call[c].target] = Absent]
        /\ Touch(c)
        /\ Goto(c, "remove")
     \/ ProviderFails /\ Goto(c, "read") /\ UNCHANGED <<running, touched>>
  /\ UNCHANGED <<store, known, call, pre, outcome, audit>>

(* A provider that has no such deployment counts as a success. *)
DeleteTeardown(c) ==
  /\ At(c, "delete", "teardown")
  /\ \/ /\ running' = [running EXCEPT ![call[c].target] = Absent]
        /\ Touch(c)
        /\ Goto(c, "remove")
        /\ UNCHANGED <<call, pre, outcome>>
     \/ ProviderFails /\ Decide(c, "error") /\ UNCHANGED <<running, touched>>
  /\ UNCHANGED <<store, known, audit>>

(* Mutant: the removal is best effort, like that of a rollback. *)
DeleteRemoveBestEffort(c) ==
  /\ At(c, "delete", "remove")
  /\ \/ store' = [store EXCEPT ![call[c].target] = Absent]
     \/ "storeError" \in Hazards /\ UNCHANGED store
  /\ Touch(c)
  /\ Decide(c, "ok")
  /\ UNCHANGED <<running, known, audit>>

DeleteRemove(c) ==
  /\ At(c, "delete", "remove")
  /\ \/ /\ store' = [store EXCEPT ![call[c].target] = Absent]
        /\ Touch(c)
        /\ Decide(c, "ok")
        /\ UNCHANGED <<running, known, audit>>
     \/ StoreFails(c)

-----------------------------------------------------------------------------
(* What the client has in hand once the response reaches it. *)
Representation(c) ==
  IF call[c].verb = "create" THEN NewRecord(call[c])
  ELSE IF call[c].verb = "update" THEN Merged(pre[c], call[c])
  ELSE Absent

(* emit_audit (its own failure is only logged), then the response. *)
Finish(c) ==
  /\ pc[c] = "audit"
  /\ audit' = [audit EXCEPT ![c] = IF outcome[c] = "ok" THEN "allow" ELSE "deny"]
  /\ known' = IF outcome[c] = "ok"
                THEN [known EXCEPT ![c][call[c].target] = Representation(c)]
                ELSE known
  /\ Goto(c, "idle")
  /\ call' = [call EXCEPT ![c] = Absent]
  /\ pre' = [pre EXCEPT ![c] = Absent]
  /\ UNCHANGED <<store, running, outcome, touched>>

(* The client hangs up: the handler's future is dropped at its next await. *)
Disconnect(c) ==
  /\ "disconnect" \in Hazards
  /\ pc[c] # "idle"
  /\ Return(c, "none")
  /\ UNCHANGED <<store, running, known, audit, touched>>

(* The gateway restarts: every handler is gone, the provider's workloads    *)
(* are not, and the records survive only in a durable store.                *)
Crash ==
  /\ "crash" \in Hazards
  /\ store' = IF "volatile" \in Hazards
                THEN [n \in Resources |-> Absent] ELSE store
  /\ pc' = [c \in Clients |-> "idle"]
  /\ call' = [c \in Clients |-> Absent]
  /\ pre' = [c \in Clients |-> Absent]
  /\ outcome' = [c \in Clients |-> IF pc[c] = "idle" THEN outcome[c] ELSE "none"]
  /\ UNCHANGED <<running, known, audit, touched>>

SendRequest(c) ==
  \E n \in Resources : \/ SendCreateAdapter(c, n) \/ SendCreateTool(c, n)
                       \/ SendUpdateAdapter(c, n) \/ SendUpdateTool(c, n)
                       \/ SendDelete(c, n) \/ Get(c, n)

(* One step of the handler that serves the client's request. *)
Handle(c) ==
  \/ CreateAdmit(c) \/ CreateCheck(c) \/ CreatePut(c) \/ CreateApply(c)
  \/ CreateRollback(c)
  \/ UpdateAdmit(c) \/ UpdateRead(c) \/ UpdatePut(c) \/ UpdateApply(c)
  \/ DeleteAdmit(c) \/ DeleteRead(c) \/ DeleteTeardown(c) \/ DeleteRemove(c)
  \/ Finish(c)

Next ==
  \/ \E c \in Clients : SendRequest(c) \/ Handle(c) \/ Disconnect(c)
  \/ Crash

Spec == Init /\ [][Next]_vars

(* A task that is ready is polled, and every await of a handler returns:    *)
(* provider and store clients have timeouts of their own.                   *)
FairSpec == Spec /\ \A c \in Clients : WF_vars(Handle(c))

-----------------------------------------------------------------------------
(* Properties.                                                             *)

(* A running handler has its request; a create's body is complete; what an *)
(* update writes comes from a record that was read.                        *)
LocalsOK ==
  \A c \in Clients :
    /\ pc[c] # "idle" => call[c] \in Calls
    /\ pc[c] # "idle" /\ call[c].verb = "create"
         => call[c].image \in Images /\ call[c].note \in Notes
    /\ pc[c] \in {"put", "apply"} /\ call[c].verb = "update"
         => pre[c] \in Records
    /\ pc[c] = "audit" /\ outcome[c] = "ok" /\ call[c].verb = "update"
         => pre[c] \in Records

(* Every variable holds a value of its type, and so do a handler's locals  *)
(* at each point where the code relies on them (no unwrap of a None).      *)
TypeOK ==
  /\ store \in [Resources -> Records \cup {Absent}]
  /\ running \in [Resources -> Images \cup {Absent}]
  /\ known \in [Clients -> [Resources -> Records \cup {Absent}]]
  /\ pc \in [Clients -> Steps]
  /\ call \in [Clients -> Calls \cup {Absent}]
  /\ pre \in [Clients -> Records \cup {Absent}]
  /\ outcome \in [Clients -> Outcomes]
  /\ audit \in [Clients -> {"none", "allow", "deny"}]
  /\ touched \in [Clients -> BOOLEAN]
  /\ LocalsOK

(* S8 and B5: nothing runs that the store does not list as managed by the  *)
(* provider, so that a delete always reaches what was deployed.            *)
NoUntrackedWorkload ==
  \A n \in Resources :
    running[n] # Absent => store[n] # Absent /\ ~store[n].external

(* A request that is refused, for its caller, its body, its precondition   *)
(* or its target, has changed nothing, wherever the handler refused it; and *)
(* what has changed something was allowed by the policy engine.  The one   *)
(* refusal that comes too late is the provider's, of an image: a create    *)
(* then takes its record back, an update leaves the record it has put.     *)
(* (control_plane.rs 433-439, 579-583, 744-748, 878-881)                   *)
RejectionIsClean ==
  \A c \in Clients :
    /\ outcome[c] \in Rejections \ {"refused"} => ~touched[c]
    /\ touched[c] /\ pc[c] # "idle" => Granted(c)

(* Every request that changed something and is answered leaves one audit   *)
(* record, and it says "allow" exactly when the response says success.  (A *)
(* request that is dropped has no response, and may have no record.)       *)
ChangesAudited ==
  \A c \in Clients :
    pc[c] = "idle" /\ outcome[c] # "none" /\ touched[c]
      => audit[c] = IF outcome[c] = "ok" THEN "allow" ELSE "deny"

(* The ETag is a version: a record that is overwritten moves to the next   *)
(* revision, whoever overwrites it; it never goes back or stays.           *)
RevisionAdvances ==
  [][\A n \in Resources :
       store[n] # Absent /\ store'[n] # Absent /\ store'[n] # store[n]
         => store'[n].rev = store[n].rev + 1]_vars

(* Optimistic concurrency: a request with If-Match overwrites or removes   *)
(* the very representation its client was given with that ETag.            *)
IfMatchProtects ==
  [][\A c \in Clients :
       pc[c] \in {"put", "remove"} /\ pc'[c] # pc[c] /\ call[c].ifMatch # Absent
         => LET n == call[c].target IN
            store'[n] # store[n] => store[n] = known[c][n]]_vars

(* B6: when a handler reports success, the record is what it wrote and,    *)
(* if the provider manages it, what runs is what the record says.          *)
SuccessIsEffective ==
  [][\A c \in Clients :
       pc[c] = "audit" /\ pc'[c] = "idle" /\ audit'[c] = "allow"
         => LET n == call[c].target
                rep == Representation(c) IN
            /\ store[n] = rep
            /\ rep = Absent => running[n] = Absent
            /\ rep # Absent /\ ~rep.external => running[n] = rep.image]_vars

(* The registry as the data plane and the listing see it.  The rest of a   *)
(* record follows the request; its revision is the control plane's own.    *)
View(r) ==
  IF r = Absent THEN Absent
  ELSE [image |-> r.image, note |-> r.note, external |-> r.external]

ViewsOf(n) == [ image : Images, note : Notes,
                external : IF n \in Tools THEN {FALSE} ELSE BOOLEAN ]

R == INSTANCE Registry WITH
       Names <- Resources,
       Records <- [n \in Resources |-> ViewsOf(n)],
       Workloads <- [n \in Resources |-> Images],
       record <- [n \in Resources |-> View(store[n])],
       workload <- running

(* However requests overlap and fail, what they do together is what the    *)
(* data plane is prepared for: whole records of the API's making, of one   *)
(* name at a time, and never a record and a workload in one step.          *)
ImplementsRegistry == R!Spec

(* Every request is answered, whatever the store and the provider do.      *)
RequestsEnd ==
  \A c \in Clients : pc[c] # "idle" ~> pc[c] = "idle"
=============================================================================
