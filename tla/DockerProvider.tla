--------------------------- MODULE DockerProvider ---------------------------
(***************************************************************************)
(* The Docker deployment provider: apply and delete as sequences of calls  *)
(* to a Docker daemon that any number of handlers run at once.             *)
(*                                                                         *)
(* A resource (kind and name) stands for its container name                *)
(* mcp-oxide-<kind>-<name>, which no two resources share.  The control     *)
(* plane however rebuilds a handle whose id is the bare name.              *)
(***************************************************************************)
EXTENDS ImageRef

CONSTANTS
  Callers,             \* handlers that call the provider
  Resources,           \* adapters and tools
  Images,              \* image references, with the rest of the spec
  Bare,                \* the bare name of each resource
  Meaning,             \* what the reference of each image means
  RequireDigestPinning, AllowedRegistries,      \* DockerConfig
  Hazards              \* what the environment of the instance may do

HazardKinds ==
  { "overlap",       \* calls in flight together for one resource
    "respec",        \* an apply may change the spec of a deployed resource
    "bareHandle",    \* delete may get handle_for(name), as the control plane
                     \* makes it
    "inspectError", "pullError", "createError", "startError", "stopError",
    "removeError",   \* the daemon may fail that request
    "drop",          \* the caller's future may be dropped
    "exit" }         \* a container may stop by itself

Names == {Bare[r] : r \in Resources}
Ids == Resources \cup Names

ASSUME BareAssumption == /\ Bare \in [Resources -> Names]
                         /\ Names \cap Resources = {}
ASSUME ImagesAssumption == /\ DOMAIN Meaning = Images
                           /\ \A i \in Images : WellFormed(Meaning[i])
ASSUME ConfigAssumption == RequireDigestPinning \in BOOLEAN
ASSUME HazardsAssumption == Hazards \subseteq HazardKinds

VARIABLES
  containers,   \* the daemon: what container, if any, an id names
  job,          \* the call a handler makes, or Absent
  at            \* the step of the call

vars == <<containers, job, at>>

Containers == [image : Images, state : {"created", "running", "exited"}]
Jobs == [ op : {"apply", "delete"}, target : Resources, id : Ids,
          image : Images \cup {Absent} ]

ASSUME AbsentAssumption ==
  Absent \notin Images /\ Absent \notin Containers /\ Absent \notin Jobs

Steps == { "idle", "inspect", "pull", "create", "start", "stop", "remove",
           "ok", "error" }

Init ==
  /\ containers = [i \in Ids |-> Absent]
  /\ job = [c \in Callers |-> Absent]
  /\ at = [c \in Callers |-> "idle"]

Goto(c, step) == at' = [at EXCEPT ![c] = step]

(* ImageRef::parse and check_image_policy: an empty list of registries     *)
(* allows them all.                                                        *)
ImagePolicy(i) ==
  LET ref == Parse(Written(Meaning[i])) IN
  /\ ref # Absent
  /\ RequireDigestPinning => ref.digest # Absent
  /\ AllowedRegistries # {} => RegistryOf(ref.name) \in AllowedRegistries

HandleFor(r) == Bare[r]

Free(r) ==
  "overlap" \notin Hazards =>
    ~ \E c \in Callers : job[c] # Absent /\ job[c].target = r

Begin(c, r, j, step) ==
  /\ at[c] = "idle"
  /\ Free(r)
  /\ job' = [job EXCEPT ![c] = j]
  /\ Goto(c, step)
  /\ UNCHANGED containers

(* The spec of a resource is settled while it has a container or a call. *)
Settled(r, i) ==
  /\ containers[r] # Absent => containers[r].image = i
  /\ ~ \E c \in Callers : /\ job[c] # Absent /\ job[c].target = r
                         /\ job[c].image \notin {i, Absent}

CallApply(c, r, i) ==
  /\ "respec" \notin Hazards => Settled(r, i)
  /\ Begin(c, r, [op |-> "apply", target |-> r, id |-> r, image |-> i], "inspect")

CallDelete(c, r) ==
  \E id \in {r, HandleFor(r)} :
    /\ id = r \/ "bareHandle" \in Hazards
    /\ Begin(c, r, [op |-> "delete", target |-> r, id |-> id, image |-> Absent],
             "stop")

(* A container that runs is taken as it is, whatever it runs.  That the    *)
(* inspection fails is not told from "no such container".                  *)
Inspect(c) ==
  LET box == containers[job[c].id] IN
  /\ at[c] = "inspect"
  /\ \/ box # Absent /\ box.state = "running" /\ Goto(c, "ok")
     \/ box # Absent /\ box.state # "running" /\ Goto(c, "pull")
     \/ box = Absent /\ Goto(c, "pull")
     \/ "inspectError" \in Hazards /\ Goto(c, "pull")
  /\ UNCHANGED <<containers, job>>

(* Mutant: what can be pulled is taken for admitted. *)
PullUnchecked(c) ==
  /\ at[c] = "pull"
  /\ \/ Goto(c, "create")
     \/ "pullError" \in Hazards /\ Goto(c, "error")
  /\ UNCHANGED <<containers, job>>

(* Parse the reference, check the policy, pull the image. *)
Pull(c) ==
  /\ at[c] = "pull"
  /\ \/ ImagePolicy(job[c].image) /\ Goto(c, "create")
     \/ ~ImagePolicy(job[c].image) /\ Goto(c, "error")
     \/ "pullError" \in Hazards /\ Goto(c, "error")
  /\ UNCHANGED <<containers, job>>

(* A 409 means the name is taken: the container there is reused. *)
Create(c) ==
  /\ at[c] = "create"
  /\ \/ /\ containers[job[c].id] = Absent
        /\ containers' = [containers EXCEPT ![job[c].id] =
                            [image |-> job[c].image, state |-> "created"]]
        /\ Goto(c, "start")
     \/ /\ containers[job[c].id] # Absent
        /\ Goto(c, "start")
        /\ UNCHANGED containers
     \/ "createError" \in Hazards /\ Goto(c, "error") /\ UNCHANGED containers
  /\ UNCHANGED job

(* connect_network (its result is ignored), then start; that the endpoint  *)
(* cannot be resolved afterwards is ignored too.  An error leaves what was *)
(* created behind.                                                         *)
Start(c) ==
  /\ at[c] = "start"
  /\ \/ /\ containers[job[c].id] # Absent
        /\ containers' = [containers EXCEPT ![job[c].id].state = "running"]
        /\ Goto(c, "ok")
     \/ /\ containers[job[c].id] = Absent \/ "startError" \in Hazards
        /\ Goto(c, "error")
        /\ UNCHANGED containers
  /\ UNCHANGED job

(* Whatever stop answers, remove comes next. *)
Stop(c) ==
  LET box == containers[job[c].id] IN
  /\ at[c] = "stop"
  /\ Goto(c, "remove")
  /\ \/ /\ box # Absent /\ box.state = "running"
        /\ containers' = [containers EXCEPT ![job[c].id].state = "exited"]
     \/ /\ box # Absent => box.state # "running" \/ "stopError" \in Hazards
        /\ UNCHANGED containers
  /\ UNCHANGED job

(* Mutant: an error of remove is tolerated like an error of stop. *)
RemoveBestEffort(c) ==
  /\ at[c] = "remove"
  /\ Goto(c, "ok")
  /\ \/ containers' = [containers EXCEPT ![job[c].id] = Absent]
     \/ "removeError" \in Hazards /\ UNCHANGED containers
  /\ UNCHANGED job

(* Forced; a 404 is a success. *)
Remove(c) ==
  /\ at[c] = "remove"
  /\ \/ /\ containers' = [containers EXCEPT ![job[c].id] = Absent]
        /\ Goto(c, "ok")
     \/ "removeError" \in Hazards /\ Goto(c, "error") /\ UNCHANGED containers
  /\ UNCHANGED job

(* Mutant: the call is answered and its job kept. *)
AnswerKeepingJob(c) ==
  /\ at[c] \in {"ok", "error"}
  /\ Goto(c, "idle")
  /\ UNCHANGED <<containers, job>>

(* The answer reaches the caller. *)
Answer(c) ==
  /\ at[c] \in {"ok", "error"}
  /\ Goto(c, "idle")
  /\ job' = [job EXCEPT ![c] = Absent]
  /\ UNCHANGED containers

Drop(c) ==
  /\ "drop" \in Hazards
  /\ at[c] # "idle"
  /\ Goto(c, "idle")
  /\ job' = [job EXCEPT ![c] = Absent]
  /\ UNCHANGED containers

Exit(i) ==
  /\ "exit" \in Hazards
  /\ containers[i] # Absent /\ containers[i].state = "running"
  /\ containers' = [containers EXCEPT ![i].state = "exited"]
  /\ UNCHANGED <<job, at>>

Work(c) ==
  \/ Inspect(c) \/ Pull(c) \/ Create(c) \/ Start(c) \/ Stop(c) \/ Remove(c)
  \/ Answer(c)

Next ==
  \/ \E c \in Callers :
       \/ \E r \in Resources :
            CallDelete(c, r) \/ \E i \in Images : CallApply(c, r, i)
       \/ Work(c) \/ Drop(c)
  \/ \E i \in Ids : Exit(i)

Spec == Init /\ [][Next]_vars

-----------------------------------------------------------------------------
(* Every variable holds a value of its type, and a call knows its job.     *)
TypeOK ==
  /\ containers \in [Ids -> Containers \cup {Absent}]
  /\ job \in [Callers -> Jobs \cup {Absent}]
  /\ at \in [Callers -> Steps]
  /\ \A c \in Callers : job[c] = Absent <=> at[c] = "idle"

(* Only images the policy admits ever get a container, however the calls   *)
(* of several handlers interleave and whichever container one reuses.      *)
OnlyAdmittedImages ==
  \A i \in Ids : containers[i] # Absent => ImagePolicy(containers[i].image)

(* The policy decides by what a reference means, though it reads how it is *)
(* written: whatever runs is pinned if it must be, and comes from an       *)
(* allowed registry.  (image_ref.rs 1-12, 27-85)                           *)
Admissible(m) ==
  /\ RequireDigestPinning => m.digest # Absent
  /\ AllowedRegistries # {} => MeantRegistry(m) \in AllowedRegistries

OnlyMeantImages ==
  \A i \in Ids : containers[i] # Absent => Admissible(Meaning[containers[i].image])

(* And it refuses nothing else: a call that has come to the policy is let  *)
(* through exactly if its image is pinned where it must be and comes from  *)
(* an allowed registry, where one that names no registry comes from        *)
(* Docker's.  (docker.rs 38-43, 144-166)                                   *)
PolicyByMeaning ==
  \A c \in Callers : at[c] = "pull" =>
    (ImagePolicy(job[c].image) <=> Admissible(Meaning[job[c].image]))

(* B6 counts on it: an apply that answers Ok leaves the container with the *)
(* spec it was given.                                                      *)
ApplyInstallsSpec ==
  [][\A c \in Callers :
       at[c] # "ok" /\ at'[c] = "ok" /\ job[c].op = "apply"
         => containers'[job[c].target].image = job[c].image]_vars

(* B5 counts on it: a delete that answers Ok leaves no container.          *)
DeleteTearsDown ==
  [][\A c \in Callers :
       at[c] # "ok" /\ at'[c] = "ok" /\ job[c].op = "delete"
         => containers'[job[c].target] = Absent]_vars

(* A container is a deployment once it has been started; until then it is  *)
(* prepared.                                                               *)
DeployedImage(r) ==
  IF containers[r] = Absent \/ containers[r].state = "created"
    THEN Absent ELSE containers[r].image

PreparedImage(r) ==
  IF containers[r] # Absent /\ containers[r].state = "created"
    THEN containers[r].image ELSE Absent

WorkOf(c) ==
  IF job[c] = Absent THEN Absent
  ELSE [ op |-> job[c].op, target |-> job[c].target,
         handle |-> IF job[c].id = job[c].target THEN "own" ELSE "other",
         image |-> job[c].image,
         result |-> IF at[c] \in {"ok", "error"} THEN at[c] ELSE "pending" ]

Provider == INSTANCE DeploymentProvider WITH
  deployed <- [r \in Resources |-> DeployedImage(r)],
  prepared <- [r \in Resources |-> PreparedImage(r)],
  work <- [c \in Callers |-> WorkOf(c)]

ASSUME NoWorkAssumption == Absent \notin Provider!Works

(* Whatever specs and handles the calls come with, however they overlap,   *)
(* whichever requests the daemon fails, whether callers go away and        *)
(* containers exit, the provider does of each call exactly what            *)
(* DeploymentProvider says: an Ok delete with the handle that apply gave   *)
(* leaves nothing, a failed one leaves everything, and no apply replaces   *)
(* an image.  (docker.rs 274-430, 444-519)                                 *)
ImplementsProvider == Provider!Spec
=============================================================================
