# A verification development for mcp-oxide

mcp-oxide is a gateway for MCP servers: an HTTP front end that registers
*adapters* (MCP servers) and *tools*, deploys the managed ones as containers,
and forwards authorised calls to them. These modules model the parts where its
correctness is decided: the request handlers that share a metadata store, a
deployment provider and an audit trail with no lock between them, and the small
algorithms they decide by. TLC checks
them on small instances, and TLAPS proves the safety properties for every value
of the constants.

All source paths are relative to the root of the repository; `G/` stands for
`crates/gateway/src/`.

## 1. The system

| Component | State | Operations that change state | Talks to |
|---|---|---|---|
| Control plane (`G/routes/control_plane.rs`, `control_plane_helpers.rs`) | none of its own: a handler's local variables between awaits | POST, PUT, DELETE of `/adapters` and `/tools` | metadata store, deployment provider, policy engine, audit sink |
| Data plane (`G/routes/data_plane.rs`, `tool_router.rs`, `G/proxy.rs`, `G/state.rs`) | none of its own: a handler's local variables | `POST /adapters/{n}/mcp`, `POST /mcp` (`tools/call`, `tools/list`) | the same, and the upstream MCP servers |
| Metadata store (`crates/metadata`) | records of adapters and tools, in memory or in SQLite | put (an upsert), delete | — |
| Deployment provider (`crates/deployment/src/docker.rs`, `noop.rs`) | none: the Docker daemon has the containers | apply, delete | Docker daemon |
| Identity (`crates/identity`) | the cache of the issuer's signing keys | refresh, on an unknown key or an old cache | the OIDC issuer |
| Policy engine (`crates/authz`) | the rules, read once | — | — |
| Session store (`crates/session`) | bindings of sessions to backends, with an expiry | bind, drop | — (no route uses it yet) |
| Audit sink (`crates/audit`) | — | emit (a log line; a failure is only logged) | — |
| Bootstrap, configuration, health, secrets, logging, test support | — | run once, or read only | — |

Handlers are futures on tokio's multi-threaded runtime. They share `AppState`
(`G/state.rs:48`), a set of `Arc`s, and take no lock and open no transaction
across an await. So:

* **Interleaving.** Between any two awaits of a handler any other request may
  take steps. What a handler read is a copy in a local variable, stale from the
  next await on. `put` is an upsert, with no comparison of revisions.
* **Failure.** Each metadata or provider call can fail; a handler leaves through
  `?`, through an explicit error path with an audit record, or goes on. The order
  of record, workload and audit record decides what a failure leaves behind.
* **Dropping.** hyper drops a handler's future when its client hangs up, and a
  restart drops them all. Either can fall between a put and its apply.
* **Ordering across planes.** A call resolves a record, asks the policy engine,
  asks the provider for an endpoint and forwards, while the control plane replaces
  the record and its workload.

What makes each component correct:

* *Control plane*: nothing runs that no record lists (S8 and B5 in the comments of
  `control_plane.rs`); a request refused before its first effect changes nothing, and
  only the provider's refusal of an image comes later; a change leaves an audit record; an ETag is a version and If-Match protects it; a success means what it
  says (B6); every request ends.
* *Deployment provider*: each call takes effect at points that can be named, in any
  order of overlapping calls; a delete that fails leaves what was there; only images
  the policy admits get a container.
* *Data plane*: a call is forwarded only under a record that lets its caller
  through, and only to where the name led while the call ran; an audit record says
  so; every call ends.
* *tools/list*: a page shows only what its client may call (B3 in
  `tool_router.rs`); following the cursors skips or repeats a tool only if the list
  itself lost or gained one, and each page moves on.
* *Policy engine*: rules only allow, so a right is never lost with another role.
* *Identity*: a key the issuer has withdrawn goes out of use in bounded time, and a
  key it has put in force is found, however refreshes overlap.
* *Image references*: the policy judges the image that is pulled, however its
  reference is written.
* *Registry* (store and provider together): a step changes one name in one of the
  two, so readers must cope with every order of such steps.
* *Gateway* (both planes): a change that was answered is in force for the calls that
  begin after it, and no later.

## 2. The modules

| Module | What it is |
|---|---|
| `Registry` | what the readers of store and provider may rely on: any step on one name in one of the two |
| `ControlPlane` | the control-plane handlers, one action per await, over the store and an atomic provider |
| `MCControlPlane` | its instances |
| `ControlPlane_proofs` | types, refusals, audit, revisions, no untracked workload |
| `ControlPlaneVersions_proofs` | ETags and the meaning of a success; EXTENDS `ControlPlane_proofs` |
| `ControlPlaneRegistry_proofs` | `ControlPlane` implements `Registry`; EXTENDS `ControlPlane_proofs` |
| `DeploymentProvider` | the abstract contract: what a provider that reuses what it finds does of each call |
| `ImageRef` | how references to images are written and read, as operators |
| `DockerProvider` | the Docker provider as sequences of calls to a daemon; refines `DeploymentProvider`, EXTENDS `ImageRef` |
| `MCDockerProvider` | its instances |
| `DockerProvider_proofs` | types, image policy, and the refinement |
| `YamlRbac` | the policy engine and `required_roles`, as operators |
| `DataPlane` | calls of adapters and tools, with `Registry` as environment |
| `MCDataPlane` | its instance; whom a record lets through is computed by `YamlRbac` |
| `DataPlane_proofs` | types, grants, routing, audit |
| `Gateway` | control plane and data plane of one process over one store and provider; EXTENDS `ControlPlane`, INSTANCEs `DataPlane` |
| `MCGateway` | its instance |
| `Gateway_proofs` | the gateway implements `DataPlane`; changes take effect; EXTENDS the last two modules on `ControlPlane` and INSTANCEs `DataPlane_proofs` |
| `ToolListing` | `tools/list` and a client that follows its cursors; EXTENDS `YamlRbac`, with `Registry` as environment |
| `MCToolListing` | its instance |
| `ToolListing_proofs` | types, bounds, visibility, what pages skip and repeat, monotone rights |
| `SigningKeys` | the issuer's keys, the OIDC provider's cache of them, and the requests that refresh it |
| `MCSigningKeys` | its instance |
| `SigningKeys_proofs` | types, withdrawn keys, settled keys |

How they compose:

* `ControlPlane` treats a provider call as one step that has its effect or none, and
  takes an Ok at its word: an apply's image runs, a delete's workload is gone. What the
  Docker provider does of a call is the module `DeploymentProvider`, which
  `DockerProvider` is shown to implement with no condition. It promises less than
  `ControlPlane` assumes, in two places: an apply reuses what is there, and a delete
  with another handle finds nothing. `ApplyInstallsSpec` and `DeleteTearsDown` state
  what the control plane counts on, and section 6 has the two runs that break them.
* `DataPlane` and `ToolListing` read what `ControlPlane` writes. Both INSTANCE
  `Registry` as their environment, and `ControlPlane` is shown to implement
  `Registry` (`ImplementsRegistry`), with no condition at all. So what is shown of
  calls and listings holds beside the control plane, beside several gateways on one
  store, and after a restart.
* `Gateway` runs `ControlPlane` and `DataPlane` together, the environment of the one
  replaced by the handlers of the other. It is proved to implement `DataPlane`
  (`ServesCalls`, by the theorem `ServesCallsThroughout`), so every theorem about calls
  holds of it, and it states what only the two together can promise:
  `AcknowledgedInForce`, `ReachesNewImage`.
* The decision of the policy engine enters `ToolListing` as it is computed by
  `YamlRbac`, and `DataPlane` as two sets of callers per record, which its instance
  computes by `YamlRbac`.

### ControlPlane

State: `store` (the metadata store) and `running` (what the provider runs), by
name; per client `pc`, `call` and `pre` are the handler's place, request and the
record it read; `outcome` and `audit` are the response and the audit record;
`known` is the representation with the ETag the client was last given; `touched`
is a history variable: has the request changed anything.

A record is `[image, note, external, rev]`. `image` stands for all fields that
`deployment_changed` (`control_plane.rs:857`) compares, taken together; `note` for
all others; `external` for "has an upstream, so the provider is not asked"; `rev`
is the revision behind the ETag. Each action is one await, with the code up to
the next one:

| Action | Code (`control_plane.rs`) |
|---|---|
| `SendCreateAdapter` … `SendDelete`, `Get` | the clients; an If-Match is the ETag of `known` |
| `CreateAdmit`, `CreateCheck`, `CreatePut`, `CreateApply`, `CreateRollback` | 350–441, 671–755 |
| `UpdateAdmit`, `UpdateRead`, `UpdatePut`, `UpdateApply` | 481–592, 790–885 |
| `DeleteAdmit`, `DeleteRead`, `DeleteTeardown`, `DeleteRemove` | 594–648, 893–945 |
| `Finish` | `emit_audit` and the response |
| `Disconnect`, `Crash` | a dropped future; a restart |

Adapters and tools share their actions. They differ where the code does: a tool
has no upstream (`Tools`). The paths that end without an audit record (`?`) are
`Return`, those with one are `Decide`. An apply fails with one of `ApplyErrors`:
`error`, or `refused` when the image policy or the parser turns the image down
(`docker.rs:144–166`), which the client is answered as 400 invalid_params
(`G/error.rs:36–38`) although the record had been put. The handlers' small asymmetries are kept: a
missing record is audited by a delete and not by an update; an If-Match that does
not parse is found before the read by an update and after it by a delete.

### Registry

State: `record` (metadata store) and `workload` (provider), by name. `Put`,
`Remove`, `Deploy`, `Teardown` change one name in one of them, to a value the
constants allow for that name; `Forget` is a restart with the in-memory store.
`ControlPlane` maps onto it by dropping the revision of a record (`View`); a tool's
record is always managed (`ViewsOf`).

### DockerProvider and ImageRef

State: `containers` (what the daemon has, by container name: an image and one of
created, running, exited), `job` (the call a handler makes) and `at` (its step).
Actions follow the requests to the daemon: `Inspect`, `Pull` (with the image
policy), `Create`, `Start` for apply (`docker.rs:444–475`), `Stop`, `Remove` for
delete (477–519). A container name is `mcp-oxide-<kind>-<name>`, unique per
resource; the control plane rebuilds handles from the bare name
(`control_plane_helpers.rs:182`), which is what the constant `Bare` is for. In
the refinement a container counts as `deployed` once it has been started; what is
created and not started, as a failed start leaves it, is `prepared`. A call's `handle`
is `own` if it names the resource's container and `other` if it does not.

An image means a host, a path, a tag and a digest, some of them left out
(`Meaning`). `Written` writes the reference as a sequence of tokens, in which a
colon may be that of a port, of a tag or of a digest; `Parse` and `RegistryOf` read
it as `ImageRef::parse` and `check_image_policy` do.

### DataPlane

State: `record` and `workload` by name (registry); per caller `step`, `call`,
`rec`, `url`, `verdict`, `audit`, `reply`, `forwarded` (the handler), and two
history variables, `seen` and `ran`: the records that were in force and the
workloads that were running for the name since the call began. For a name of the
configuration file what is in force is the file's record, whatever is registered
(`InForce`, `Routable`). A record is reduced to its upstream and the sets of
callers that the policy engine and `required_roles` let through. `ResolveStatic`,
`ResolveRecord`, `ResolveWorkload` are `AppState::resolve_adapter`
(`state.rs:142–181`), `LookupTool` and `ToolEndpoint` the lookups of `tools/call`;
`Authorize`, `Forward` and `Audit` serve both. The order differs: an adapter's
endpoint is resolved before authorisation, a tool's after; and an error of the policy
engine is an internal error of the adapter route (verdict `error`) and a denial of
the tool route. `RegistryStep` is any
step of `Registry`.

### Gateway

State: that of `ControlPlane` under its own names, that of `DataPlane` under names
that begin with `d` where they would clash, and three histories. `told` is, by name,
what the last change left, as its client was told: a success says what (`Hear`), a
refusal leaves it as it was, an error, a hang-up and a restart in the middle of a
request leave it open (`Unknown`). `installed` is, in the same way, the image of the
last create or update to deploy one (`Ships`); a success that deploys nothing keeps
it, a delete forgets it. `bound` is, by caller, what was told of the name of the call
when the call began, unless a request for that name was under way then or has begun
since (`Unsettle`).

There is nothing between the planes in the code but the store and the provider
(`state.rs:48`), so a call sees of a record what `RecordOf` leaves of it: whether it
has an upstream, which one, and whom its tags and required_roles let in. The last
two are what the constant `Says` makes of a note. `ControlStep` is one step of a
control plane request, seen by the calls in flight (`Observe`), `Restart` the end of
the process, `BeginCall` and `HandleCall` the steps of a call. A restart comes when
the calls in flight have been dropped, each by a `Disconnect` of its own: a caller
cannot tell in which order.

### YamlRbac

`decide`, `rule_matches`, `action_glob_matches`, `roles_allowed` and
`required_roles_satisfied` as operators on sets. An action is a sequence of tokens
and a pattern its text and the kind of its wildcard, so that the three cases of
the glob are told apart without characters.

### ToolListing

State: `record` (the store's tools); per client `step`, `size`, `snapshot` (the
handler: the page size, the list it has read), `page` and `cursor` (the answer),
`slice` (the offsets the page was cut between, and the sum they come from), `walk` (is
the client under way, at the end, cut off, or `stray`), and histories: `visible` and `first` (the lists the last
and the first page were cut from), `listed` (the tools of all pages), `drift` (has
a list on the way lost or gained a tool, has a page repeated one), `callable`.
Tools are numbered in the order of their names, which both stores list by
(`BTreeMap`, `ORDER BY name`). `Authorize`, `List`, `Filter` are the awaits of
`handle_tools_list`; each page filters the whole list anew, then cuts it at the
cursor, an offset. A client may follow the cursors it is given (`Start`, `Continue`) or
send any other usize (`Stray`; `Wrap` is 2^64 in the code). For one near the greatest
usize the sum of cursor and page size is no usize: then the request's task panics where
additions are checked; where they wrap the slice is out of bounds, and the release
profile's `panic = "abort"` (`Cargo.toml:109`) ends the process (`Panic`, `Die`).

### SigningKeys

State: `now`; `from` and `until` (when the issuer put each key in force and took
it back); `cache`; per request `step`, `token`, `found` (the key of the first
lookup), `asked` and `got` (its fetch), and histories. In `cache`, `fetchedAt` is
the code's `fetched_at`, and `at`, when the answer was current, is a history. The
cache is behind a lock that is held for one read or write, and requests run on
several threads, so each of these is an action: `Lookup`, `Stale` (`cache_stale`),
`Answer` (the issuer's), `Write`, `Retry`. Time may pass while a request waits for
the issuer, up to the HTTP client's timeout; it stands still between `Write` and
`Retry`, where the code has no await. `Incoming` and `Outgoing` are the keys the issuer
may yet put in force and take back; the theorems hold for any.

### Hazards as a constant

Each module has a constant `Hazards`, a set of named things the environment may
do: overlapping requests, deletes, errors of the store, the provider and the
daemon, hang-ups, restarts. A run or a theorem says which it allows. This is how
the development states *when* a property holds: the weakest assumption found for
it is a condition on `Hazards`, and the run next to it that drops the condition
gives the counterexample.

## 3. The properties

Control plane: `NoUntrackedWorkload` (S8, B5: what runs has a managed record);
`RejectionIsClean` (a refusal comes before the first effect, but for the provider's
refusal of an image, and effects come after a grant); `ChangesAudited` (a change that was answered is on record, as what it was
answered); `RevisionAdvances` (an overwrite is to the next
revision); `IfMatchProtects` (an If-Match overwrites the representation its client
holds, not merely one with that number); `SuccessIsEffective` (the record is
stored and its image runs); `RequestsEnd`.

`ImplementsRegistry` (whatever overlaps and fails, one name in one system at a time).

Gateway: `AcknowledgedInForce` (a call that begins after a
create, update or delete was answered, and is not overtaken by another, is forwarded
only if what was answered admits its caller, to where it says: no stale record is
served after a delete, a change of roles or of upstream); `ReachesNewImage` (and a
call that is sent to a workload reaches the image of the last deployment that was
answered, with the provider as its contract has it; a later update that changes no
image, or is refused before its put, does not get in its way; one that fails, or whose
image the provider refuses, does). `ServesCalls` (the registry changes as the data plane
is prepared for, so calls are what `DataPlane` says) has a theorem and no run.

Docker provider: `OnlyAdmittedImages`; `OnlyMeantImages` (what runs is pinned and
from an allowed registry by what its reference means, not only by how it is read);
`PolicyByMeaning` (nor is an image refused that the policy means to admit);
`ImplementsProvider` (whatever overlaps, fails, is dropped or exits, an image is never
replaced, an Ok delete with its own handle leaves nothing, and a failed call changes at
most what is prepared); `ApplyInstallsSpec` and `DeleteTearsDown` state what the control
plane relies on, for the two runs that break them.

Data plane: `ForwardedUnderGrant`; `RoutedByLiveState` (a call goes to the upstream
of a record of its name, or to a workload of that name if a record without an
upstream was in force); `ForwardsAudited` (a client
is told what came of its call only if the call is on record as allowed; one on
record as denied reached no upstream), `CallsEnd`.

Listing: `SliceInBounds` (the offsets do not cross, whatever number comes as a cursor and
though the list may be shorter than it; the exception is a cursor whose sum with the page
size is no usize); `PagesAdvance` (each page that is not the last moves the cursor on); `OnlyCallableListed` (B3); `NothingSkipped` and `NothingRepeated`
(a change of the registry costs a client no more than it must: adding a tool never
hides one, removing a tool never repeats one); `MoreRolesSeeMore`; `WalksEnd` (however
often tools go and come back; the tools there can be are bounded, so it says nothing of
a list that grows for ever).

Signing keys: `WithdrawnKeysExpire` (within the time to live and a timeout, with
two named exceptions); `SettledKeysKnown` (no token is refused for an unknown key
that has been in force for longer than a fetch takes); `ValidationsEnd` (after one
fetch at most, whatever other requests write meanwhile).

Each module has one type invariant, which also says what a handler's locals hold
at each step.

## 4. The runs

| Run | Shows | Bounds |
|---|---|---|
| `gateway` | types, `NoUntrackedWorkload`, `AcknowledgedInForce`, `RevisionAdvances`, `ReachesNewImage` while requests for one name do not overlap, with deletes, store and provider errors, refused images, hang-ups of both planes and restarts of a durable store | 1 client, 1 caller, 1 adapter, 2 images, 2 notes (one lets the caller in; the other, with another upstream, shuts it out), revision ≤ 2; symmetric in images; `OvertakenOnce`; 2.0 million states |
| `cp_concurrent` | `RejectionIsClean`, `ChangesAudited`, `ImplementsRegistry`, `RequestsEnd` with overlapping requests, deletes, provider errors, refused images, hang-ups and restarts; one client may not delete | 2 clients, 1 tool, 1 image, revision ≤ 2; 0.3 million states |
| `cp_etags` | `IfMatchProtects`, `SuccessIsEffective` without overlap, deletes or provider errors; store errors happen | 2 clients, 1 adapter, 2 images, revision ≤ 3; symmetric in clients and images |
| `docker_implements` | types, `OnlyAdmittedImages`, `OnlyMeantImages`, `PolicyByMeaning`, `ImplementsProvider` with overlapping calls, specs that change, rebuilt handles, every daemon error, dropped calls and containers that exit | 2 handlers, 1 adapter, 24 images: no host, a host, a host with a port; a path of one part or of two; with and without tag and digest; 0.36 million states |
| `dp_calls` | types, `RoutedByLiveState`, `ForwardsAudited`, `ForwardedUnderGrant`, `CallsEnd` with every hazard | 1 caller; a registered adapter (3 records), one of the file that is registered too, a tool (3 records) |
| `listing` | types, `SliceInBounds`, `PagesAdvance`, `OnlyCallableListed`, `NothingSkipped`, `NothingRepeated`, `MoreRolesSeeMore`, `WalksEnd` with every hazard | 1 client, 3 tools, one of which it may call or not; sizes asked 0, 1, 5, at most 2; any cursor below `Wrap` = 8; 38,559 states |
| `keys` | types, `WithdrawnKeysExpire`, `SettledKeysKnown`, `ValidationsEnd` | 2 requests, 3 keys (one that may be withdrawn, one that may be published, one of no use), time to live 1, timeout 1, clock ≤ 3 |
| `cp_lost_update` | `IfMatchProtects` fails with overlap | 2 clients, 1 tool, 2 images, revision ≤ 2 |
| `cp_untracked_workload` | `NoUntrackedWorkload` fails with overlap and deletes | 2 clients, 1 tool, 2 images, revision ≤ 2 |
| `cp_retry_skips_apply` | `SuccessIsEffective` fails with a provider error | 2 clients, 1 tool, 2 images, revision ≤ 3 |
| `docker_respec` | `ApplyInstallsSpec` fails when a spec changes | 1 handler |
| `docker_bare_handle` | `DeleteTearsDown` fails with the handle of the gateway | 1 handler |

**Why the bounds are enough.** Handlers of different names share no state, so one
name and two clients give every race of two requests; the interesting races
(read–read–put–put, put–teardown–remove–apply) have two parties. Images are only
compared with each other, so two suffice for "changed" and "not changed". An
update increments the revision by one and is compared only with revisions of the
same name, so the first two overwrites show whatever a later one would; `MaxRev`
is a bound on sending updates (`BelowMaxRev`), not on a handler at work. Calls of
the data plane write nothing that another call reads, so one caller is enough, and
so is one client of a listing; the constants make each record of a role: with an
upstream, managed and open, refused by the policy, refused by roles. Three tools
and pages of one or two give a page in the middle, a tool that changes before, on
and after the cursor, and a list shorter than the cursor; the sizes asked lie
below, in and above the bounds. `Wrap` is above any sum of an issued cursor and a size,
as 2^64 is (`SizesAssumption`); other cursors reach up to `Wrap - 1`, so sums beyond it
occur. In `docker_implements` one resource is enough, because a call touches only the
containers its id names; `KeepsTheContract` is for any number. Two requests give every overlap of two
refreshes, and a clock of three lets a key be put in force, cached, withdrawn, and
outlive the time to live and a timeout. Where a bound could matter the theorems
of section 5 remove it.

In `gateway`, requests for one name take turns by assumption, and what one client
knows of another's changes matters only to ETags: so it has one client, while
`cp_etags` has two, whose ETags go stale. `OvertakenOnce`, a constraint of that run,
stops following a call once it has lived through a second change of its record. A
call that lives through any change has no promise left (`Unsettle`), so
`AcknowledgedInForce` and `ReachesNewImage` lose nothing by it.

**Symmetry.** `cp_etags` permutes clients and images, `gateway` images. The instance
of `cp_etags` grants everything to every client, no definition names a client or an
image, and neither run checks liveness.

**Deadlock** is checked in `listing` only. Elsewhere the model may stop: with every
request answered and no client sending more (the bound on revisions), as an idle
server does, or at the bound on the clock.

**Fairness.** `FairSpec` is weak fairness of each handler's next step. It rests on
the runtime, which polls every ready task, and on every await returning: the
upstream client has connect and request timeouts (`state.rs:85`), bollard has a
timeout per request, and SQLite answers or fails. No fairness is assumed of the
registry, and none of success: store, provider, policy engine and upstream may
fail every time. Of clients it is assumed only in `listing`, of `Continue`:
`WalksEnd` is about a client that wants all pages. In `keys` it is of each
validation's steps, the fetch's timeout included: the issuer need never answer, and
a fetch may fail every time.

## 5. The theorems

TLAPS checks every theorem for all values of the constants that satisfy the named
assumptions in the modules: any number of clients, names, images, records and
revisions.

| Theorem | States | Needs |
|---|---|---|
| `ControlPlane_proofs!TypeCorrect` | `[]TypeOK` | – |
| `RefusalsAreClean` | `[]RejectionIsClean` | – |
| `ChangesAreAudited` | `[]ChangesAudited` | `RemovalsSucceed`: not both deletes and store errors |
| `RevisionsAdvance` | `RevisionAdvances` | no overlap |
| `NothingUntracked` | `[]NoUntrackedWorkload` | `Undisturbed`: no overlap, no upstream attached, durable store |
| `ETagsProtect` | `IfMatchProtects` | `NothingRemoved`: no overlap, delete, provider error; durable store |
| `SuccessCounts` | `SuccessIsEffective` | `NothingFails`: `Undisturbed`, no provider error, hang-up or restart, not both deletes and store errors |
| `DockerProvider_proofs!TypeCorrect` | `[]TypeOK` | – |
| `ParseReads` | `Parse` gives back the parts `Written` wrote, for every `WellFormed` reference | – |
| `OnlyAdmittedRun` | `[]OnlyAdmittedImages` | – |
| `OnlyMeantRun` | `[]OnlyMeantImages` | `PlainNames`: code and Docker agree on what a host is |
| `JudgedByMeaning` | `[]PolicyByMeaning` | `PlainNames` |
| `KeepsTheContract` | `ImplementsProvider` | – |
| `DataPlane_proofs!TypeCorrect` | `[]TypeOK` | – |
| `OnlyGrantedForwarded` | `[]ForwardedUnderGrant` | – |
| `OnlyLiveRoutes` | `[]RoutedByLiveState` | – |
| `ForwardsAreAudited` | `[]ForwardsAudited` | – |
| `KeepsTheRegistry` | `ImplementsRegistry` | – |
| `ServesCallsThroughout` | `ServesCalls` | – |
| `ChangesTakeEffect` | `[]AcknowledgedInForce` | no overlap |
| `NewImageReached` | `ReachesNewImage` | no overlap |
| `ToolListing_proofs!TypeCorrect` | `[]TypeOK` | – |
| `PagesAreInBounds` | `[]SliceInBounds`, for every cursor | – |
| `CursorsAdvance` | `PagesAdvance` | – |
| `OnlyCallableSent` | `[]OnlyCallableListed` | – |
| `WalksSkipNothing` | `[]NothingSkipped` | – |
| `WalksRepeatNothing` | `[]NothingRepeated` | – |
| `RightsAreMonotone` | `Monotone`, for every policy and request | – |
| `RolesOnlyReveal` | `[]MoreRolesSeeMore` | – |
| `SigningKeys_proofs!TypeCorrect` | `[]TypeOK` | – |
| `WithdrawnKeysAreRefused` | `WithdrawnKeysExpire` | – |
| `SettledKeysAreFound` | `SettledKeysKnown` | – |

The argument of each, and why the invariant is what it is:

* *Types.* `TypeOK` is inductive because it includes what a handler's locals hold
  at each step (a record has been read before it is merged, and so on).
* *Refusals.* `CleanInv`: a handler that may still refuse has touched nothing, unless
  the refusal is that of an image, and one past admission has its grant.
* *Coordination.* `CoordInv` is the heart of the control plane. If requests for one
  name do not overlap (`Exclusive`), what a handler read is still in the store when
  it puts (`FreshAt`). `RevisionAdvances` follows at once. The handlers do not
  provide `Exclusive`; it comes from the environment, and the violation runs show
  what its absence costs.
* *Untracked workloads.* `WorkInv` adds that a create deploys under its own record
  where nothing ran before, an update only under a managed record, and that a
  rollback or a removal comes when nothing runs.
* *Versions.* `PutInv`: what a handler has put is still there when it answers.
  `VersionInv`: a client's representation is one the store has had, of a revision no
  greater, and equal to the stored record if the revision is; the If-Match of a
  request names it. A removal would restart revisions at 1
  (`control_plane.rs:414`), which is why removals are excluded.
* *Success.* `EffectInv`: except while a request is between its put and its apply,
  or between its teardown and its removal, what runs is what the record says.
* *References.* A reference is a sequence of tokens, and the code looks for the first
  slash and the last colon and `@`. `LastOf` and `FirstOf` are shown to exist where a
  token occurs (the positions are a finite set of naturals), and to be known once
  what follows, or comes before, lacks the token. Then `Before` and `After` undo the
  concatenations of `Written` one by one, and what comes before the first slash is
  the host or the first part of the path.
* *The contract.* `CallInv`: a call of apply names the container of its own resource, a
  delete that one or none there is. So each request to the daemon is a stutter or one
  step of the contract: `Prepare` (create), `Install` or `Reuse` (start, or an
  inspection that finds it running), `Clear` or `Miss` (remove), or `Refuse`. What
  another call does in between only changes which of them it is.
* *Calls.* `CallAt`: what a handler has read is among `seen` or `ran`, and what it
  takes along has passed `Admits`. `ForwardedAt` and `AuditAt`: a forwarded call that
  has not ended is about to be recorded as allowed.
* *The registry.* `ToolsManaged`: no record or request of a tool has an upstream.
  Each handler's step is a put, a removal, a deployment or a teardown of its own
  name (`HandleChanges`), and each of these maps to a step of `Registry`.
* *The gateway.* The handlers' steps are `Effect`s on store and provider, and an
  effect, seen through `RecordOf`, is a step of the `Registry` that `DataPlane` has as
  environment: with `Observe`, the gateway's step is one of `DataPlane`'s. This
  discharges what `DataPlane_proofs` assumes, and its theorems are cited as they are,
  instantiated for this registry (`CallsInvariant`).
* *Changes take effect.* `PromiseInv`: while no request for a name that has touched
  anything is under way, what was told of the name is what the store holds
  (`ToldAt`), because a refusal has touched nothing (`CleanInv`) or, if it is that of an
  image, makes `told` open as an error does; a success still finds what it put (`PutInv`), and a handler marks the request before it writes
  (`TouchInv`). A call that nothing has overtaken has only ever seen what was told
  (`BoundAt`: `seen` is that one record). `OnlyGrantedForwarded` and `OnlyLiveRoutes`
  then say of that record what they say of any in `seen`. Failures, hang-ups and
  restarts need no exclusion: they make `told` open, and a later success closes it.
* *Audit.* A handler that returns without a record has touched nothing (`CleanInv`),
  but for one: the delete whose removal fails, which is why `RemovalsSucceed`.
* *New images.* `InstalledInv`: the image of `installed` runs, unless a request that is
  under way has called the provider (`Moved`), in which case it is the one it will
  answer with (`ShippedAt`). A handler that ends otherwise than by a success or an early
  refusal makes `installed` open, and such a refusal comes before the call of the
  provider (`HandleShips`). A call is bound to a promise only while no request for
  its name is under way (`BoundAt`), and then nothing has moved. The record's own
  image would be too much to claim: after an update whose apply failed, a success
  that changes no image leaves the older one running (`cp_retry_skips_apply`).
* *Listing.* The k-th tool of a list has rank k (`Rank`), and ranks grow with the
  list (`RankGrows`). `WalkAt`: while no list has lost a tool, every tool of the first
  list that ranks no higher than the cursor in the latest one has been listed;
  while none has gained one, every listed tool ranks no higher than the cursor.
  A cursor that the gateway issued is at most the number of tools (`IssuedCursor`), so
  its sum with a page size is a usize (`NoWrap`), and a page that is not the last ends
  beyond it (`SlicedAt`). For any other cursor `Send` needs offsets that do not cross;
  if the sum is a usize they cannot, since both are cut at the length of the list.
* *Monotone rights.* A rule that matches does so whatever the roles, and what it
  asks of roles, as `required_roles` does, is that one of them is listed.
* *Signing keys.* `Current`: an answer holds no key withdrawn before it was given and
  every usable key in force before that. The cache is such an answer and at most
  one timeout older than its `fetched_at` (`CacheOK`), because an answer was given
  after its fetch began (`FetchOK`). This bounds what out-of-order answers can do:
  the cache may go back in time, by no more than a timeout.

Every invariant and every action property of a passing run is a theorem. Only
model-checked is liveness (`RequestsEnd`, `CallsEnd`, `WalksEnd`, `ValidationsEnd`),
which is out of the prover's reach.

## 6. Where the code and its promises part

Five runs end in a counterexample, each to a sentence of the repository:

1. `cp_lost_update`. Two updates read revision 1, both match If-Match 1, both put.
2. `cp_untracked_workload`. A create puts its record (736); a delete reads it, tears
   down what is not yet there (926) and removes the record (938); before or after the
   removal the create's apply (744) starts the workload, which no record then lists. An update between its put and
   its apply (878) can be overtaken in the same way.
3. `cp_retry_skips_apply`. An update whose apply fails leaves its record stored. The
   same update again finds nothing changed and answers 200; the old image runs on.
4. `docker_respec`. apply answers Ok for a running container whatever its spec, so an
   update of a managed resource is never installed.
5. `docker_bare_handle`. The gateway's rebuilt handle names no container; delete takes
   the 404 for success.

Other places where a property stops holding are named by the `Hazards` a theorem
excludes, or by an exception in the property:

* an image that the policy or the parser refuses is answered 400 invalid_params after
  the put. An update then keeps its record, the new roles and tags with it, and the
  same update again answers 200 without an apply; a create takes its record back
  (`RejectionIsClean`, `refused`);
* a cursor near the greatest usize makes the sum at `tool_router.rs:203` overflow: the
  task panics in a debug build, and in a release build the slice at 204 does, which
  ends the process (`SliceInBounds`, `Panic`);
* a client whose list grows by a page for every page it reads has no last page
  (`WalksEnd` bounds the tools there can be);
* a start that fails leaves a prepared container, which the next apply starts whatever
  its image (`Prepare`, `Install`);

* an ETag survives a delete and a new create;
* an update that attaches an upstream leaves the old workload (the later delete
  skips the provider);
* a delete whose removal fails has torn the workload down with no audit record;
* a request whose client hangs up after the put has changed something and leaves
  none either, as one that a restart cuts off does (`ChangesAudited` is about
  requests that are answered);
* a tool that answers 200 with a body that does not parse ends the call through `?`,
  after it was forwarded and with no audit record (`tool_router.rs:399`; "audit
  emission for every data-plane call", `CHANGELOG.md:29`), and a hang-up does too;
* the in-memory store forgets at a restart what the daemon goes on running;
* a tool is skipped by a listing when an earlier one is withdrawn between two pages,
  and repeated when one that sorts earlier is added (`drift`);
* a request that looks a key up just before another request's refresh and asks
  `cache_stale` just after it accepts the key of the old cache (`overtaken`);
* while the issuer cannot be reached, keys past their time to live stay in use
  (`failed`);
* a token without a `kid` gets any cached key of its algorithm, and is refused during
  a rotation if that is not the one it was signed with;
* `oidc.rs:4` speaks of a background refresh; there is none, and the model has none:
  the cache is refreshed by the requests that miss it, each for itself.

## 7. Abstractions

* Names, images, notes and URLs are model values. Validation of names, env names
  and headers is a choice between "valid" and "invalid". Audit records keep only
  their decision, responses only their class.
* A metadata call is atomic: it takes effect or fails with no effect. A handler that
  is dropped during a call either has had that call's effect or has not; the case
  where the daemon finishes a dropped request after a later one is left out.
* Docker's stop of a container is one step; limits, labels, hardening options and
  the network are data left out. The lookup of endpoints (`docker.rs:573–610`)
  changes no state and is not modelled; in `DataPlane` a lookup gives the endpoint
  of the running workload or fails.
* The policy engine's decision is a constant of the record (data plane, where the
  instance computes it by `YamlRbac`) or of client and verb (control plane). The
  rules are those of the start: the code reads them once.
* A request of `tools/list` with a stray cursor is over with its page; it is not
  followed further. The page's audit record is left out: `DataPlane` has its like.
* One key has one `kid`, and the issuer does not bring a withdrawn key back. The
  signature, the claims and their times are the verdict of a library (`Decode` may
  refuse any token). The model's clock is discrete and bounded.
* `WellFormed` says which references mean what by Docker's grammar. Code and Docker
  disagree on two kinds: a host `localhost` without a port, which `docker.rs:154` takes
  for a part of a path, and a name of Docker's registry with a dot and no slash
  (`my.app`), whose first part it takes for a host, where `docker.rs:42` calls
  `docker.io` implicit for unqualified names. `Plain` leaves these out; it is a
  hypothesis of `OnlyMeantRun` and `JudgedByMeaning`, and `MCDockerProvider` assumes
  it of its images. `ParseReads` holds with them.
* In `Gateway` a name is that of an adapter or of a tool, never of both: the two have
  separate tables and separate container names.
* Status, logs, health and list endpoints read only and are left out, except that
  `Get` gives a client its ETag.

Not modelled: the no-op provider (no state), the session store (no route binds or
reads a session, so no step depends on it), bootstrap and configuration (run once
before any request), the static identity provider (no state), verification of token
signatures (a library's), health, secrets, logging and test support (no state that
any other part reads).

## 8. Plan

Done, in this order: control plane; provider contract and Docker provider; data
plane; the registry between the planes; policy engine; listing; signing keys; image
references; the gateway as a whole; their proofs. Next, by importance:

1. A composition of control plane and `DeploymentProvider`, in place of provider calls
   that are one step and mean what they answer. Today the two places where the contract
   says less are two runs with a counterexample each.
2. More liveness of `SigningKeys`: once the issuer answers, a token of a settled key
   is accepted in the end.
3. The listing within `Gateway`, as the calls are: a tool that was deleted, or whose
   roles were changed, is not listed after the answer.
4. `SessionStore`: bindings with an expiry, when a route uses them.

Runs are few on purpose, one per question; the theorems cover what larger ones
would.
