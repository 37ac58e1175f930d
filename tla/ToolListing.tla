---------------------------- MODULE ToolListing ----------------------------
(***************************************************************************)
(* tools/list of POST /mcp, and the client that follows nextCursor from    *)
(* page to page.  A cursor is an offset into the list of the tools the     *)
(* client may call, and every page makes that list anew, from the registry *)
(* and the policy as they are by then.  Each await is one action; the page *)
(* is audited (as DataPlane has it for calls) on its way out.              *)
(***************************************************************************)
EXTENDS Integers, FiniteSets, YamlRbac

CONSTANTS
  Clients,
  RolesOf,      \* the roles of each client's token
  Names,        \* the tools, numbered as the store orders them: by name
  Records,      \* the records each tool may have: a function on names
  ListTarget,   \* the target of a request to list, "*"
  Requested,    \* the page sizes clients ask for
  MaxPageSize,
  Wrap,         \* the numbers of a usize are 0 .. Wrap - 1
  Hazards

HazardKinds ==
  { "storeError",    \* a metadata read may fail
    "policyError",   \* the policy engine may fail
    "disconnect" }   \* a client may hang up

AllRecords == UNION {Records[n] : n \in Names}

ASSUME NamesAssumption ==
  Names \subseteq Nat /\ IsFiniteSet(Names) /\ DOMAIN Records = Names
ASSUME SizesAssumption ==
  /\ Requested \subseteq Nat /\ MaxPageSize \in Nat \ {0}
  /\ Wrap \in Nat /\ Cardinality(Names) + MaxPageSize < Wrap
ASSUME HazardsAssumption == Hazards \subseteq HazardKinds
ASSUME AbsentAssumption == Absent \notin AllRecords

VARIABLES
  record,    \* the metadata store
  step,      \* where the handler of a client's request stands
  size,      \* the page size of the request
  snapshot,  \* the records the handler has read
  page,      \* what the client was last sent
  slice,     \* the offsets its last page was to be cut between, of how many
  cursor,    \* the cursor the client holds or has sent; 0 if it has none
  walk,      \* how far the client is: see Walks
  visible,   \* history: the list the last page was cut from
  first,     \* history: the list the first page was cut from
  listed,    \* history: the tools of all pages
  drift,     \* history: what befell the lists and pages of the walk
  callable   \* history: the tools the client might call since it asked

R == INSTANCE Registry WITH
  workload <- [n \in Names |-> Absent],
  Workloads <- [n \in Names |-> {}]

locals == <<step, size, snapshot>>
progress == <<page, slice, cursor, walk, visible, first, listed, drift>>
vars == <<record, locals, progress, callable>>

Steps == {"idle", "authorize", "list", "filter"}
Walks == {"none", "open", "stray", "whole", "broken"}
Drifts == {"shrank", "grew", "repeated"}

Empty == [n \in Names |-> Absent]

NoSlice == [reach |-> 0, from |-> 0, to |-> 0, of |-> 0]

Init ==
  /\ R!Init
  /\ step = [c \in Clients |-> "idle"]
  /\ size = [c \in Clients |-> 0]
  /\ snapshot = [c \in Clients |-> Empty]
  /\ page = [c \in Clients |-> {}]
  /\ slice = [c \in Clients |-> NoSlice]
  /\ cursor = [c \in Clients |-> 0]
  /\ walk = [c \in Clients |-> "none"]
  /\ visible = [c \in Clients |-> {}]
  /\ first = [c \in Clients |-> {}]
  /\ listed = [c \in Clients |-> {}]
  /\ drift = [c \in Clients |-> {}]
  /\ callable = [c \in Clients |-> {}]

-----------------------------------------------------------------------------
(* What a client sees, and how a page is cut from it.                      *)

MayList(roles) == Authorized(DataRequest(ListMethod, ListTarget, {}), {}, roles)

MayCall(n, r, roles) ==
  Authorized(DataRequest(CallMethod, n, r.tags), r.required, roles)

(* can_call_tool, of each tool there is *)
Visible(recs, roles) ==
  {n \in Names : recs[n] # Absent /\ MayCall(n, recs[n], roles)}

(* Mutant: only the upper bound. *)
ClampAbove(s) == IF s > MaxPageSize THEN MaxPageSize ELSE s

Clamp(s) == IF s < 1 THEN 1 ELSE IF s > MaxPageSize THEN MaxPageSize ELSE s

(* The place of n, counted from 1, in the list of the names in V. *)
Rank(V, n) == Cardinality({m \in V : m <= n})

AtMost(a, b) == IF a < b THEN a ELSE b

PageEnd(start, s, V) == AtMost((start + s) % Wrap, Cardinality(V))

(* Mutant: the cursor is taken as it comes. *)
PageStartRaw(start, V) == start

PageStart(start, V) == AtMost(start, Cardinality(V))

(* Mutant: a page begins one late. *)
CutLate(V, from, to) == {n \in V : from + 1 < Rank(V, n) /\ Rank(V, n) <= to}

(* Mutant: a page begins one early. *)
CutEarly(V, from, to) == {n \in V : from <= Rank(V, n) /\ Rank(V, n) <= to}

Cut(V, from, to) == {n \in V : from < Rank(V, n) /\ Rank(V, n) <= to}

-----------------------------------------------------------------------------
(* The registry changes.                                                   *)

RegistryStep ==
  /\ (\E n \in Names : R!Put(n) \/ R!Remove(n)) \/ R!Forget
  /\ callable' = [c \in Clients |->
       IF step[c] = "idle" THEN callable[c]
       ELSE callable[c] \cup Visible(record', RolesOf[c])]
  /\ UNCHANGED <<locals, progress>>

-----------------------------------------------------------------------------
(* A request, from where the client stands.                                *)

Ask(c) ==
  /\ step[c] = "idle"
  /\ step' = [step EXCEPT ![c] = "authorize"]
  /\ callable' = [callable EXCEPT ![c] = Visible(record, RolesOf[c])]
  /\ UNCHANGED <<record, size, snapshot>>

Anew(c, w, at) ==
  /\ Ask(c)
  /\ walk[c] # "open"
  /\ walk' = [walk EXCEPT ![c] = w]
  /\ cursor' = [cursor EXCEPT ![c] = at]
  /\ page' = [page EXCEPT ![c] = {}]
  /\ slice' = [slice EXCEPT ![c] = NoSlice]
  /\ visible' = [visible EXCEPT ![c] = {}]
  /\ first' = [first EXCEPT ![c] = {}]
  /\ listed' = [listed EXCEPT ![c] = {}]
  /\ drift' = [drift EXCEPT ![c] = {}]

(* Without a cursor, or with one that is no number: the first page. *)
Start(c) == Anew(c, "open", 0)

(* With a number that no page has come with: any usize is a cursor. *)
Stray(c) == \E at \in 1 .. Wrap - 1 : Anew(c, "stray", at)

(* With the cursor that came with the last page. *)
Continue(c) ==
  /\ Ask(c)
  /\ walk[c] = "open"
  /\ page' = [page EXCEPT ![c] = {}]
  /\ UNCHANGED <<slice, cursor, walk, visible, first, listed, drift>>

Leave(c) ==
  /\ step' = [step EXCEPT ![c] = "idle"]
  /\ size' = [size EXCEPT ![c] = 0]
  /\ snapshot' = [snapshot EXCEPT ![c] = Empty]
  /\ UNCHANGED <<record, callable>>

(* Refused, failed or hung up: there is no page. *)
Break(c) ==
  /\ Leave(c)
  /\ walk' = [walk EXCEPT ![c] = "broken"]
  /\ UNCHANGED <<page, slice, cursor, visible, first, listed, drift>>

(* The list operation itself is authorised, and then the parameters are    *)
(* parsed: a size out of bounds is moved into them.                        *)
Authorize(c) ==
  /\ step[c] = "authorize"
  /\ \/ Break(c)
     \/ /\ MayList(RolesOf[c])
        /\ \E s \in Requested : size' = [size EXCEPT ![c] = Clamp(s)]
        /\ step' = [step EXCEPT ![c] = "list"]
        /\ UNCHANGED <<record, snapshot, progress, callable>>

(* list_tools: one read of the store. *)
List(c) ==
  /\ step[c] = "list"
  /\ \/ /\ snapshot' = [snapshot EXCEPT ![c] = record]
        /\ step' = [step EXCEPT ![c] = "filter"]
        /\ UNCHANGED <<record, size, progress, callable>>
     \/ "storeError" \in Hazards /\ Break(c)

SliceOf(c, V) == [ reach |-> cursor[c] + size[c],
                   from |-> PageStart(cursor[c], V),
                   to |-> PageEnd(cursor[c], size[c], V),
                   of |-> Cardinality(V) ]

(* The page of V at the cursor is cut and sent, with the cursor of the     *)
(* next page if there is one.  A stray request is over with its page.      *)
Send(c, V) ==
  LET s == SliceOf(c, V)
      P == Cut(V, s.from, s.to)
      more == s.to < s.of /\ walk[c] = "open"
      fresh == cursor[c] = 0 \/ walk[c] = "stray"
  IN
  /\ s.from <= s.to
  /\ Leave(c)
  /\ page' = [page EXCEPT ![c] = P]
  /\ slice' = [slice EXCEPT ![c] = s]
  /\ cursor' = [cursor EXCEPT ![c] = IF more THEN s.to ELSE 0]
  /\ walk' = [walk EXCEPT ![c] = IF more THEN "open"
                                ELSE IF walk[c] = "open" THEN "whole" ELSE "none"]
  /\ visible' = [visible EXCEPT ![c] = V]
  /\ first' = [first EXCEPT ![c] = IF fresh THEN V ELSE first[c]]
  /\ listed' = [listed EXCEPT ![c] = IF fresh THEN P ELSE listed[c] \cup P]
  /\ drift' = [drift EXCEPT ![c] =
       IF fresh THEN {}
       ELSE drift[c] \cup {d \in Drifts :
              \/ d = "shrank" /\ ~(visible[c] \subseteq V)
              \/ d = "grew" /\ ~(V \subseteq visible[c])
              \/ d = "repeated" /\ P \cap listed[c] # {}}]

(* The requests of these clients are gone. *)
Die(Gone) ==
  /\ step' = [c \in Clients |-> IF c \in Gone THEN "idle" ELSE step[c]]
  /\ size' = [c \in Clients |-> IF c \in Gone THEN 0 ELSE size[c]]
  /\ snapshot' = [c \in Clients |-> IF c \in Gone THEN Empty ELSE snapshot[c]]
  /\ walk' = [c \in Clients |-> IF c \in Gone THEN "broken" ELSE walk[c]]

(* The page cannot be cut.  Where additions are checked (a debug build),   *)
(* the sum overflows and the task of the request panics; where they wrap   *)
(* (a release build), the slice is out of bounds and panic = "abort" ends  *)
(* the process, with every request in flight.                              *)
Panic(c, V) ==
  LET s == SliceOf(c, V) IN
  /\ \/ s.reach >= Wrap /\ Die({c})
     \/ s.from > s.to /\ Die({d \in Clients : step[d] # "idle"})
  /\ slice' = [slice EXCEPT ![c] = s]
  /\ UNCHANGED <<record, callable, page, cursor, visible, first, listed, drift>>

(* Mutant: the tools of the store, as they are. *)
FilterNothing(c) ==
  /\ step[c] = "filter"
  /\ LET V == {n \in Names : snapshot[c][n] # Absent}
     IN Send(c, V) \/ Panic(c, V)

(* can_call_tool hides a tool as well when the engine fails to decide. *)
Filter(c) ==
  /\ step[c] = "filter"
  /\ \E V \in SUBSET Visible(snapshot[c], RolesOf[c]) :
       /\ V = Visible(snapshot[c], RolesOf[c]) \/ "policyError" \in Hazards
       /\ Send(c, V) \/ Panic(c, V)

(* The handler is dropped, or its answer is lost. *)
Disconnect(c) ==
  /\ "disconnect" \in Hazards
  /\ step[c] # "idle"
  /\ Break(c)

Handle(c) == Authorize(c) \/ List(c) \/ Filter(c)

Next ==
  \/ RegistryStep
  \/ \E c \in Clients : \/ Start(c) \/ Stray(c) \/ Continue(c)
                        \/ Handle(c) \/ Disconnect(c)

Spec == Init /\ [][Next]_vars

(* Tasks that are ready run, and a client wants all the pages. *)
FairSpec ==
  Spec /\ \A c \in Clients : WF_vars(Handle(c)) /\ WF_vars(Continue(c))

-----------------------------------------------------------------------------
(* Properties.                                                             *)

LocalOK(c) ==
  /\ step[c] \in {"list", "filter"} => size[c] \in 1 .. MaxPageSize
  /\ step[c] # "idle" => walk[c] \in {"open", "stray"}
  /\ cursor[c] # 0 => walk[c] \in {"open", "stray", "broken"}
  /\ walk[c] = "open" => cursor[c] <= Cardinality(Names)

(* The type invariant.  A cursor the gateway has issued never points past  *)
(* the longest list there can be.                                          *)
TypeOK ==
  /\ R!TypeOK
  /\ step \in [Clients -> Steps]
  /\ size \in [Clients -> 0 .. MaxPageSize]
  /\ snapshot \in [Clients -> [Names -> AllRecords \cup {Absent}]]
  /\ page \in [Clients -> SUBSET Names]
  /\ slice \in [Clients -> [reach : Nat, from : Nat, to : Nat, of : Nat]]
  /\ cursor \in [Clients -> 0 .. Wrap - 1]
  /\ walk \in [Clients -> Walks]
  /\ visible \in [Clients -> SUBSET Names]
  /\ first \in [Clients -> SUBSET Names]
  /\ listed \in [Clients -> SUBSET Names]
  /\ drift \in [Clients -> SUBSET Drifts]
  /\ callable \in [Clients -> SUBSET Names]
  /\ \A c \in Clients : LocalOK(c)

(* Whatever number comes as a cursor, and however much shorter the list    *)
(* has become since it was issued, the page is cut within the list: the    *)
(* two offsets do not cross.  The exception is a cursor whose sum with the *)
(* page size is no usize, which the gateway never issues: see Panic.       *)
(* (tool_router.rs 183-187, 203-204)                                       *)
SliceInBounds ==
  \A c \in Clients :
    /\ slice[c].to <= slice[c].of
    /\ slice[c].reach < Wrap => slice[c].from <= slice[c].to

(* B3: a page shows only tools the client might call by a record in force  *)
(* while the page was being made.  (tool_router.rs 193-201)                *)
OnlyCallableListed == \A c \in Clients : page[c] \subseteq callable[c]

(* A client that has followed the cursors to the end has seen every tool   *)
(* of the first list, if no list on the way lost a tool, whatever was      *)
(* added in between and wherever it sorts.  (tool_router.rs 203-224)       *)
NothingSkipped ==
  \A c \in Clients :
    walk[c] = "whole" /\ "shrank" \notin drift[c] => first[c] \subseteq listed[c]

(* No tool is sent twice, if no list on the way gained a tool, whatever    *)
(* was taken away in between.  (tool_router.rs 203-224)                    *)
NothingRepeated ==
  \A c \in Clients : "repeated" \in drift[c] => "grew" \in drift[c]

(* Whatever the registry holds, another role never hides a tool that was   *)
(* listed without it.  (PLAN.md:888; yaml_rbac.rs 99-190)                  *)
MoreRolesSeeMore ==
  \A roles, more \in SUBSET UNION {RolesOf[c] : c \in Clients} :
    roles \subseteq more => Visible(record, roles) \subseteq Visible(record, more)

(* While a client follows cursors, each page that is not the last moves    *)
(* the cursor on, whatever size it asks and however the list has changed:  *)
(* no page sends it back, or to where it was.  (tool_router.rs 179-224)    *)
PagesAdvance ==
  [][\A c \in Clients :
       step[c] = "filter" /\ step'[c] = "idle" /\ walk'[c] = "open"
         => cursor'[c] > cursor[c]]_vars

(* A client that follows the cursors gets to the last page or is told that *)
(* there is none, however often tools are taken away and added again.  The *)
(* tools there can be are bounded (Names is finite): of a list that grows  *)
(* by a page for each page that is read this says nothing, and the code    *)
(* has no last page for it.  (tool_router.rs 176-180)                      *)
WalksEnd == \A c \in Clients : walk[c] = "open" ~> walk[c] # "open"
=============================================================================
