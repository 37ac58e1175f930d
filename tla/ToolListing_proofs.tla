------------------------ MODULE ToolListing_proofs ------------------------
(***************************************************************************)
(* Theorems of ToolListing, for every value of its constants: any number   *)
(* of tools and clients, any policy, any sizes, and every hazard.          *)
(***************************************************************************)
EXTENDS ToolListing, FiniteSetTheorems, TLAPS

USE NamesAssumption, SizesAssumption, AbsentAssumption

-----------------------------------------------------------------------------
(* The policy.                                                             *)

LEMMA MoreRolesAllowed ==
  ASSUME NEW q, NEW roles, NEW more, roles \subseteq more, Allowed(q, roles)
  PROVE  Allowed(q, more)
<1>1. CASE Default = "allow"
  BY <1>1 DEF Allowed
<1>2. CASE \E rule \in Rules : RuleMatches(rule, q) /\ RolesAllowed(rule, roles)
  <2>1. PICK rule \in Rules : RuleMatches(rule, q) /\ RolesAllowed(rule, roles)
    BY <1>2
  <2>2. RolesAllowed(rule, more)
    BY <2>1 DEF RolesAllowed
  <2>3. QED
    BY <2>1, <2>2 DEF Allowed
<1>3. QED
  BY <1>1, <1>2 DEF Allowed

(* Rights are monotone in the roles, whatever the policy: yaml_rbac.rs has *)
(* no rule that denies.                                                    *)
THEOREM RightsAreMonotone ==
  ASSUME NEW q, NEW required, NEW roles, NEW more
  PROVE  Monotone(q, required, roles, more)
<1> SUFFICES ASSUME roles \subseteq more, Authorized(q, required, roles)
             PROVE  Authorized(q, required, more)
  BY DEF Monotone
<1>1. Allowed(q, more)
  BY MoreRolesAllowed DEF Authorized
<1>2. RequiredRolesSatisfied(required, more)
  BY DEF Authorized, RequiredRolesSatisfied
<1>3. QED
  BY <1>1, <1>2 DEF Authorized

(* Another role never hides a tool: MoreRolesSeeMore, in every state. *)
THEOREM RolesOnlyReveal == Spec => []MoreRolesSeeMore
<1>1. MoreRolesSeeMore
  <2> SUFFICES ASSUME NEW roles, NEW more, roles \subseteq more,
                      NEW n \in Visible(record, roles)
               PROVE  n \in Visible(record, more)
    BY DEF MoreRolesSeeMore
  <2>1. MayCall(n, record[n], more)
    BY RightsAreMonotone DEF Visible, MayCall, Monotone
  <2>2. QED
    BY <2>1 DEF Visible
<1>2. QED
  BY <1>1, PTL

-----------------------------------------------------------------------------
(* How a page is cut.                                                      *)

LEMMA Counted ==
  ASSUME NEW V \in SUBSET Names, NEW n
  PROVE  /\ Cardinality(V) \in Nat
         /\ Cardinality(V) <= Cardinality(Names)
         /\ Rank(V, n) \in Nat
         /\ Rank(V, n) <= Cardinality(V)
<1>1. IsFiniteSet(V) /\ Cardinality(V) <= Cardinality(Names)
  BY FS_Subset
<1>2. {m \in V : m <= n} \in SUBSET V
  OBVIOUS
<1>3. IsFiniteSet({m \in V : m <= n}) /\ Rank(V, n) <= Cardinality(V)
  BY <1>1, <1>2, FS_Subset DEF Rank
<1>4. QED
  BY <1>1, <1>3, FS_CardinalityType DEF Rank

(* A tool does not move towards the front when tools are added. *)
LEMMA RankGrows ==
  ASSUME NEW W \in SUBSET Names, NEW V \in SUBSET W, NEW n
  PROVE  Rank(V, n) <= Rank(W, n)
<1>1. IsFiniteSet({m \in W : m <= n})
  BY FS_Subset, {m \in W : m <= n} \in SUBSET Names
<1>2. {m \in V : m <= n} \in SUBSET {m \in W : m <= n}
  OBVIOUS
<1>3. QED
  BY <1>1, <1>2, FS_Subset DEF Rank

LEMMA RankPositive ==
  ASSUME NEW V \in SUBSET Names, NEW n \in V
  PROVE  Rank(V, n) > 0
<1>1. n \in {m \in V : m <= n}
  OBVIOUS
<1>2. IsFiniteSet({m \in V : m <= n})
  BY FS_Subset, {m \in V : m <= n} \in SUBSET Names
<1>3. Rank(V, n) # 0
  BY <1>1, <1>2, FS_EmptySet DEF Rank
<1>4. Rank(V, n) \in Nat
  BY Counted
<1>5. QED
  BY <1>3, <1>4

LEMMA Remainder ==
  ASSUME NEW a \in Nat, NEW w \in Nat \ {0}
  PROVE  a % w \in Nat
OBVIOUS

LEMMA NoWrap ==
  ASSUME NEW a \in Nat, NEW w \in Nat, a < w
  PROVE  a % w = a
OBVIOUS

LEMMA Sliced ==
  ASSUME NEW V \in SUBSET Names, NEW start \in 0 .. Wrap - 1,
         NEW s \in 1 .. MaxPageSize
  PROVE  /\ PageStart(start, V) = AtMost(start, Cardinality(V))
         /\ PageStart(start, V) \in Nat /\ PageEnd(start, s, V) \in Nat
         /\ PageEnd(start, s, V) <= Cardinality(V)
         /\ start + s < Wrap =>
              /\ PageEnd(start, s, V) = AtMost(start + s, Cardinality(V))
              /\ PageStart(start, V) <= PageEnd(start, s, V)
              /\ PageEnd(start, s, V) < Cardinality(V)
                   => PageEnd(start, s, V) > start
<1>1. Cardinality(V) \in Nat
  BY Counted
<1>2. start + s \in Nat
  OBVIOUS
<1>3. (start + s) % Wrap \in Nat
  BY <1>2, Remainder
<1>4. start + s < Wrap => (start + s) % Wrap = start + s
  BY <1>2, NoWrap
<1>5. QED
  BY <1>1, <1>2, <1>3, <1>4 DEF PageStart, PageEnd, AtMost

LEMMA Clamped ==
  ASSUME NEW s \in Requested
  PROVE  Clamp(s) \in 1 .. MaxPageSize
BY DEF Clamp

-----------------------------------------------------------------------------
(* The inductive invariant.                                                *)

(* TypeOK without what it says of each request. *)
Typed ==
  /\ record \in [Names -> AllRecords \cup {Absent}]
  /\ \A n \in Names : record[n] \in Records[n] \cup {Absent}
  /\ step \in [Clients -> Steps]
  /\ size \in [Clients -> 0 .. MaxPageSize]
  /\ snapshot \in [Clients -> [Names -> AllRecords \cup {Absent}]]
  /\ page \in [Clients -> SUBSET Names]
  /\ slice \in [Clients -> [reach : Nat, from : Nat, to : Nat, of : Nat]]
  /\ cursor \in [Clients -> 0 .. Wrap - 1]
  /\ walk \in [Clients -> Walks]
  /\ visible \in [Clients -> SUBSET Names]
  /\ first \in [Clients -> SUBSET Names]
  /\ listed \in [Clients -> SUBSET Names]
  /\ drift \in [Clients -> SUBSET Drifts]
  /\ callable \in [Clients -> SUBSET Names]

(* What the client may see now, or could when the store was read, is in    *)
(* the history, and with it what it was sent.                              *)
CallableAt(c) ==
  /\ step[c] # "idle" => Visible(record, RolesOf[c]) \subseteq callable[c]
  /\ step[c] = "filter" => Visible(snapshot[c], RolesOf[c]) \subseteq callable[c]
  /\ page[c] \subseteq callable[c]

SliceAt(c) ==
  /\ slice[c].to <= slice[c].of
  /\ slice[c].reach < Wrap => slice[c].from <= slice[c].to

(* While no list lost a tool, what the client is still to be sent of the   *)
(* first list lies beyond its cursor; and while none gained one, what it   *)
(* was sent lies before it.                                                *)
WalkAt(c) ==
  /\ "repeated" \in drift[c] => "grew" \in drift[c]
  /\ walk[c] = "whole" /\ "shrank" \notin drift[c] => first[c] \subseteq listed[c]
  /\ cursor[c] # 0 /\ "shrank" \notin drift[c] =>
       /\ first[c] \subseteq visible[c]
       /\ \A n \in first[c] \ listed[c] : cursor[c] < Rank(visible[c], n)
  /\ cursor[c] # 0 /\ "grew" \notin drift[c] =>
       \A n \in listed[c] : Rank(visible[c], n) <= cursor[c]

ClientInv(c) == LocalOK(c) /\ CallableAt(c) /\ SliceAt(c) /\ WalkAt(c)

Inv == Typed /\ \A c \in Clients : ClientInv(c)

LEMMA RegistryTyped ==
  R!TypeOK <=> /\ record \in [Names -> AllRecords \cup {Absent}]
               /\ \A n \in Names : record[n] \in Records[n] \cup {Absent}
BY DEF R!TypeOK, AllRecords

LEMMA InvImplies ==
  Inv => /\ TypeOK /\ SliceInBounds /\ OnlyCallableListed
         /\ NothingSkipped /\ NothingRepeated
<1> SUFFICES ASSUME Inv
             PROVE  /\ TypeOK /\ SliceInBounds /\ OnlyCallableListed
                    /\ NothingSkipped /\ NothingRepeated
  OBVIOUS
<1>1. TypeOK
  BY RegistryTyped DEF Inv, Typed, TypeOK, ClientInv
<1>2. SliceInBounds /\ OnlyCallableListed
  BY DEF Inv, ClientInv, SliceInBounds, SliceAt, OnlyCallableListed, CallableAt
<1>3. NothingSkipped /\ NothingRepeated
  BY DEF Inv, ClientInv, WalkAt, NothingSkipped, NothingRepeated
<1>4. QED
  BY <1>1, <1>2, <1>3

LEMMA InitInv == Init => Inv
<1> SUFFICES ASSUME Init PROVE Inv
  OBVIOUS
<1>1. Cardinality(Names) \in Nat
  BY Counted, Names \in SUBSET Names
<1>2. Typed
  BY <1>1 DEF Init, R!Init, Typed, Empty, NoSlice, Steps, Walks, Drifts
<1>3. ASSUME NEW c \in Clients PROVE ClientInv(c)
  BY <1>1, <1>3 DEF Init, NoSlice, ClientInv, LocalOK, CallableAt, SliceAt, WalkAt
<1>4. QED
  BY <1>2, <1>3 DEF Inv

(* Everything ClientInv says of a client, apart from the registry. *)
Mine(c) == <<step[c], size[c], snapshot[c], page[c], slice[c], cursor[c],
             walk[c], visible[c], first[c], listed[c], drift[c], callable[c]>>

LEMMA Others ==
  ASSUME Inv, NEW c \in Clients, UNCHANGED record, ClientInv(c)',
         \A d \in Clients \ {c} : UNCHANGED Mine(d)
  PROVE  \A d \in Clients : ClientInv(d)'
<1> SUFFICES ASSUME NEW d \in Clients \ {c} PROVE ClientInv(d)'
  OBVIOUS
<1>1. ClientInv(d) /\ UNCHANGED Mine(d)
  BY DEF Inv
<1>2. LocalOK(d)' /\ SliceAt(d)'
  BY <1>1 DEF Mine, ClientInv, LocalOK, SliceAt
<1>3. CallableAt(d)'
  BY <1>1 DEF Mine, ClientInv, CallableAt, Visible
<1>4. WalkAt(d)'
  BY <1>1 DEF Mine, ClientInv, WalkAt, Rank
<1>5. QED
  BY <1>2, <1>3, <1>4 DEF ClientInv

LEMMA SeenAreNames ==
  ASSUME NEW recs, NEW roles
  PROVE  Visible(recs, roles) \subseteq Names
BY DEF Visible

-----------------------------------------------------------------------------
(* One lemma for each action.                                              *)

LEMMA RegistryStepInv == Inv /\ RegistryStep => Inv'
<1> SUFFICES ASSUME Inv, RegistryStep PROVE Inv'
  OBVIOUS
<1> USE DEF RegistryStep, locals, progress
<1>1. /\ record' \in [Names -> AllRecords \cup {Absent}]
      /\ \A n \in Names : record'[n] \in Records[n] \cup {Absent}
  <2>1. CASE \E n \in Names : R!Put(n)
    <3>1. PICK n \in Names : R!Put(n)
      BY <2>1
    <3>2. PICK r \in Records[n] : record' = [record EXCEPT ![n] = r]
      BY <3>1 DEF R!Put
    <3>3. /\ r \in AllRecords
          /\ record \in [Names -> AllRecords \cup {Absent}]
          /\ \A m \in Names : record[m] \in Records[m] \cup {Absent}
      <4>1. r \in AllRecords
        BY DEF AllRecords
      <4>2. QED
        BY <4>1 DEF Inv, Typed
    <3>4. QED
      BY ONLY <3>2, <3>3
  <2>2. CASE \E n \in Names : R!Remove(n)
    BY <2>2 DEF Inv, Typed, R!Remove
  <2>3. CASE R!Forget
    BY <2>3 DEF Inv, Typed, R!Forget
  <2>4. QED
    BY <2>1, <2>2, <2>3
<1>2. ASSUME NEW c \in Clients
      PROVE  /\ callable'[c] \in SUBSET Names
             /\ callable[c] \subseteq callable'[c]
             /\ step[c] # "idle" => Visible(record', RolesOf[c]) \subseteq callable'[c]
  BY SeenAreNames DEF Inv, Typed
<1>3. Typed'
  <2>1. callable' \in [Clients -> SUBSET Names]
    BY <1>2
  <2>2. QED
    BY <1>1, <2>1 DEF Inv, Typed
<1>4. ASSUME NEW c \in Clients PROVE ClientInv(c)'
  <2>1. ClientInv(c)
    BY DEF Inv
  <2>2. LocalOK(c)' /\ SliceAt(c)' /\ WalkAt(c)'
    BY <2>1 DEF ClientInv, LocalOK, SliceAt, WalkAt, Rank
  <2>3. CallableAt(c)'
    BY <1>2, <2>1 DEF ClientInv, CallableAt, Visible
  <2>4. QED
    BY <2>2, <2>3 DEF ClientInv
<1>5. QED
  BY <1>3, <1>4 DEF Inv

LEMMA AnewInv ==
  ASSUME Inv, NEW c \in Clients, NEW w, NEW at \in 0 .. Wrap - 1, Anew(c, w, at),
         (w = "open" /\ at = 0) \/ w = "stray"
  PROVE  Inv'
<1>1. Cardinality(Names) \in Nat /\ Visible(record, RolesOf[c]) \in SUBSET Names
  BY Counted, SeenAreNames, Names \in SUBSET Names
<1>2. Typed'
  BY <1>1 DEF Inv, Typed, Anew, Ask, NoSlice, Steps, Walks
<1>3. LocalOK(c)'
  BY <1>1 DEF Inv, Typed, ClientInv, LocalOK, Anew, Ask
<1>4. CallableAt(c)' /\ SliceAt(c)' /\ WalkAt(c)'
  BY <1>1 DEF Inv, Typed, CallableAt, SliceAt, WalkAt, Anew, Ask, NoSlice, Visible
<1>5. UNCHANGED record /\ \A d \in Clients \ {c} : UNCHANGED Mine(d)
  BY DEF Inv, Typed, Mine, Anew, Ask
<1>6. QED
  BY <1>2, <1>3, <1>4, <1>5, Others DEF Inv, ClientInv

LEMMA ContinueInv ==
  ASSUME Inv, NEW c \in Clients, Continue(c)
  PROVE  Inv'
<1>1. Visible(record, RolesOf[c]) \in SUBSET Names
  BY SeenAreNames
<1>2. Typed'
  BY <1>1 DEF Inv, Typed, Continue, Ask, Steps
<1>3. LocalOK(c)' /\ SliceAt(c)'
  BY DEF Inv, Typed, ClientInv, LocalOK, SliceAt, Continue, Ask
<1>4. CallableAt(c)'
  BY DEF Inv, Typed, CallableAt, Continue, Ask, Visible
<1>5. WalkAt(c)'
  BY DEF Inv, ClientInv, WalkAt, Continue, Rank
<1>6. UNCHANGED record /\ \A d \in Clients \ {c} : UNCHANGED Mine(d)
  BY DEF Inv, Typed, Mine, Continue, Ask
<1>7. QED
  BY <1>2, <1>3, <1>4, <1>5, <1>6, Others DEF Inv, ClientInv

LEMMA BreakInv ==
  ASSUME Inv, NEW c \in Clients, Break(c)
  PROVE  Inv'
<1>1. Typed'
  BY DEF Inv, Typed, Break, Leave, Steps, Walks, Empty
<1>2. LocalOK(c)' /\ SliceAt(c)'
  BY DEF Inv, Typed, ClientInv, LocalOK, SliceAt, Break, Leave
<1>3. CallableAt(c)'
  BY DEF Inv, Typed, ClientInv, CallableAt, Break, Leave
<1>4. WalkAt(c)'
  BY DEF Inv, Typed, ClientInv, WalkAt, Break, Leave, Rank
<1>5. UNCHANGED record /\ \A d \in Clients \ {c} : UNCHANGED Mine(d)
  BY DEF Inv, Typed, Mine, Break, Leave
<1>6. QED
  BY <1>1, <1>2, <1>3, <1>4, <1>5, Others DEF Inv, ClientInv

LEMMA AuthorizeInv ==
  ASSUME Inv, NEW c \in Clients, Authorize(c)
  PROVE  Inv'
<1>1. CASE Break(c)
  BY <1>1, BreakInv
<1>2. ASSUME NEW s \in Requested, step[c] = "authorize",
             size' = [size EXCEPT ![c] = Clamp(s)],
             step' = [step EXCEPT ![c] = "list"],
             UNCHANGED <<record, snapshot, progress, callable>>
      PROVE  Inv'
  <2> USE DEF progress
  <2>1. Clamp(s) \in 1 .. MaxPageSize
    BY Clamped
  <2>2. Typed'
    BY <1>2, <2>1 DEF Inv, Typed, Steps
  <2>3. LocalOK(c)' /\ SliceAt(c)'
    BY <1>2, <2>1 DEF Inv, Typed, ClientInv, LocalOK, SliceAt
  <2>4. CallableAt(c)' /\ WalkAt(c)'
    BY <1>2 DEF Inv, Typed, ClientInv, CallableAt, WalkAt, Rank, Visible
  <2>5. \A d \in Clients \ {c} : UNCHANGED Mine(d)
    BY <1>2 DEF Inv, Typed, Mine
  <2>6. QED
    BY <1>2, <2>2, <2>3, <2>4, <2>5, Others DEF Inv, ClientInv
<1>3. QED
  BY <1>1, <1>2 DEF Authorize

LEMMA ListInv ==
  ASSUME Inv, NEW c \in Clients, List(c)
  PROVE  Inv'
<1>1. CASE Break(c)
  BY <1>1, BreakInv
<1>2. CASE /\ step[c] = "list"
           /\ snapshot' = [snapshot EXCEPT ![c] = record]
           /\ step' = [step EXCEPT ![c] = "filter"]
           /\ UNCHANGED <<record, size, progress, callable>>
  <2> USE DEF progress
  <2>1. Typed'
    BY <1>2 DEF Inv, Typed, Steps
  <2>2. LocalOK(c)' /\ SliceAt(c)'
    BY <1>2 DEF Inv, Typed, ClientInv, LocalOK, SliceAt
  <2>3. CallableAt(c)'
    BY <1>2 DEF Inv, Typed, ClientInv, CallableAt, Visible
  <2>4. WalkAt(c)'
    BY <1>2 DEF Inv, Typed, ClientInv, WalkAt, Rank
  <2>5. \A d \in Clients \ {c} : UNCHANGED Mine(d)
    BY <1>2 DEF Inv, Typed, Mine
  <2>6. QED
    BY <1>2, <2>1, <2>2, <2>3, <2>4, <2>5, Others DEF Inv, ClientInv
<1>3. QED
  BY <1>1, <1>2 DEF List

(* A cursor the gateway has issued and a page size add up to a usize. *)
LEMMA IssuedCursor ==
  ASSUME Inv, NEW c \in Clients, step[c] = "filter", walk[c] = "open"
  PROVE  /\ cursor[c] \in 0 .. Cardinality(Names) /\ size[c] \in 1 .. MaxPageSize
         /\ cursor[c] \in 0 .. Wrap - 1 /\ cursor[c] + size[c] < Wrap
<1>1. Cardinality(Names) \in Nat
  BY Counted, Names \in SUBSET Names
<1>2. LocalOK(c) /\ cursor[c] \in 0 .. Wrap - 1
  BY DEF Inv, Typed, ClientInv
<1>3. size[c] \in 1 .. MaxPageSize /\ cursor[c] <= Cardinality(Names)
  BY <1>2 DEF LocalOK
<1>4. QED
  BY <1>1, <1>2, <1>3

(* The one step that moves a walk on: WalkAt says, of the list the page is *)
(* cut from, what it said of the one before.                               *)
LEMMA SendInv ==
  ASSUME Inv, NEW c \in Clients, NEW V \in SUBSET Names, V \subseteq callable[c],
         step[c] = "filter", walk[c] = "open", Send(c, V)
  PROVE  Inv'
<1>2. V \in SUBSET Names /\ V \subseteq callable[c] /\ step[c] = "filter"
  OBVIOUS
<1>3. Leave(c)
  BY DEF Send
<1> DEFINE from == PageStart(cursor[c], V)
           to == PageEnd(cursor[c], size[c], V)
           P == Cut(V, from, to)
           more == to < Cardinality(V)
           fresh == cursor[c] = 0
<1>4. /\ cursor[c] \in 0 .. Cardinality(Names) /\ size[c] \in 1 .. MaxPageSize
      /\ cursor[c] \in 0 .. Wrap - 1 /\ cursor[c] + size[c] < Wrap
  BY IssuedCursor
<1>5. /\ from = AtMost(cursor[c], Cardinality(V))
      /\ to = AtMost(cursor[c] + size[c], Cardinality(V))
      /\ from \in Nat /\ to \in Nat
      /\ from <= to /\ to <= Cardinality(V)
      /\ more => to > cursor[c]
  BY <1>2, <1>4, Sliced
<1>6. /\ Cardinality(V) \in Nat /\ Cardinality(Names) \in Nat
      /\ Cardinality(V) <= Cardinality(Names)
  BY <1>2, Counted, Names \in SUBSET Names
<1>7. P \in SUBSET Names /\ P \subseteq V
  BY <1>2 DEF Cut
<1>8. \A n \in V : /\ Rank(V, n) \in Nat
                   /\ Rank(V, n) <= Cardinality(V)
                   /\ n \in P <=> (from < Rank(V, n) /\ Rank(V, n) <= to)
  BY <1>2, Counted DEF Cut
<1>9. /\ page' = [page EXCEPT ![c] = P]
      /\ slice' = [slice EXCEPT ![c] = [ reach |-> cursor[c] + size[c],
                                          from |-> from, to |-> to,
                                          of |-> Cardinality(V) ]]
      /\ cursor' = [cursor EXCEPT ![c] = IF more THEN to ELSE 0]
      /\ walk' = [walk EXCEPT ![c] = IF more THEN "open" ELSE "whole"]
      /\ visible' = [visible EXCEPT ![c] = V]
      /\ first' = [first EXCEPT ![c] = IF fresh THEN V ELSE first[c]]
      /\ listed' = [listed EXCEPT ![c] = IF fresh THEN P ELSE listed[c] \cup P]
      /\ drift' = [drift EXCEPT ![c] =
           IF fresh THEN {}
           ELSE drift[c] \cup {d \in Drifts :
                  \/ d = "shrank" /\ ~(visible[c] \subseteq V)
                  \/ d = "grew" /\ ~(V \subseteq visible[c])
                  \/ d = "repeated" /\ P \cap listed[c] # {}}]
  BY DEF Send, SliceOf
<1> HIDE DEF from, to, P
<1>10. Typed'
  <2>1. /\ cursor' \in [Clients -> 0 .. Wrap - 1]
        /\ slice' \in [Clients -> [reach : Nat, from : Nat, to : Nat, of : Nat]]
    BY <1>4, <1>5, <1>6, <1>9 DEF Inv, Typed
  <2>2. /\ page' \in [Clients -> SUBSET Names]
        /\ visible' \in [Clients -> SUBSET Names]
        /\ first' \in [Clients -> SUBSET Names]
        /\ listed' \in [Clients -> SUBSET Names]
    BY <1>2, <1>7, <1>9 DEF Inv, Typed
  <2>3. drift' \in [Clients -> SUBSET Drifts] /\ walk' \in [Clients -> Walks]
    BY <1>9 DEF Inv, Typed, Walks
  <2>4. /\ step' \in [Clients -> Steps]
        /\ size' \in [Clients -> 0 .. MaxPageSize]
        /\ snapshot' \in [Clients -> [Names -> AllRecords \cup {Absent}]]
    BY <1>3 DEF Inv, Typed, Leave, Steps, Empty
  <2>5. QED
    BY <1>3, <2>1, <2>2, <2>3, <2>4 DEF Inv, Typed, Leave
<1>11. LocalOK(c)'
  BY <1>3, <1>5, <1>6, <1>9 DEF Inv, Typed, LocalOK, Leave
<1>12. CallableAt(c)'
  BY <1>2, <1>3, <1>7, <1>9 DEF Inv, Typed, CallableAt, Leave
<1>13. SliceAt(c)'
  BY <1>5, <1>9 DEF Inv, Typed, SliceAt
<1>14. WalkAt(c)'
  <2>1. WalkAt(c)
    BY DEF Inv, ClientInv
  <2>2. /\ cursor'[c] = IF more THEN to ELSE 0
        /\ walk'[c] = IF more THEN "open" ELSE "whole"
        /\ visible'[c] = V
        /\ first'[c] = IF fresh THEN V ELSE first[c]
        /\ listed'[c] = IF fresh THEN P ELSE listed[c] \cup P
    BY <1>9 DEF Inv, Typed
  <2>3. /\ fresh => drift'[c] = {}
        /\ ~fresh => /\ "shrank" \in drift'[c] <=>
                          "shrank" \in drift[c] \/ ~(visible[c] \subseteq V)
                     /\ "grew" \in drift'[c] <=>
                          "grew" \in drift[c] \/ ~(V \subseteq visible[c])
                     /\ "repeated" \in drift'[c] <=>
                          "repeated" \in drift[c] \/ P \cap listed[c] # {}
    BY <1>9 DEF Inv, Typed, Drifts
  <2>4. from = cursor[c] \/ (from = Cardinality(V) /\ to = from)
    BY <1>4, <1>5, <1>6 DEF AtMost
  <2>5. ~more => to = Cardinality(V)
    BY <1>5, <1>6
  <2>6. visible[c] \in SUBSET Names /\ first[c] \in SUBSET Names
        /\ listed[c] \in SUBSET Names
    BY DEF Inv, Typed
  <2>7. \A n : /\ visible[c] \subseteq V => Rank(visible[c], n) <= Rank(V, n)
               /\ V \subseteq visible[c] => Rank(V, n) <= Rank(visible[c], n)
               /\ Rank(V, n) \in Nat /\ Rank(visible[c], n) \in Nat
               /\ Rank(V, n) <= Cardinality(V)
    BY <1>2, <2>6, RankGrows, Counted
  (* With nothing lost, the rest of the first list is beyond the page. *)
  <2>8. ASSUME "shrank" \notin drift'[c]
        PROVE  /\ first'[c] \subseteq V
               /\ \A n \in first'[c] \ listed'[c] : to < Rank(V, n)
    <3>1. CASE fresh
      <4>1. from = 0
        BY <1>5, <1>6, <3>1 DEF AtMost
      <4>2. \A n \in V : Rank(V, n) > 0
        BY <1>2, RankPositive
      <4>3. first'[c] = V /\ listed'[c] = P
        BY <2>2, <3>1
      <4>4. \A n \in V \ P : to < Rank(V, n)
        BY <1>5, <1>8, <4>1, <4>2
      <4>5. QED
        BY <4>3, <4>4
    <3>2. CASE ~fresh
      <4>1. /\ visible[c] \subseteq V /\ first[c] \subseteq visible[c]
            /\ \A n \in first[c] \ listed[c] : cursor[c] < Rank(visible[c], n)
        BY <2>1, <2>3, <2>8, <3>2 DEF WalkAt
      <4>2. ASSUME NEW n \in first[c] \ (listed[c] \cup P) PROVE to < Rank(V, n)
        <5>1. n \in V /\ cursor[c] < Rank(V, n)
          BY <1>4, <2>7, <4>1
        <5>2. from < Rank(V, n)
          BY <1>4, <1>5, <1>6, <2>7, <5>1 DEF AtMost
        <5>3. QED
          BY <1>5, <1>8, <5>1, <5>2
      <4>3. QED
        BY <2>2, <3>2, <4>1, <4>2
    <3>3. QED
      BY <3>1, <3>2
  (* With nothing gained, the page begins beyond what was sent. *)
  <2>9. ASSUME "grew" \notin drift'[c], ~fresh
        PROVE  \A n \in listed[c] : Rank(V, n) <= cursor[c]
    BY <1>4, <2>1, <2>3, <2>7, <2>9 DEF WalkAt
  <2>10. ASSUME "grew" \notin drift'[c]
         PROVE  "repeated" \notin drift'[c]
    <3>1. CASE fresh
      BY <2>3, <3>1
    <3>2. CASE ~fresh
      <4>1. ASSUME NEW n \in P \cap listed[c] PROVE FALSE
        BY <1>4, <1>5, <1>7, <1>8, <2>4, <2>9, <2>10, <3>2, <4>1
      <4>2. QED
        BY <2>1, <2>3, <2>10, <3>2, <4>1 DEF WalkAt
    <3>3. QED
      BY <3>1, <3>2
  <2>11. ASSUME ~more, "shrank" \notin drift'[c]
         PROVE  first'[c] \subseteq listed'[c]
    BY <1>5, <1>6, <2>5, <2>7, <2>8, <2>11
  <2>12. ASSUME more, "grew" \notin drift'[c]
         PROVE  \A n \in listed'[c] : Rank(V, n) <= to
    <3>1. \A n \in P : Rank(V, n) <= to
      BY <1>7, <1>8
    <3>2. ~fresh => \A n \in listed[c] : Rank(V, n) <= to
      BY <1>4, <1>5, <2>7, <2>9, <2>12
    <3>3. QED
      BY <2>2, <3>1, <3>2
  <2>13. QED
    BY <2>2, <2>8, <2>10, <2>11, <2>12 DEF WalkAt
<1>15. UNCHANGED record /\ \A d \in Clients \ {c} : UNCHANGED Mine(d)
  BY <1>3, <1>9 DEF Inv, Typed, Mine, Leave
<1>16. QED
  BY <1>10, <1>11, <1>12, <1>13, <1>14, <1>15, Others DEF Inv, ClientInv

LEMMA SlicedAt ==
  ASSUME NEW c, NEW V \in SUBSET Names, cursor[c] \in 0 .. Wrap - 1,
         size[c] \in 1 .. MaxPageSize
  PROVE  /\ SliceOf(c, V) \in [reach : Nat, from : Nat, to : Nat, of : Nat]
         /\ SliceOf(c, V).to <= SliceOf(c, V).of
         /\ SliceOf(c, V).reach < Wrap => SliceOf(c, V).from <= SliceOf(c, V).to
<1> DEFINE from == PageStart(cursor[c], V)
           to == PageEnd(cursor[c], size[c], V)
<1>1. Cardinality(V) \in Nat /\ cursor[c] + size[c] \in Nat
  BY Counted
<1>2. /\ from \in Nat /\ to \in Nat /\ to <= Cardinality(V)
      /\ cursor[c] + size[c] < Wrap => from <= to
  BY Sliced
<1> HIDE DEF from, to
<1>3. SliceOf(c, V) = [ reach |-> cursor[c] + size[c], from |-> from, to |-> to,
                        of |-> Cardinality(V) ]
  BY DEF SliceOf, from, to
<1>4. QED
  BY <1>1, <1>2, <1>3

(* A page at a cursor of the client's own begins no walk and goes on with  *)
(* none.                                                                   *)
LEMMA StraySendInv ==
  ASSUME Inv, NEW c \in Clients, NEW V \in SUBSET Names, V \subseteq callable[c],
         step[c] = "filter", walk[c] = "stray", Send(c, V)
  PROVE  Inv'
<1> DEFINE s == SliceOf(c, V)
           P == Cut(V, s.from, s.to)
<1>1. /\ size[c] \in 1 .. MaxPageSize /\ cursor[c] \in 0 .. Wrap - 1
      /\ Cardinality(Names) \in Nat
  BY Counted, Names \in SUBSET Names DEF Inv, Typed, ClientInv, LocalOK
<1>2. /\ s \in [reach : Nat, from : Nat, to : Nat, of : Nat]
      /\ s.from <= s.to /\ s.to <= s.of
  BY <1>1, SlicedAt DEF Send
<1>3. P \in SUBSET Names /\ P \subseteq callable[c]
  BY DEF Cut
<1>4. /\ Leave(c)
      /\ page' = [page EXCEPT ![c] = P] /\ slice' = [slice EXCEPT ![c] = s]
      /\ cursor' = [cursor EXCEPT ![c] = 0] /\ walk' = [walk EXCEPT ![c] = "none"]
      /\ visible' = [visible EXCEPT ![c] = V] /\ first' = [first EXCEPT ![c] = V]
      /\ listed' = [listed EXCEPT ![c] = P] /\ drift' = [drift EXCEPT ![c] = {}]
  BY DEF Send
<1> HIDE DEF s, P
<1>5. Typed'
  BY <1>1, <1>2, <1>3, <1>4 DEF Inv, Typed, Leave, Steps, Walks, Empty
<1>6. LocalOK(c)' /\ SliceAt(c)' /\ WalkAt(c)'
  BY <1>1, <1>2, <1>4 DEF Inv, Typed, LocalOK, SliceAt, WalkAt, Leave
<1>7. CallableAt(c)'
  BY <1>3, <1>4 DEF Inv, Typed, CallableAt, Leave
<1>8. UNCHANGED record /\ \A d \in Clients \ {c} : UNCHANGED Mine(d)
  BY <1>4 DEF Inv, Typed, Mine, Leave
<1>9. QED
  BY <1>5, <1>6, <1>7, <1>8, Others DEF Inv, ClientInv

(* A page that cannot be cut: the handlers that panic are gone, and the    *)
(* sum was no usize.                                                       *)
LEMMA PanicInv ==
  ASSUME Inv, NEW c \in Clients, NEW V \in SUBSET Names, step[c] = "filter",
         Panic(c, V)
  PROVE  Inv'
<1> DEFINE s == SliceOf(c, V)
<1>1. size[c] \in 1 .. MaxPageSize /\ cursor[c] \in 0 .. Wrap - 1
  BY DEF Inv, Typed, ClientInv, LocalOK
<1>2. /\ s \in [reach : Nat, from : Nat, to : Nat, of : Nat]
      /\ s.to <= s.of /\ (s.reach < Wrap => s.from <= s.to)
  BY <1>1, SlicedAt
<1>3. /\ slice' = [slice EXCEPT ![c] = s]
      /\ UNCHANGED <<record, callable, page, cursor, visible, first, listed, drift>>
  BY DEF Panic
<1> HIDE DEF s
<1>4. PICK Gone \in SUBSET Clients : Die(Gone)
  BY DEF Panic
<1>5. Typed'
  BY <1>2, <1>3, <1>4 DEF Inv, Typed, Die, Steps, Walks, Empty
<1>6. ASSUME NEW d \in Clients PROVE ClientInv(d)'
  <2>1. ClientInv(d) /\ Cardinality(Names) \in Nat
    BY Counted, Names \in SUBSET Names DEF Inv
  <2>2. CASE d \in Gone
    <3>1. step'[d] = "idle" /\ walk'[d] = "broken"
      BY <1>4, <2>2 DEF Die
    <3>2. LocalOK(d)' /\ CallableAt(d)'
      BY <1>3, <2>1, <3>1 DEF ClientInv, LocalOK, CallableAt
    <3>3. WalkAt(d)'
      BY <1>3, <2>1, <3>1 DEF ClientInv, WalkAt, Rank
    <3>4. SliceAt(d)'
      BY <1>2, <1>3, <2>1 DEF Inv, Typed, ClientInv, SliceAt
    <3>5. QED
      BY <3>2, <3>3, <3>4 DEF ClientInv
  <2>3. CASE d \notin Gone
    <3>1. step'[d] = step[d] /\ walk'[d] = walk[d] /\ size'[d] = size[d]
          /\ snapshot'[d] = snapshot[d]
      BY <1>4, <2>3 DEF Die
    <3>2. LocalOK(d)' /\ CallableAt(d)'
      BY <1>3, <2>1, <3>1 DEF ClientInv, LocalOK, CallableAt, Visible
    <3>3. WalkAt(d)'
      BY <1>3, <2>1, <3>1 DEF ClientInv, WalkAt, Rank
    <3>4. SliceAt(d)'
      BY <1>2, <1>3, <2>1 DEF Inv, Typed, ClientInv, SliceAt
    <3>5. QED
      BY <3>2, <3>3, <3>4 DEF ClientInv
  <2>4. QED
    BY <2>2, <2>3
<1>7. QED
  BY <1>5, <1>6 DEF Inv

LEMMA FilterInv ==
  ASSUME Inv, NEW c \in Clients, Filter(c)
  PROVE  Inv'
<1>1. PICK V \in SUBSET Visible(snapshot[c], RolesOf[c]) : Send(c, V) \/ Panic(c, V)
  BY DEF Filter
<1>2. V \in SUBSET Names /\ V \subseteq callable[c] /\ step[c] = "filter"
  BY SeenAreNames DEF Inv, ClientInv, CallableAt, Filter
<1>3. walk[c] \in {"open", "stray"}
  BY <1>2 DEF Inv, ClientInv, LocalOK
<1>4. QED
  BY <1>1, <1>2, <1>3, SendInv, StraySendInv, PanicInv

-----------------------------------------------------------------------------
(* The theorems.                                                           *)

LEMMA NextInv == Inv /\ [Next]_vars => Inv'
<1> SUFFICES ASSUME Inv, [Next]_vars PROVE Inv'
  OBVIOUS
<1>1. CASE RegistryStep
  BY <1>1, RegistryStepInv
<1>2. ASSUME NEW c \in Clients,
             \/ Start(c) \/ Stray(c) \/ Continue(c)
             \/ Handle(c) \/ Disconnect(c)
      PROVE  Inv'
  <2>1. CASE Start(c)
    <3>1. Cardinality(Names) \in Nat
      BY Counted, Names \in SUBSET Names
    <3>2. 0 \in 0 .. Wrap - 1
      BY <3>1
    <3>3. QED
      BY <2>1, <3>2, AnewInv DEF Start
  <2>2. CASE Stray(c)
    BY <2>2, AnewInv DEF Stray
  <2>3. CASE Continue(c) \/ Handle(c) \/ Disconnect(c)
    BY <2>3, ContinueInv, AuthorizeInv, ListInv, FilterInv, BreakInv
       DEF Handle, Disconnect
  <2>4. QED
    BY <1>2, <2>1, <2>2, <2>3
<1>3. CASE UNCHANGED vars
  BY <1>3 DEF vars, locals, progress, Inv, Typed, ClientInv, LocalOK,
     CallableAt, SliceAt, WalkAt, Visible, Rank
<1>4. QED
  BY <1>1, <1>2, <1>3 DEF Next

LEMMA Invariance == Spec => []Inv
<1>1. QED
  BY InitInv, NextInv, PTL DEF Spec

(* Type correctness. *)
THEOREM TypeCorrect == Spec => []TypeOK
BY Invariance, InvImplies, PTL

(* The offsets of a page never cross, at any cursor a client may send: the *)
(* slice of the code is within the list unless the sum before it overflows. *)
THEOREM PagesAreInBounds == Spec => []SliceInBounds
BY Invariance, InvImplies, PTL

(* What PagesAdvance says of one step. *)
AdvanceStep ==
  \A c \in Clients :
    step[c] = "filter" /\ step'[c] = "idle" /\ walk'[c] = "open"
      => cursor'[c] > cursor[c]

LEMMA NextAdvances == Inv /\ [Next]_vars => AdvanceStep
<1> SUFFICES ASSUME Inv, [Next]_vars, NEW c \in Clients,
                    step[c] = "filter", step'[c] = "idle", walk'[c] = "open"
             PROVE  cursor'[c] > cursor[c]
  BY DEF AdvanceStep
<1>1. walk[c] = "open" \/ walk[c] = "stray"
  BY DEF Inv, ClientInv, LocalOK
<1>2. PICK d \in Clients : Handle(d) \/ Disconnect(d)
  BY DEF Next, vars, RegistryStep, Start, Stray, Anew, Continue, Ask, locals,
         progress, Inv, Typed
<1>3. ~Break(d) \/ d # c
  BY DEF Break, Inv, Typed
<1>4. c = d /\ Filter(c)
  <2>1. CASE Disconnect(d) \/ Authorize(d) \/ List(d)
    BY <1>3, <2>1 DEF Disconnect, Authorize, List, Break, Leave, Inv, Typed
  <2>2. ASSUME Filter(d), d # c PROVE FALSE
    <3>1. PICK V \in SUBSET Visible(snapshot[d], RolesOf[d]) :
            Send(d, V) \/ Panic(d, V)
      BY <2>2 DEF Filter
    <3>2. CASE Send(d, V)
      BY <2>2, <3>2 DEF Send, Leave, Inv, Typed
    <3>3. CASE Panic(d, V)
      BY <2>2, <3>3 DEF Panic, Die
    <3>4. QED
      BY <3>1, <3>2, <3>3
  <2>3. QED
    BY <1>2, <2>1, <2>2 DEF Handle
<1>5. PICK V \in SUBSET Visible(snapshot[c], RolesOf[c]) : Send(c, V) \/ Panic(c, V)
  BY <1>4 DEF Filter
<1>6. ~Panic(c, V)
  BY DEF Panic, Die
<1>7. walk[c] = "open" /\ Send(c, V) /\ V \in SUBSET Names
  BY <1>1, <1>5, <1>6, SeenAreNames DEF Send, Inv, Typed
<1>8. /\ cursor[c] \in 0 .. Wrap - 1 /\ size[c] \in 1 .. MaxPageSize
      /\ cursor[c] + size[c] < Wrap
  BY <1>7, IssuedCursor
<1>9. /\ PageEnd(cursor[c], size[c], V) < Cardinality(V)
      /\ cursor'[c] = PageEnd(cursor[c], size[c], V)
  BY <1>7 DEF Send, SliceOf, Inv, Typed
<1>10. QED
  BY <1>7, <1>8, <1>9, Sliced

(* Every page but the last moves the cursor of its walk on, in a registry  *)
(* of any size: what is left of a list that does not grow gets shorter.    *)
THEOREM CursorsAdvance == Spec => PagesAdvance
<1>1. Inv /\ [Next]_vars => AdvanceStep
  BY NextAdvances
<1>2. QED
  BY <1>1, Invariance, PTL DEF Spec, PagesAdvance, AdvanceStep

(* A page holds only tools the client might call. *)
THEOREM OnlyCallableSent == Spec => []OnlyCallableListed
BY Invariance, InvImplies, PTL

(* No tool is skipped while none is lost. *)
THEOREM WalksSkipNothing == Spec => []NothingSkipped
BY Invariance, InvImplies, PTL

(* No tool is repeated while none is gained. *)
THEOREM WalksRepeatNothing == Spec => []NothingRepeated
BY Invariance, InvImplies, PTL
=============================================================================
