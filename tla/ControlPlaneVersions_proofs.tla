-------------------- MODULE ControlPlaneVersions_proofs --------------------
(***************************************************************************)
(* Theorems of ControlPlane about what a client is told: the version of a  *)
(* record it holds, and the success it is answered.  They build on the     *)
(* types and the exclusion of ControlPlane_proofs.                         *)
(***************************************************************************)
EXTENDS ControlPlane_proofs

USE ToolsAssumption, AbsentAssumption

(* The steps of other requests are about other resources. *)
LEMMA OtherRequest ==
  ASSUME TypeOK, CoordInv, NEW c \in Clients, NEW d \in Clients \ {c}, Handle(c),
         pc[d] # "idle"
  PROVE  /\ call[d].target \in Resources /\ call[d].target # call[c].target
         /\ store'[call[d].target] = store[call[d].target]
         /\ running'[call[d].target] = running[call[d].target]
<1>1. call[d].target \in Resources /\ call[d].target # call[c].target
  BY HandleKeepsCall DEF CoordInv, Exclusive, TypeOK, LocalsOK, Calls
<1>2. QED
  BY <1>1, HandleWrites

-----------------------------------------------------------------------------
(* What a handler has put is still there when it deploys it and when it    *)
(* answers that it has; after a rollback it answers something else.        *)
PutAt(c) ==
  /\ pc[c] = "apply" \/ (pc[c] = "audit" /\ outcome[c] = "ok")
       => store[call[c].target] = Representation(c)
  /\ pc[c] = "rollback" => outcome[c] # "ok"

PutInv == \A c \in Clients : PutAt(c)

LEMMA HandlePut ==
  ASSUME TypeOK, PutInv, NEW c \in Clients, Handle(c)
  PROVE  PutAt(c)'
<1>1. pc[c] # "idle" /\ call[c] \in Calls /\ call[c].target \in Resources
  BY HandleKeepsCall DEF TypeOK, LocalsOK, Calls
<1> USE DEF At, Goto, Decide, Return, StoreFails, PutAt
<1>2. CASE CreatePut(c)
  BY <1>1, <1>2 DEF CreatePut, Representation, TypeOK
<1>3. CASE UpdatePut(c)
  <2>1. CASE StoreFails(c)
    BY <2>1 DEF TypeOK
  <2>2. CASE ~StoreFails(c)
    <3>1. store'[call[c].target] = Merged(pre[c], call[c])
      BY <1>1, <1>3, <2>2 DEF UpdatePut, TypeOK
    <3>2. call'[c] = call[c] /\ pre'[c] = pre[c]
      BY <1>3, <2>2 DEF UpdatePut
    <3>3. call[c].verb = "update"
      BY <1>3 DEF UpdatePut
    <3>4. pc'[c] # "rollback"
      BY <1>3, <2>2 DEF UpdatePut, TypeOK
    <3>5. QED
      BY <1>3, <3>1, <3>2, <3>3, <3>4 DEF Representation
  <2>3. QED
    BY <2>1, <2>2
<1>4. CASE CreateApply(c) \/ UpdateApply(c)
  <2>1. /\ pc[c] = "apply" /\ (pc'[c] = "rollback" => outcome'[c] # "ok")
        /\ store' = store /\ call'[c] = call[c] /\ pre'[c] = pre[c]
    BY <1>4, ApplyErrorKinds DEF CreateApply, UpdateApply, TypeOK
  <2>2. Representation(c)' = Representation(c)
    BY <2>1 DEF Representation
  <2>3. QED
    BY <2>1, <2>2 DEF PutInv
<1>5. CASE DeleteRemove(c)
  BY <1>1, <1>5 DEF DeleteRemove, Representation, TypeOK
<1>6. CASE \/ CreateAdmit(c) \/ CreateCheck(c) \/ CreateRollback(c)
           \/ UpdateAdmit(c) \/ UpdateRead(c) \/ DeleteAdmit(c)
           \/ DeleteRead(c) \/ DeleteTeardown(c) \/ Finish(c)
  <2>1. /\ pc'[c] \notin {"apply", "rollback"}
        /\ pc'[c] = "audit" => outcome'[c] # "ok"
    BY <1>6 DEF CreateAdmit, CreateCheck, CreateRollback, UpdateAdmit,
                UpdateRead, DeleteAdmit, DeleteRead, DeleteTeardown, Finish,
                PutInv, TypeOK
  <2>2. QED
    BY <2>1
<1>7. QED
  BY <1>2, <1>3, <1>4, <1>5, <1>6 DEF Handle

LEMMA NextPut ==
  ASSUME TypeOK, CoordInv, PutInv, [Next]_vars
  PROVE  PutInv'
<1> USE DEF PutInv, PutAt, Representation
<1>1. ASSUME NEW c \in Clients, SendRequest(c)
      PROVE  PutInv'
  <2>1. CASE \E n \in Resources : Get(c, n)
    BY <2>1 DEF Get
  <2>2. CASE \E k \in Calls : Send(c, k)
    BY <2>2 DEF Send, Goto, TypeOK
  <2>3. QED
    BY <1>1, <2>1, <2>2, SendRequestSends
<1>2. ASSUME NEW c \in Clients, Handle(c)
      PROVE  PutInv'
  <2>1. PutAt(c)'
    BY <1>2, HandlePut
  <2>2. ASSUME NEW d \in Clients \ {c}
        PROVE  PutAt(d)'
    BY <1>2, <2>2, HandleFrame, OtherRequest
  <2>3. QED
    BY <2>1, <2>2
<1>3. ASSUME NEW c \in Clients, Disconnect(c)
      PROVE  PutInv'
  BY <1>3 DEF Disconnect, Return, Goto, TypeOK
<1>4. CASE Crash
  BY <1>4 DEF Crash
<1>5. CASE UNCHANGED vars
  BY <1>5 DEF vars
<1>6. QED
  BY <1>1, <1>2, <1>3, <1>4, <1>5 DEF Next

-----------------------------------------------------------------------------
(* Versions.  While no record is ever removed, a revision names one record *)
(* of a resource for ever; what a client knows is a record the store has   *)
(* had, and the If-Match of a request names what its client knows.         *)
NothingRemoved ==
  Hazards \cap {"overlap", "delete", "providerError", "imageRefused", "volatile"} = {}

KnownAt(c) ==
  \A n \in Resources :
    known[c][n] # Absent =>
      /\ store[n] # Absent
      /\ known[c][n].rev <= store[n].rev
      /\ known[c][n].rev = store[n].rev => known[c][n] = store[n]

TokenAt(c) ==
  /\ pc[c] # "idle" => call[c].verb # "delete"
  /\ pc[c] \notin {"rollback", "remove"}
  /\ pc[c] # "idle" /\ call[c].ifMatch # Absent =>
       /\ known[c][call[c].target] # Absent
       /\ call[c].ifMatch = known[c][call[c].target].rev
  /\ At(c, "update", "put") => PreconditionHolds(call[c], pre[c])

VersionInv == \A c \in Clients : KnownAt(c) /\ TokenAt(c)

(* A handler only ever replaces a record by one of the next revision, and  *)
(* keeps what clients know, until it answers.                              *)
LEMMA HandleStores ==
  ASSUME TypeOK, CoordInv, VersionInv, NEW c \in Clients, Handle(c), NothingRemoved
  PROVE  \A n \in Resources : store[n] # Absent =>
           \/ store'[n] = store[n]
           \/ (store'[n] # Absent /\ store'[n].rev = store[n].rev + 1)
<1>1. \A n \in Resources : store'[n] # Absent \/ store'[n] = store[n]
  <2>1. pc[c] # "rollback" /\ ~At(c, "delete", "remove") /\ pc[c] # "idle"
    BY HandleKeepsCall DEF VersionInv, TokenAt, At
  <2>2. CASE CreatePut(c)
    <3>1. NewRecord(call[c]) # Absent
      BY <2>2, NewRecordType DEF CreatePut, At, TypeOK, LocalsOK
    <3>2. \/ store' = store
          \/ store' = [store EXCEPT ![call[c].target] = NewRecord(call[c])]
      BY <2>2 DEF CreatePut, StoreFails
    <3>3. QED
      BY <3>1, <3>2 DEF TypeOK
  <2>3. CASE UpdatePut(c)
    <3>1. Merged(pre[c], call[c]) # Absent
      BY <2>3, MergedType DEF UpdatePut, At, TypeOK, LocalsOK
    <3>2. \/ store' = store
          \/ store' = [store EXCEPT ![call[c].target] = Merged(pre[c], call[c])]
      BY <2>3 DEF UpdatePut, StoreFails
    <3>3. QED
      BY <3>1, <3>2 DEF TypeOK
  <2>4. CASE ~CreatePut(c) /\ ~UpdatePut(c)
    BY <2>1, <2>4 DEF Handle, CreateAdmit, CreateCheck, CreateApply,
       CreateRollback, UpdateAdmit, UpdateRead, UpdateApply, DeleteAdmit,
       DeleteRead, DeleteTeardown, DeleteRemove, Finish, StoreFails, At
  <2>5. QED
    BY <2>2, <2>3, <2>4
<1>2. RevisionStep
  BY NextAdvances DEF Next
<1>3. QED
  BY <1>1, <1>2 DEF RevisionStep

LEMMA HandleKnown ==
  ASSUME TypeOK, CoordInv, PutInv, VersionInv, NothingRemoved,
         NEW c \in Clients, NEW d \in Clients, Handle(c)
  PROVE  KnownAt(d)'
<1> SUFFICES ASSUME NEW n \in Resources, known'[d][n] # Absent
             PROVE  /\ store'[n] # Absent
                    /\ known'[d][n].rev <= store'[n].rev
                    /\ known'[d][n].rev = store'[n].rev
                         => known'[d][n] = store'[n]
  BY DEF KnownAt
<1>1. CASE known'[d][n] = known[d][n]
  <2>1. /\ store[n] # Absent
        /\ known[d][n].rev <= store[n].rev
        /\ known[d][n].rev = store[n].rev => known[d][n] = store[n]
    BY <1>1 DEF VersionInv, KnownAt
  <2>2. known[d][n].rev \in Nat /\ store[n].rev \in Nat
    BY <1>1, <2>1 DEF TypeOK, Records
  <2>3. \/ store'[n] = store[n]
        \/ store'[n] # Absent /\ store'[n].rev = store[n].rev + 1
    BY <2>1, HandleStores
  <2>4. QED
    BY <1>1, <2>1, <2>2, <2>3
<1>2. CASE known'[d][n] # known[d][n]
  <2>1. Finish(c)
    BY <1>2 DEF Handle, CreateAdmit, CreateCheck, CreatePut, CreateApply,
       CreateRollback, UpdateAdmit, UpdateRead, UpdatePut, UpdateApply,
       DeleteAdmit, DeleteRead, DeleteTeardown, DeleteRemove, StoreFails
  <2>2. /\ d = c /\ n = call[c].target /\ outcome[c] = "ok" /\ pc[c] = "audit"
        /\ known'[d][n] = Representation(c)
        /\ store' = store
    BY <1>2, <2>1 DEF Finish, TypeOK
  <2>3. store[n] = Representation(c)
    BY <2>2 DEF PutInv, PutAt
  <2>4. known'[d][n] \in Records
    BY <2>2, <2>3 DEF TypeOK
  <2>5. QED
    BY <2>2, <2>3, <2>4 DEF Records
<1>3. QED
  BY <1>1, <1>2

LEMMA HandleToken ==
  ASSUME TypeOK, VersionInv, NothingRemoved, NEW c \in Clients, Handle(c)
  PROVE  TokenAt(c)'
<1>1. /\ pc[c] # "idle" /\ call[c].verb # "delete"
      /\ pc[c] \notin {"rollback", "remove"}
  BY HandleKeepsCall DEF VersionInv, TokenAt
<1> USE DEF At, Goto, Decide, Return, StoreFails, VersionInv, TokenAt
<1>2. CASE UpdateRead(c)
  BY <1>1, <1>2 DEF UpdateRead, PreconditionHolds, TypeOK
<1>3. CASE CreateApply(c)
  BY <1>1, <1>3 DEF CreateApply, ApplyErrors, ProviderFails, NothingRemoved, TypeOK
<1>4. CASE \/ CreateAdmit(c) \/ CreateCheck(c) \/ CreatePut(c)
           \/ UpdateAdmit(c) \/ UpdatePut(c) \/ UpdateApply(c) \/ Finish(c)
  BY <1>1, <1>4 DEF CreateAdmit, CreateCheck, CreatePut, UpdateAdmit,
                    UpdatePut, UpdateApply, Finish, TypeOK
<1>5. QED
  BY <1>1, <1>2, <1>3, <1>4
     DEF Handle, CreateRollback, DeleteAdmit, DeleteRead, DeleteTeardown,
         DeleteRemove
LEMMA NextVersion ==
  ASSUME TypeOK, CoordInv, PutInv, VersionInv, NothingRemoved, [Next]_vars
  PROVE  VersionInv'
<1> USE DEF VersionInv, KnownAt, TokenAt, At, PreconditionHolds
<1>1. ASSUME NEW c \in Clients, SendRequest(c)
      PROVE  VersionInv'
  <2>1. CASE \E n \in Resources : Get(c, n)
    <3>1. PICK n \in Resources : Get(c, n)
      BY <2>1
    <3>2. \A d \in Clients : KnownAt(d)'
      BY <3>1 DEF Get, TypeOK, Records
    <3>3. \A d \in Clients : TokenAt(d)'
      BY <3>1 DEF Get, TypeOK
    <3>4. QED
      BY <3>2, <3>3
  <2>2. CASE \E k \in Calls :
               /\ Send(c, k)
               /\ k.verb = "delete" => "delete" \in Hazards
               /\ k.ifMatch \in IfMatches(c, k.target)
    <3>1. PICK k \in Calls : /\ Send(c, k) /\ k.verb # "delete"
                             /\ k.ifMatch \in IfMatches(c, k.target)
      BY <2>2 DEF NothingRemoved
    <3>2. \A d \in Clients : KnownAt(d)'
      BY <3>1 DEF Send
    <3>3. \A d \in Clients : TokenAt(d)'
      BY <3>1 DEF Send, Goto, IfMatches, TypeOK
    <3>4. QED
      BY <3>2, <3>3
  <2>3. QED
    BY <1>1, <2>1, <2>2, SendRequestSends
<1>2. ASSUME NEW c \in Clients, Handle(c)
      PROVE  VersionInv'
  <2>1. \A d \in Clients : KnownAt(d)'
    BY <1>2, HandleKnown
  <2>2. TokenAt(c)'
    BY <1>2, HandleToken
  <2>3. ASSUME NEW d \in Clients \ {c}
        PROVE  TokenAt(d)'
    <3>1. known'[d] = known[d]
      BY <1>2, <2>3 DEF Handle, CreateAdmit, CreateCheck, CreatePut,
         CreateApply, CreateRollback, UpdateAdmit, UpdateRead, UpdatePut,
         UpdateApply, DeleteAdmit, DeleteRead, DeleteTeardown, DeleteRemove,
         Finish, StoreFails, TypeOK
    <3>2. QED
      BY <1>2, <2>3, <3>1, HandleFrame
  <2>4. QED
    BY <2>1, <2>2, <2>3
<1>3. ASSUME NEW c \in Clients, Disconnect(c)
      PROVE  VersionInv'
  BY <1>3 DEF Disconnect, Return, Goto, TypeOK
<1>4. CASE Crash
  BY <1>4 DEF Crash, NothingRemoved
<1>5. CASE UNCHANGED vars
  BY <1>5 DEF vars
<1>6. QED
  BY <1>1, <1>2, <1>3, <1>4, <1>5 DEF Next

(* Before it puts under an If-Match, a handler faces the very record its   *)
(* client was given.                                                       *)
LEMMA PutUnderToken ==
  ASSUME TypeOK, CoordInv, VersionInv, NEW c \in Clients,
         pc[c] \in {"put", "remove"}, call[c].ifMatch # Absent
  PROVE  store[call[c].target] = known[c][call[c].target]
<1> DEFINE n == call[c].target
<1>1. /\ call[c] \in Calls /\ n \in Resources /\ pc[c] = "put"
      /\ call[c].verb \in {"create", "update"}
  BY DEF TypeOK, LocalsOK, Calls, Verbs, VersionInv, TokenAt
<1>2. /\ known[c][n] # Absent /\ call[c].ifMatch = known[c][n].rev
      /\ store[n] # Absent
      /\ known[c][n].rev = store[n].rev => known[c][n] = store[n]
  BY <1>1 DEF VersionInv, TokenAt, KnownAt
<1>3. At(c, "update", "put")
  BY <1>1, <1>2 DEF CoordInv, FreshAt, At
<1>4. store[n] = pre[c] /\ call[c].ifMatch = pre[c].rev
  BY <1>3 DEF CoordInv, FreshAt, VersionInv, TokenAt, PreconditionHolds
<1>5. QED
  BY <1>2, <1>4

(* What IfMatchProtects says of one step. *)
IfMatchStep ==
  \A c \in Clients :
    pc[c] \in {"put", "remove"} /\ pc'[c] # pc[c] /\ call[c].ifMatch # Absent
      => LET n == call[c].target IN
         store'[n] # store[n] => store[n] = known[c][n]

(* Optimistic concurrency works for requests that do not overlap, as long  *)
(* as no record is ever removed (by a delete, the rollback of a create or  *)
(* a store that forgets), through store errors, hang-ups and restarts: a   *)
(* record that is removed and created again reuses the revisions.          *)
THEOREM ETagsProtect ==
  ASSUME NothingRemoved PROVE Spec => IfMatchProtects
<1> DEFINE Inv == CoordInv /\ PutInv /\ VersionInv
<1>1. Init => Inv
  BY DEF Init, CoordInv, Exclusive, FreshAt, At, PutInv, PutAt, VersionInv,
         KnownAt, TokenAt
<1>2. TypeOK /\ Inv /\ [Next]_vars => Inv'
  BY NextCoordinated, NextPut, NextVersion DEF NothingRemoved
<1>3. TypeOK /\ Inv /\ [Next]_vars => IfMatchStep
  BY PutUnderToken DEF IfMatchStep
<1>4. QED
  BY <1>1, <1>2, <1>3, TypeCorrect, PTL DEF Spec, IfMatchProtects, IfMatchStep
-----------------------------------------------------------------------------
(* Success.  With nothing to interrupt a handler between its put and its   *)
(* apply, what runs is what the record says, except while a request is in  *)
(* between; a delete that fails after the teardown would break that too.   *)
NothingFails ==
  /\ Undisturbed
  /\ Hazards \cap {"providerError", "imageRefused", "disconnect", "crash"} = {}
  /\ "delete" \notin Hazards \/ "storeError" \notin Hazards

Settling(n) ==
  \E c \in Clients : pc[c] \in {"apply", "remove"} /\ call[c].target = n

EffectAt(n) ==
  store[n] # Absent /\ ~store[n].external /\ ~Settling(n)
    => running[n] = store[n].image

PlainAt(c) ==
  /\ pc[c] # "rollback"
  /\ pc[c] # "idle" /\ call[c].verb = "delete" => "delete" \in Hazards

EffectInv ==
  /\ \A n \in Resources : EffectAt(n)
  /\ \A c \in Clients : PlainAt(c)

LEMMA HandlePlain ==
  ASSUME TypeOK, EffectInv, NEW c \in Clients, Handle(c), NothingFails
  PROVE  PlainAt(c)'
<1>1. pc[c] # "idle" /\ pc[c] # "rollback"
  BY HandleKeepsCall DEF EffectInv, PlainAt
<1>2. pc'[c] # "rollback"
  BY <1>1 DEF Handle, CreateAdmit, CreateCheck, CreatePut, CreateApply,
     CreateRollback, UpdateAdmit, UpdateRead, UpdatePut, UpdateApply,
     DeleteAdmit, DeleteRead, DeleteTeardown, DeleteRemove, Finish, At, Goto,
     Decide, Return, StoreFails, ApplyErrors, ProviderFails, NothingFails, TypeOK
<1>3. QED
  BY <1>1, <1>2, HandleKeepsCall DEF EffectInv, PlainAt

(* The one handler that is at work on a resource decides if it settles. *)
LEMMA OwnSettling ==
  ASSUME TypeOK, CoordInv, NEW c \in Clients, Handle(c),
         NEW n \in Resources, n = call[c].target
  PROVE  /\ Settling(n) => pc[c] \in {"apply", "remove"}
         /\ pc'[c] \in {"apply", "remove"} => Settling(n)'
         /\ \A m \in Resources \ {n} : Settling(m)' <=> Settling(m)
<1>1. pc[c] # "idle" /\ (pc'[c] # "idle" => call'[c] = call[c])
  BY HandleKeepsCall
<1>2. \A d \in Clients \ {c} : pc'[d] = pc[d] /\ call'[d] = call[d]
  BY HandleFrame
<1>3. Settling(n) => pc[c] \in {"apply", "remove"}
  BY <1>1 DEF Settling, CoordInv, Exclusive
<1>4. pc'[c] \in {"apply", "remove"} => Settling(n)'
  BY <1>1 DEF Settling
<1>5. ASSUME NEW m \in Resources \ {n} PROVE Settling(m)' <=> Settling(m)
  BY <1>1, <1>2 DEF Settling
<1>6. QED
  BY <1>3, <1>4, <1>5

LEMMA HandleEffect ==
  ASSUME TypeOK, CoordInv, PutInv, WorkInv, EffectInv, NothingFails,
         NEW c \in Clients, Handle(c)
  PROVE  \A m \in Resources : EffectAt(m)'
<1>a. pc[c] # "idle" /\ call[c].target \in Resources /\ call[c] \in Calls
  BY HandleKeepsCall DEF TypeOK, LocalsOK, Calls
<1>b. PICK n \in Resources : n = call[c].target
  BY <1>a
<1>1. pc[c] # "idle" /\ n = call[c].target /\ call[c] \in Calls
  BY <1>a, <1>b
<1>2. ASSUME NEW m \in Resources \ {n} PROVE EffectAt(m)'
  BY <1>1, <1>2, HandleWrites, OwnSettling DEF EffectInv, EffectAt
<1>0. SUFFICES EffectAt(n)'
  BY <1>1, <1>2
<1>3. SUFFICES ASSUME store'[n] # Absent, ~store'[n].external,
                      pc'[c] \notin {"apply", "remove"}
               PROVE  running'[n] = store'[n].image
  <2>1. pc'[c] \in {"apply", "remove"} => Settling(n)'
    BY <1>1, OwnSettling
  <2>2. QED
    BY <2>1 DEF EffectAt
<1>4. store[n] # Absent /\ ~store[n].external /\ pc[c] \notin {"apply", "remove"}
        => running[n] = store[n].image
  BY <1>1, OwnSettling DEF EffectInv, EffectAt
<1>5. /\ FreshAt(c) /\ PutAt(c) /\ WorkAt(c) /\ PlainAt(c)
  BY DEF CoordInv, PutInv, WorkInv, EffectInv
<1> USE DEF At, Goto, Decide, Return
<1>6. CASE StoreFails(c) /\ pc[c] # "remove"
  <2>1. pc[c] # "apply"
    BY <1>6, <1>5 DEF Handle, CreateAdmit, CreateCheck, CreatePut, CreateApply,
       CreateRollback, UpdateAdmit, UpdateRead, UpdatePut, UpdateApply,
       DeleteAdmit, DeleteRead, DeleteTeardown, DeleteRemove, Finish,
       StoreFails, TypeOK
  <2>2. QED
    BY <1>3, <1>4, <1>6, <2>1 DEF StoreFails
<1>7. CASE CreatePut(c) /\ ~StoreFails(c)
  BY <1>1, <1>3, <1>7 DEF CreatePut, NewRecord, TypeOK
<1>8. CASE CreateApply(c)
  BY <1>1, <1>5, <1>8 DEF CreateApply, ApplyErrors, ProviderFails, NothingFails, PutAt,
                          Representation, NewRecord, TypeOK
<1>9. CASE UpdatePut(c) /\ ~StoreFails(c)
  <2> DEFINE r == Merged(pre[c], call[c])
  <2>1. /\ store'[n] = r /\ running' = running /\ store[n] = pre[c]
        /\ ~(DeploymentChanged(pre[c], r) /\ ~r.external)
    BY <1>1, <1>3, <1>5, <1>9 DEF UpdatePut, FreshAt, TypeOK
  <2>2. ~r.external /\ r.image = pre[c].image /\ r.external = pre[c].external
    BY <1>3, <2>1 DEF DeploymentChanged
  <2>3. pre[c] \in Records
    BY <1>9 DEF UpdatePut, TypeOK, LocalsOK
  <2>4. QED
    BY <1>4, <1>9, <2>1, <2>2, <2>3 DEF UpdatePut
<1>10. CASE UpdateApply(c)
  BY <1>1, <1>5, <1>10 DEF UpdateApply, ApplyErrors, ProviderFails, NothingFails, PutAt,
                           Representation, TypeOK
<1>11. CASE DeleteTeardown(c)
  BY <1>1, <1>3, <1>11 DEF DeleteTeardown, ProviderFails, NothingFails, TypeOK
<1>12. CASE DeleteRemove(c)
  BY <1>1, <1>3, <1>5, <1>12 DEF DeleteRemove, StoreFails, PlainAt,
                                 NothingFails, TypeOK
<1>13. CASE \/ CreateAdmit(c) \/ CreateCheck(c) \/ UpdateAdmit(c)
            \/ UpdateRead(c) \/ DeleteAdmit(c) \/ DeleteRead(c) \/ Finish(c)
  BY <1>3, <1>4, <1>13 DEF CreateAdmit, CreateCheck, UpdateAdmit, UpdateRead,
                           DeleteAdmit, DeleteRead, Finish, StoreFails
<1>14. pc[c] # "rollback"
  BY <1>5 DEF PlainAt
<1>15. CASE StoreFails(c) /\ pc[c] = "remove"
  BY <1>12, <1>15 DEF Handle, CreateAdmit, CreateCheck, CreatePut, CreateApply,
     CreateRollback, UpdateAdmit, UpdateRead, UpdatePut, UpdateApply,
     DeleteAdmit, DeleteRead, DeleteTeardown, Finish
<1>16. QED
  BY <1>6, <1>7, <1>8, <1>9, <1>10, <1>11, <1>12, <1>13, <1>14, <1>15
     DEF Handle, CreateRollback
LEMMA NextEffect ==
  ASSUME TypeOK, CoordInv, PutInv, WorkInv, EffectInv, NothingFails, [Next]_vars
  PROVE  EffectInv'
<1> USE DEF EffectInv, EffectAt, PlainAt
<1>1. ASSUME NEW c \in Clients, SendRequest(c)
      PROVE  EffectInv'
  <2>1. CASE \E n \in Resources : Get(c, n)
    BY <2>1 DEF Get, Settling
  <2>2. CASE \E k \in Calls : /\ Send(c, k)
                              /\ k.verb = "delete" => "delete" \in Hazards
    <3>1. PICK k \in Calls : /\ Send(c, k)
                             /\ k.verb = "delete" => "delete" \in Hazards
      BY <2>2
    <3>2. \A n \in Resources : Settling(n)' <=> Settling(n)
      BY <3>1 DEF Send, Goto, Settling, TypeOK
    <3>3. \A d \in Clients : PlainAt(d)'
      BY <3>1 DEF Send, Goto, TypeOK
    <3>4. QED
      BY <3>1, <3>2, <3>3 DEF Send
  <2>3. QED
    BY <1>1, <2>1, <2>2, SendRequestSends
<1>2. ASSUME NEW c \in Clients, Handle(c)
      PROVE  EffectInv'
  <2>1. \A n \in Resources : EffectAt(n)'
    BY <1>2, HandleEffect
  <2>2. PlainAt(c)'
    BY <1>2, HandlePlain
  <2>3. ASSUME NEW d \in Clients \ {c}
        PROVE  PlainAt(d)'
    BY <1>2, <2>3, HandleFrame
  <2>4. QED
    BY <2>1, <2>2, <2>3
<1>3. ASSUME NEW c \in Clients, Disconnect(c)
      PROVE  EffectInv'
  BY <1>3 DEF Disconnect, NothingFails
<1>4. CASE Crash
  BY <1>4 DEF Crash, NothingFails
<1>5. CASE UNCHANGED vars
  BY <1>5 DEF vars, Settling
<1>6. QED
  BY <1>1, <1>2, <1>3, <1>4, <1>5 DEF Next

(* What SuccessIsEffective says of one step. *)
SuccessStep ==
  \A c \in Clients :
    pc[c] = "audit" /\ pc'[c] = "idle" /\ audit'[c] = "allow"
      => LET n == call[c].target
             rep == Representation(c) IN
         /\ store[n] = rep
         /\ rep = Absent => running[n] = Absent
         /\ rep # Absent /\ ~rep.external => running[n] = rep.image

LEMMA AnsweredSuccess ==
  ASSUME TypeOK, CoordInv, PutInv, WorkInv, EffectInv,
         NEW c \in Clients, pc[c] = "audit", outcome[c] = "ok"
  PROVE  LET n == call[c].target
             rep == Representation(c) IN
         /\ store[n] = rep
         /\ rep = Absent => running[n] = Absent
         /\ rep # Absent /\ ~rep.external => running[n] = rep.image
<1>1. PICK n \in Resources : n = call[c].target
  BY DEF TypeOK, LocalsOK, Calls
<1>2. store[n] = Representation(c)
  BY <1>1 DEF PutInv, PutAt
<1>3. ~Settling(n)
  BY <1>1 DEF Settling, CoordInv, Exclusive
<1>4. store[n] # Absent /\ ~store[n].external => running[n] = store[n].image
  BY <1>3 DEF EffectInv, EffectAt
<1>5. running[n] # Absent => store[n] # Absent
  BY DEF WorkInv, NoUntrackedWorkload
<1>6. QED
  BY <1>1, <1>2, <1>4, <1>5

(* What runs is what the records say, throughout. *)
EffectiveInv == CoordInv /\ PutInv /\ WorkInv /\ EffectInv

LEMMA EffectInvariant ==
  ASSUME NothingFails PROVE Spec => []EffectiveInv
<1>1. Init => EffectiveInv
  BY DEF Init, EffectiveInv, CoordInv, Exclusive, FreshAt, At, PutInv, PutAt,
         WorkInv, WorkAt, NoUntrackedWorkload, EffectInv, EffectAt, PlainAt
<1>2. TypeOK /\ EffectiveInv /\ [Next]_vars => EffectiveInv'
  BY NextCoordinated, NextPut, NextWork, NextEffect
     DEF EffectiveInv, NothingFails, Undisturbed
<1>3. QED
  BY <1>1, <1>2, TypeCorrect, PTL DEF Spec

(* S8, B5 and B6 together: while requests for one resource do not overlap  *)
(* and nothing comes between a put and its apply, a success means that the *)
(* record is stored as it was answered, that its image runs if it is       *)
(* managed, and that nothing runs if it was deleted.                       *)
THEOREM SuccessCounts ==
  ASSUME NothingFails PROVE Spec => SuccessIsEffective
<1>1. TypeOK /\ EffectiveInv /\ [Next]_vars => SuccessStep
  <2>1. ASSUME TypeOK, EffectiveInv, [Next]_vars, NEW c \in Clients, pc[c] = "audit",
               pc'[c] = "idle", audit'[c] = "allow"
        PROVE  outcome[c] = "ok"
    <3>1. ASSUME NEW d \in Clients, SendRequest(d) PROVE FALSE
      BY <2>1, <3>1, SendRequestSends DEF Get, Send, Goto, TypeOK
    <3>2. \E d \in Clients : Handle(d)
      BY <2>1, <3>1 DEF Next, Disconnect, Crash, vars, NothingFails
    <3>3. Handle(c)
      BY <2>1, <3>2, HandleFrame
    <3>4. Finish(c)
      BY <2>1, <3>3 DEF Handle, CreateAdmit, CreateCheck, CreatePut,
         CreateApply, CreateRollback, UpdateAdmit, UpdateRead, UpdatePut,
         UpdateApply, DeleteAdmit, DeleteRead, DeleteTeardown, DeleteRemove, At
    <3>5. QED
      BY <2>1, <3>4 DEF Finish, TypeOK
  <2>2. QED
    BY <2>1, AnsweredSuccess DEF SuccessStep, EffectiveInv
<1>2. QED
  BY <1>1, EffectInvariant, TypeCorrect, PTL
     DEF Spec, SuccessIsEffective, SuccessStep
=============================================================================
