-------------------- MODULE ControlPlaneRegistry_proofs --------------------
(***************************************************************************)
(* ControlPlane implements Registry, with every hazard and for every value *)
(* of the constants: what the data plane and the listing assume of the     *)
(* registry is what the handlers, however they interleave, do to it.       *)
(***************************************************************************)
EXTENDS ControlPlane_proofs

USE ToolsAssumption, AbsentAssumption

(* A tool never has an upstream: not in the store, not in a request, and   *)
(* not in what a handler has read.                                         *)
ToolsAt(c) ==
  /\ pc[c] = "idle" => pre[c] = Absent
  /\ pc[c] # "idle" /\ call[c].target \in Tools =>
       /\ ~call[c].external
       /\ pre[c] # Absent => ~pre[c].external

StoreManaged == \A n \in Tools : store[n] # Absent => ~store[n].external

ToolsManaged == StoreManaged /\ \A c \in Clients : ToolsAt(c)

(* All that a handler's step may do to the registry. *)
Puts(n, r) == /\ store' = [store EXCEPT ![n] = r] /\ UNCHANGED running
              /\ r \in Records /\ (n \in Tools => ~r.external)
Removes(n) == store' = [store EXCEPT ![n] = Absent] /\ UNCHANGED running
Deploys(n, i) == running' = [running EXCEPT ![n] = i] /\ UNCHANGED store
TearsDown(n) == running' = [running EXCEPT ![n] = Absent] /\ UNCHANGED store

Effect(n) ==
  \/ UNCHANGED <<store, running>>
  \/ \E r : Puts(n, r)
  \/ Removes(n)
  \/ \E i \in Images : Deploys(n, i)
  \/ TearsDown(n)

LEMMA HandleChanges ==
  ASSUME TypeOK, ToolsManaged, NEW c \in Clients, Handle(c)
  PROVE  call[c].target \in Resources /\ Effect(call[c].target)
<1> DEFINE n == call[c].target
<1>1. /\ pc[c] # "idle" /\ call[c] \in Calls /\ n \in Resources
      /\ ToolsAt(c)
  <2>1. pc[c] # "idle"
    BY HandleKeepsCall
  <2>2. call[c] \in Calls /\ n \in Resources
    BY <2>1 DEF TypeOK, LocalsOK, Calls
  <2>3. QED
    BY <2>1, <2>2 DEF ToolsManaged
<1>2. CASE CreatePut(c)
  <2>1. At(c, "create", "put")
    BY <1>2 DEF CreatePut
  <2>2. NewRecord(call[c]) \in Records
    BY <1>1, <2>1, NewRecordType DEF At, TypeOK, LocalsOK
  <2>3. n \in Tools => ~NewRecord(call[c]).external
    BY <1>1 DEF ToolsAt, NewRecord
  <2>4. Puts(n, NewRecord(call[c])) \/ UNCHANGED <<store, running>>
    BY <1>2, <2>2, <2>3 DEF CreatePut, StoreFails, Puts
  <2>5. QED
    BY <1>1, <2>4 DEF Effect
<1>3. CASE CreateApply(c)
  <2>1. call[c].image \in Images
    BY <1>1, <1>3 DEF CreateApply, At, TypeOK, LocalsOK
  <2>2. QED
    BY <1>1, <1>3, <2>1 DEF CreateApply, Effect, Deploys
<1>4. CASE CreateRollback(c)
  BY <1>1, <1>4 DEF CreateRollback, Effect, Removes
<1>5. CASE UpdatePut(c)
  <2>1. At(c, "update", "put") /\ pre[c] \in Records
    BY <1>1, <1>5 DEF UpdatePut, At, TypeOK, LocalsOK
  <2>2. Merged(pre[c], call[c]) \in Records
    BY <1>1, <2>1, MergedType
  <2>3. n \in Tools => ~Merged(pre[c], call[c]).external
    BY <1>1, <2>1 DEF ToolsAt, Merged
  <2>4. Puts(n, Merged(pre[c], call[c])) \/ UNCHANGED <<store, running>>
    BY <1>5, <2>2, <2>3 DEF UpdatePut, StoreFails, Puts
  <2>5. QED
    BY <1>1, <2>4 DEF Effect
<1>6. CASE UpdateApply(c)
  <2>1. pre[c] \in Records
    BY <1>1, <1>6 DEF UpdateApply, At, TypeOK, LocalsOK
  <2>2. Merged(pre[c], call[c]).image \in Images
    BY <1>1, <2>1, MergedType DEF Records
  <2>3. QED
    BY <1>1, <1>6, <2>2 DEF UpdateApply, Effect, Deploys
<1>7. CASE DeleteTeardown(c)
  BY <1>1, <1>7 DEF DeleteTeardown, Effect, TearsDown
<1>8. CASE DeleteRemove(c)
  BY <1>1, <1>8 DEF DeleteRemove, StoreFails, Effect, Removes
<1>9. CASE \/ CreateAdmit(c) \/ CreateCheck(c) \/ UpdateAdmit(c)
           \/ UpdateRead(c) \/ DeleteAdmit(c) \/ DeleteRead(c) \/ Finish(c)
  BY <1>1, <1>9 DEF CreateAdmit, CreateCheck, UpdateAdmit, UpdateRead,
     DeleteAdmit, DeleteRead, Finish, StoreFails, Effect
<1>10. QED
  BY <1>2, <1>3, <1>4, <1>5, <1>6, <1>7, <1>8, <1>9 DEF Handle

-----------------------------------------------------------------------------
(* What a handler has read is the store's, or what it had already read.    *)
LEMMA HandleReads ==
  ASSUME TypeOK, NEW c \in Clients, Handle(c)
  PROVE  \/ pc'[c] = "idle" /\ pre'[c] = Absent
         \/ /\ pc'[c] # "idle" /\ call'[c] = call[c]
            /\ pre'[c] = pre[c] \/ pre'[c] = store[call[c].target]
BY DEF Handle, CreateAdmit, CreateCheck, CreatePut, CreateApply,
       CreateRollback, UpdateAdmit, UpdateRead, UpdatePut, UpdateApply,
       DeleteAdmit, DeleteRead, DeleteTeardown, DeleteRemove, Finish,
       Return, Decide, Goto, At, StoreFails, TypeOK

LEMMA EffectManaged ==
  ASSUME TypeOK, StoreManaged, NEW n \in Resources, Effect(n)
  PROVE  StoreManaged'
<1>1. ASSUME NEW r, Puts(n, r) PROVE StoreManaged'
  BY <1>1 DEF Puts, StoreManaged, TypeOK
<1>2. CASE Removes(n)
  BY <1>2 DEF Removes, StoreManaged, TypeOK
<1>3. CASE UNCHANGED store
  BY <1>3 DEF StoreManaged
<1>4. QED
  BY <1>1, <1>2, <1>3 DEF Effect, Deploys, TearsDown

LEMMA NextManaged ==
  ASSUME TypeOK, ToolsManaged, [Next]_vars PROVE ToolsManaged'
<1>1. ASSUME NEW c \in Clients, SendRequest(c) PROVE ToolsManaged'
  <2>1. CASE \E n \in Resources : Get(c, n)
    BY <2>1 DEF Get, ToolsManaged, StoreManaged, ToolsAt
  <2>2. CASE \E k \in Calls : Send(c, k) /\ (k.external => k.target \notin Tools)
    <3>1. PICK k \in Calls : Send(c, k) /\ (k.external => k.target \notin Tools)
      BY <2>2
    <3>2. pre[c] = Absent
      BY <3>1 DEF Send, ToolsManaged, ToolsAt
    <3>3. StoreManaged'
      BY <3>1 DEF Send, ToolsManaged, StoreManaged
    <3>4. ASSUME NEW d \in Clients, d # c PROVE ToolsAt(d)'
      BY <3>1, <3>4 DEF Send, Goto, ToolsManaged, ToolsAt, TypeOK
    <3>5. ToolsAt(c)'
      BY <3>1, <3>2 DEF Send, Goto, ToolsAt, TypeOK
    <3>6. QED
      BY <1>1, <3>1, <3>3, <3>4, <3>5 DEF ToolsManaged
  <2>3. QED
    BY <1>1, <2>1, <2>2, SendRequestSends
<1>2. ASSUME NEW c \in Clients, Handle(c) PROVE ToolsManaged'
  <2>1. StoreManaged'
    BY <1>2, HandleChanges, EffectManaged DEF ToolsManaged
  <2>2. ASSUME NEW d \in Clients, d # c PROVE ToolsAt(d)'
    BY <1>2, <2>2, HandleFrame DEF ToolsManaged, ToolsAt
  <2>3. ToolsAt(c)'
    <3>1. pc[c] # "idle" /\ ToolsAt(c)
      BY <1>2, HandleKeepsCall DEF ToolsManaged
    <3>2. CASE pc'[c] = "idle" /\ pre'[c] = Absent
      BY <3>2 DEF ToolsAt
    <3>3. CASE /\ pc'[c] # "idle" /\ call'[c] = call[c]
               /\ pre'[c] = pre[c] \/ pre'[c] = store[call[c].target]
      BY <3>1, <3>3 DEF ToolsAt, ToolsManaged, StoreManaged
    <3>4. QED
      BY <1>2, <3>2, <3>3, HandleReads
  <2>4. QED
    BY <2>1, <2>2, <2>3 DEF ToolsManaged
<1>3. ASSUME NEW c \in Clients, Disconnect(c) PROVE ToolsManaged'
  BY <1>3 DEF Disconnect, Return, Goto, ToolsManaged, StoreManaged, ToolsAt, TypeOK
<1>4. CASE Crash
  <2>1. StoreManaged'
    BY <1>4 DEF Crash, ToolsManaged, StoreManaged
  <2>2. \A c \in Clients : ToolsAt(c)'
    BY <1>4 DEF Crash, ToolsAt
  <2>3. QED
    BY <2>1, <2>2 DEF ToolsManaged
<1>5. CASE UNCHANGED vars
  BY <1>5 DEF vars, ToolsManaged, StoreManaged, ToolsAt
<1>6. QED
  BY <1>1, <1>2, <1>3, <1>4, <1>5 DEF Next

-----------------------------------------------------------------------------
(* The mapping: the record that is seen is the stored one without its      *)
(* revision.                                                               *)
SeenRecord == [n \in Resources |-> View(store[n])]

LEMMA ViewType ==
  ASSUME NEW n \in Resources, NEW r \in Records, n \in Tools => ~r.external
  PROVE  View(r) \in ViewsOf(n)
<1>1. View(r) = [image |-> r.image, note |-> r.note, external |-> r.external]
  BY DEF View
<1>2. r.image \in Images /\ r.note \in Notes /\ r.external \in BOOLEAN
  BY DEF Records
<1>3. r.external \in IF n \in Tools THEN {FALSE} ELSE BOOLEAN
  BY <1>2
<1>4. QED
  BY <1>1, <1>2, <1>3 DEF ViewsOf

LEMMA EffectMaps ==
  ASSUME TypeOK, NEW n \in Resources, Effect(n)
  PROVE  R!Next \/ UNCHANGED <<SeenRecord, running>>
<1>1. ASSUME NEW r, Puts(n, r) PROVE R!Put(n)
  <2>1. SeenRecord' = [SeenRecord EXCEPT ![n] = View(r)]
    BY <1>1 DEF Puts, SeenRecord, TypeOK
  <2>2. View(r) \in ViewsOf(n)
    BY <1>1, ViewType DEF Puts
  <2>3. QED
    BY <1>1, <2>1, <2>2 DEF R!Put, Puts, SeenRecord
<1>2. CASE Removes(n)
  <2>1. SeenRecord' = [SeenRecord EXCEPT ![n] = Absent]
    BY <1>2 DEF Removes, SeenRecord, View, TypeOK
  <2>2. R!Remove(n)
    BY <1>2, <2>1 DEF R!Remove, Removes, SeenRecord
  <2>3. QED
    BY <2>2 DEF R!Next
<1>3. ASSUME NEW i \in Images, Deploys(n, i) PROVE R!Deploy(n)
  <2>1. UNCHANGED SeenRecord
    BY <1>3 DEF Deploys, SeenRecord
  <2>2. QED
    BY <1>3, <2>1 DEF R!Deploy, Deploys, SeenRecord
<1>4. CASE TearsDown(n)
  <2>1. UNCHANGED SeenRecord
    BY <1>4 DEF TearsDown, SeenRecord
  <2>2. R!Teardown(n)
    BY <1>4, <2>1 DEF R!Teardown, TearsDown, SeenRecord
  <2>3. QED
    BY <2>2 DEF R!Next
<1>5. CASE UNCHANGED <<store, running>>
  BY <1>5 DEF SeenRecord
<1>6. QED
  BY <1>1, <1>2, <1>3, <1>4, <1>5 DEF Effect, R!Next

LEMMA CrashMaps ==
  ASSUME Crash PROVE R!Next \/ UNCHANGED <<SeenRecord, running>>
<1>1. CASE "volatile" \in Hazards
  <2>1. SeenRecord' = [n \in Resources |-> Absent]
    BY <1>1 DEF Crash, SeenRecord, View
  <2>2. R!Forget
    BY <2>1 DEF R!Forget, Crash, SeenRecord
  <2>3. QED
    BY <2>2 DEF R!Next
<1>2. CASE "volatile" \notin Hazards
  BY <1>2 DEF Crash, SeenRecord
<1>3. QED
  BY <1>1, <1>2

LEMMA NextMaps ==
  ASSUME TypeOK, ToolsManaged, [Next]_vars
  PROVE  R!Next \/ UNCHANGED <<SeenRecord, running>>
<1>1. ASSUME NEW c \in Clients, SendRequest(c) PROVE UNCHANGED <<store, running>>
  BY <1>1, SendRequestSends DEF Get, Send
<1>2. ASSUME NEW c \in Clients, Handle(c)
      PROVE  R!Next \/ UNCHANGED <<SeenRecord, running>>
  BY <1>2, HandleChanges, EffectMaps
<1>3. ASSUME NEW c \in Clients, Disconnect(c) PROVE UNCHANGED <<store, running>>
  BY <1>3 DEF Disconnect
<1>4. CASE UNCHANGED <<store, running>>
  BY <1>4 DEF SeenRecord
<1>5. CASE UNCHANGED vars
  BY <1>4, <1>5 DEF vars
<1>6. QED
  BY <1>1, <1>2, <1>3, <1>4, <1>5, CrashMaps DEF Next

(* The control plane implements the registry: the data plane's theorems,   *)
(* which rest on Registry alone, hold beside these handlers.               *)
THEOREM KeepsTheRegistry == Spec => ImplementsRegistry
<1>1. Init => R!Init
  BY DEF Init, R!Init, View
<1>2. Init => TypeOK /\ ToolsManaged
  <2>1. Init => TypeOK
    BY DEF Init, TypeOK, LocalsOK, Steps, Outcomes
  <2>2. Init => ToolsManaged
    BY DEF Init, ToolsManaged, StoreManaged, ToolsAt
  <2>3. QED
    BY <2>1, <2>2
<1>3. (TypeOK /\ ToolsManaged) /\ [Next]_vars => (TypeOK /\ ToolsManaged)'
  BY NextType, NextManaged
<1>4. (TypeOK /\ ToolsManaged) /\ [Next]_vars
        => [R!Next]_<<[n \in Resources |-> View(store[n])], running>>
  BY NextMaps DEF SeenRecord
<1>5. QED
  BY <1>1, <1>2, <1>3, <1>4, PTL DEF Spec, ImplementsRegistry, R!Spec
=============================================================================
