------------------------ MODULE ControlPlane_proofs ------------------------
(***************************************************************************)
(* Theorems of ControlPlane, for every value of its constants.             *)
(***************************************************************************)
EXTENDS ControlPlane, TLAPS

USE ToolsAssumption, AbsentAssumption

(* What apply fails with is not a success, and not a refusal of the caller. *)
LEMMA ApplyErrorKinds == \A o \in ApplyErrors : o \in {"error", "refused"}
BY DEF ApplyErrors

(* The records a handler builds are records. *)
LEMMA NewRecordType ==
  ASSUME NEW k \in Calls, k.image \in Images, k.note \in Notes
  PROVE  NewRecord(k) \in Records
BY DEF NewRecord, Records, Calls

LEMMA MergedType ==
  ASSUME NEW p \in Records, NEW k \in Calls
  PROVE  Merged(p, k) \in Records
BY DEF Merged, Records, Calls

-----------------------------------------------------------------------------
(* TypeOK falls into what requests share and what each handler has alone.   *)
SharedTypes ==
  /\ store \in [Resources -> Records \cup {Absent}]
  /\ running \in [Resources -> Images \cup {Absent}]
  /\ known \in [Clients -> [Resources -> Records \cup {Absent}]]
  /\ audit \in [Clients -> {"none", "allow", "deny"}]
  /\ touched \in [Clients -> BOOLEAN]

LocalTypes ==
  /\ pc \in [Clients -> Steps]
  /\ call \in [Clients -> Calls \cup {Absent}]
  /\ pre \in [Clients -> Records \cup {Absent}]
  /\ outcome \in [Clients -> Outcomes]
  /\ LocalsOK

LEMMA TypeOKSplits == TypeOK <=> SharedTypes /\ LocalTypes
BY DEF TypeOK, SharedTypes, LocalTypes

LEMMA TypeOKSplitsPrimed == TypeOK' <=> SharedTypes' /\ LocalTypes'
BY DEF TypeOK, SharedTypes, LocalTypes

LEMMA DecideType ==
  ASSUME LocalTypes, NEW c \in Clients, NEW o \in Outcomes,
         pc[c] # "idle", Decide(c, o),
         o = "ok" /\ call[c].verb = "update" => pre[c] \in Records
  PROVE  LocalTypes'
<1>1. /\ pc' \in [Clients -> Steps] /\ outcome' \in [Clients -> Outcomes]
      /\ call' = call /\ pre' = pre
  BY DEF LocalTypes, Decide, Goto, Steps
<1>2. LocalsOK'
  BY DEF LocalTypes, LocalsOK, Decide, Goto
<1>3. QED
  BY <1>1, <1>2 DEF LocalTypes

LEMMA ReturnType ==
  ASSUME LocalTypes, NEW c \in Clients, NEW o \in Outcomes, Return(c, o)
  PROVE  LocalTypes'
<1>1. /\ pc' \in [Clients -> Steps] /\ outcome' \in [Clients -> Outcomes]
      /\ call' \in [Clients -> Calls \cup {Absent}]
      /\ pre' \in [Clients -> Records \cup {Absent}]
  BY DEF LocalTypes, Return, Goto, Steps
<1>2. LocalsOK'
  BY DEF LocalTypes, LocalsOK, Return, Goto
<1>3. QED
  BY <1>1, <1>2 DEF LocalTypes

LEMMA GotoType ==
  ASSUME LocalTypes, NEW c \in Clients, NEW s \in Steps \ {"idle", "audit"},
         pc[c] # "idle", Goto(c, s), call' = call,
         NEW o \in Outcomes, outcome' = [outcome EXCEPT ![c] = o],
         pre' \in [Clients -> Records \cup {Absent}],
         \A d \in Clients \ {c} : pre'[d] = pre[d],
         s \in {"put", "apply"} /\ call[c].verb = "update"
           => pre'[c] \in Records
  PROVE  LocalTypes'
<1>1. pc' \in [Clients -> Steps]
  BY DEF LocalTypes, Goto, Steps
<1>2. LocalsOK'
  BY DEF LocalTypes, LocalsOK, Goto
<1>3. QED
  BY <1>1, <1>2 DEF LocalTypes

(* Sending a request keeps the types. *)
LEMMA SendType ==
  ASSUME TypeOK, NEW c \in Clients, NEW k \in Calls, Send(c, k),
         k.verb = "create" => k.image \in Images /\ k.note \in Notes
  PROVE  TypeOK'
<1> USE DEF Send, Goto
<1>1. /\ UNCHANGED <<store, running, known, pre>>
      /\ pc' \in [Clients -> Steps]
      /\ call' \in [Clients -> Calls \cup {Absent}]
      /\ outcome' \in [Clients -> Outcomes]
      /\ audit' \in [Clients -> {"none", "allow", "deny"}]
      /\ touched' \in [Clients -> BOOLEAN]
  BY DEF TypeOK, Steps, Outcomes
<1>2. LocalsOK'
  BY DEF TypeOK, LocalsOK
<1>3. QED
  BY <1>1, <1>2 DEF TypeOK

(* A step of a handler keeps the types of what is shared ... *)
LEMMA HandleSharedType ==
  ASSUME TypeOK, NEW c \in Clients, Handle(c)
  PROVE  SharedTypes'
<1>1. pc[c] # "idle" => call[c] \in Calls /\ call[c].target \in Resources
  BY DEF TypeOK, LocalsOK, Calls
<1>2. CASE CreatePut(c)
  <2>1. NewRecord(call[c]) \in Records
    BY <1>1, <1>2, NewRecordType DEF CreatePut, At, TypeOK, LocalsOK
  <2>2. /\ store' = [store EXCEPT ![call[c].target] = NewRecord(call[c])]
           \/ store' = store
        /\ touched' = [touched EXCEPT ![c] = TRUE] \/ touched' = touched
        /\ UNCHANGED <<running, known, audit>>
    BY <1>2 DEF CreatePut, Touch, StoreFails
  <2>3. store' \in [Resources -> Records \cup {Absent}]
    BY <1>1, <1>2, <2>1, <2>2 DEF CreatePut, At, TypeOK
  <2>4. QED
    BY <2>2, <2>3 DEF TypeOK, SharedTypes
<1>3. CASE CreateApply(c)
  BY <1>1, <1>3 DEF CreateApply, At, TypeOK, LocalsOK, SharedTypes
<1>4. CASE CreateRollback(c)
  BY <1>1, <1>4 DEF CreateRollback, At, TypeOK, SharedTypes
<1>5. CASE UpdatePut(c)
  <2>1. Merged(pre[c], call[c]) \in Records
    BY <1>1, <1>5, MergedType DEF UpdatePut, At, TypeOK, LocalsOK
  <2>2. /\ store' = [store EXCEPT ![call[c].target] = Merged(pre[c], call[c])]
           \/ store' = store
        /\ touched' = [touched EXCEPT ![c] = TRUE] \/ touched' = touched
        /\ UNCHANGED <<running, known, audit>>
    BY <1>5 DEF UpdatePut, Touch, StoreFails
  <2>3. store' \in [Resources -> Records \cup {Absent}]
    BY <1>1, <1>5, <2>1, <2>2 DEF UpdatePut, At, TypeOK
  <2>4. QED
    BY <2>2, <2>3 DEF TypeOK, SharedTypes
<1>6. CASE UpdateApply(c)
  <2>1. Merged(pre[c], call[c]).image \in Images
    BY <1>1, <1>6, MergedType
       DEF UpdateApply, At, TypeOK, LocalsOK, Records
  <2>2. QED
    BY <1>1, <1>6, <2>1 DEF UpdateApply, At, TypeOK, SharedTypes
<1>7. CASE DeleteTeardown(c)
  BY <1>1, <1>7 DEF DeleteTeardown, At, Touch, TypeOK, SharedTypes
<1>8. CASE DeleteRemove(c)
  BY <1>1, <1>8 DEF DeleteRemove, At, Touch, StoreFails, TypeOK, SharedTypes
<1>9. CASE Finish(c)
  <2>1. outcome[c] = "ok" => Representation(c) \in Records \cup {Absent}
    BY <1>1, <1>9, NewRecordType, MergedType
       DEF Finish, Representation, TypeOK, LocalsOK
  <2>2. known' \in [Clients -> [Resources -> Records \cup {Absent}]]
    BY <1>1, <1>9, <2>1 DEF Finish, TypeOK
  <2>3. audit' \in [Clients -> {"none", "allow", "deny"}]
    BY <1>9 DEF Finish, TypeOK
  <2>4. QED
    BY <1>9, <2>2, <2>3 DEF Finish, TypeOK, SharedTypes
<1>10. CASE \/ CreateAdmit(c) \/ CreateCheck(c) \/ UpdateAdmit(c)
            \/ UpdateRead(c) \/ DeleteAdmit(c) \/ DeleteRead(c)
  BY <1>10 DEF CreateAdmit, CreateCheck, UpdateAdmit, UpdateRead, DeleteAdmit,
               DeleteRead, StoreFails, TypeOK, SharedTypes
<1>11. QED
  BY <1>2, <1>3, <1>4, <1>5, <1>6, <1>7, <1>8, <1>9, <1>10 DEF Handle

(* ... and of its locals. *)
LEMMA HandleLocalType ==
  ASSUME TypeOK, NEW c \in Clients, Handle(c)
  PROVE  LocalTypes'
<1> USE DEF At, Outcomes, Rejections, Steps
<1>0. LocalTypes
  BY TypeOKSplits
<1>1. CASE CreateAdmit(c)
  BY <1>0, <1>1, DecideType, GotoType DEF CreateAdmit, LocalTypes
<1>2. CASE CreateCheck(c)
  BY <1>0, <1>2, DecideType, ReturnType, GotoType
     DEF CreateCheck, StoreFails, LocalTypes
<1>3. CASE CreatePut(c)
  BY <1>0, <1>3, DecideType, ReturnType, GotoType
     DEF CreatePut, StoreFails, LocalTypes
<1>4. CASE CreateApply(c)
  <2>1. CASE Decide(c, "ok")
    BY <1>0, <1>4, <2>1, DecideType DEF CreateApply
  <2>2. ASSUME NEW o \in ApplyErrors, outcome' = [outcome EXCEPT ![c] = o],
               Goto(c, "rollback"), UNCHANGED <<call, pre>>
        PROVE  LocalTypes'
    <3>1. o \in Outcomes
      BY ApplyErrorKinds
    <3>2. /\ pc[c] # "idle" /\ call' = call /\ pre' = pre
          /\ pre' \in [Clients -> Records \cup {Absent}]
      BY <1>0, <1>4, <2>2 DEF CreateApply, LocalTypes
    <3>3. "rollback" \in Steps \ {"idle", "audit"}
      OBVIOUS
    <3>4. QED
      BY <1>0, <2>2, <3>1, <3>2, <3>3, GotoType
  <2>3. QED
    BY <1>4, <2>1, <2>2 DEF CreateApply
<1>5. CASE CreateRollback(c)
  BY <1>0, <1>5, DecideType DEF CreateRollback, LocalTypes
<1>6. CASE UpdateAdmit(c)
  BY <1>0, <1>6, DecideType, ReturnType, GotoType DEF UpdateAdmit, LocalTypes
<1>7. CASE UpdateRead(c)
  <2> DEFINE rec == store[call[c].target]
  <2>1. call[c].target \in Resources /\ rec \in Records \cup {Absent}
    BY <1>7 DEF UpdateRead, TypeOK, LocalsOK, Calls
  <2>2. CASE Goto(c, "put") /\ UNCHANGED <<call, outcome>>
             /\ rec # Absent /\ pre' = [pre EXCEPT ![c] = rec]
    BY <1>0, <1>7, <2>1, <2>2, GotoType DEF UpdateRead, LocalTypes
  <2>3. QED
    BY <1>0, <1>7, <2>2, DecideType, ReturnType DEF UpdateRead
<1>8. CASE UpdatePut(c)
  <2>1. pre[c] \in Records
    BY <1>8 DEF UpdatePut, TypeOK, LocalsOK
  <2>2. QED
    BY <1>0, <1>8, <2>1, DecideType, ReturnType, GotoType
       DEF UpdatePut, StoreFails, LocalTypes
<1>9. CASE UpdateApply(c)
  <2>1. pre[c] \in Records
    BY <1>9 DEF UpdateApply, TypeOK, LocalsOK
  <2>2. QED
    BY <1>0, <1>9, <2>1, DecideType, ApplyErrorKinds DEF UpdateApply
<1>10. CASE DeleteAdmit(c)
  BY <1>0, <1>10, DecideType, GotoType DEF DeleteAdmit, LocalTypes
<1>11. CASE DeleteRead(c)
  <2> DEFINE rec == store[call[c].target]
  <2>1. call[c].target \in Resources /\ rec \in Records \cup {Absent}
    BY <1>11 DEF DeleteRead, TypeOK, LocalsOK, Calls
  <2>2. CASE Goto(c, IF rec.external THEN "remove" ELSE "teardown")
             /\ UNCHANGED <<call, outcome>>
             /\ rec # Absent /\ pre' = [pre EXCEPT ![c] = rec]
    BY <1>0, <1>11, <2>1, <2>2, GotoType DEF DeleteRead, LocalTypes
  <2>3. QED
    BY <1>0, <1>11, <2>2, DecideType, ReturnType DEF DeleteRead
<1>12. CASE DeleteTeardown(c)
  BY <1>0, <1>12, DecideType, GotoType DEF DeleteTeardown, LocalTypes
<1>13. CASE DeleteRemove(c)
  BY <1>0, <1>13, DecideType, ReturnType DEF DeleteRemove, StoreFails
<1>14. CASE Finish(c)
  BY <1>0, <1>14 DEF Finish, Goto, LocalTypes, LocalsOK
<1>15. QED
  BY <1>1, <1>2, <1>3, <1>4, <1>5, <1>6, <1>7, <1>8, <1>9, <1>10, <1>11,
     <1>12, <1>13, <1>14 DEF Handle

(* A client that is not waiting sends a well-formed request or a GET. *)
LEMMA SendRequestSends ==
  ASSUME TypeOK, NEW c \in Clients, SendRequest(c)
  PROVE  \/ \E n \in Resources : Get(c, n)
         \/ \E k \in Calls :
              /\ Send(c, k)
              /\ k.verb = "create" => k.image \in Images /\ k.note \in Notes
              /\ k.verb = "update" /\ k.external => "attach" \in Hazards
              /\ k.verb = "delete" => "delete" \in Hazards
              /\ k.external => k.target \notin Tools
              /\ k.ifMatch \in IfMatches(c, k.target)
<1>1. PICK n \in Resources :
        \/ SendCreateAdapter(c, n) \/ SendCreateTool(c, n)
        \/ SendUpdateAdapter(c, n) \/ SendUpdateTool(c, n)
        \/ SendDelete(c, n) \/ Get(c, n)
  BY DEF SendRequest
<1>2. IfMatches(c, n) \subseteq Nat \cup {Absent}
  BY DEF IfMatches, TypeOK, Records
<1>3. CASE SendCreateAdapter(c, n)
  <2>1. PICK i \in Images, t \in Notes, x \in BOOLEAN :
          /\ n \notin Tools
          /\ Send(c, [ verb |-> "create", target |-> n, image |-> i, note |-> t,
                       external |-> x, ifMatch |-> Absent ])
    BY <1>3 DEF SendCreateAdapter
  <2> DEFINE k == [ verb |-> "create", target |-> n, image |-> i, note |-> t,
                    external |-> x, ifMatch |-> Absent ]
  <2>2. /\ k \in Calls /\ k.verb = "create" /\ k.image \in Images /\ k.note \in Notes
        /\ k.ifMatch \in IfMatches(c, k.target)
        /\ k.external => k.target \notin Tools
    BY <2>1 DEF Calls, Verbs, IfMatches
  <2>3. Send(c, k)
    BY <2>1
  <2> HIDE DEF k
  <2>4. QED
    BY <2>2, <2>3
<1>4. CASE SendCreateTool(c, n)
  <2>1. PICK i \in Images, t \in Notes :
          Send(c, [ verb |-> "create", target |-> n, image |-> i, note |-> t,
                    external |-> FALSE, ifMatch |-> Absent ])
    BY <1>4 DEF SendCreateTool
  <2> DEFINE k == [ verb |-> "create", target |-> n, image |-> i, note |-> t,
                    external |-> FALSE, ifMatch |-> Absent ]
  <2>2. /\ k \in Calls /\ k.verb = "create" /\ k.image \in Images /\ k.note \in Notes
        /\ k.ifMatch \in IfMatches(c, k.target)
        /\ k.external => k.target \notin Tools
    BY DEF Calls, Verbs, IfMatches
  <2>3. Send(c, k)
    BY <2>1
  <2> HIDE DEF k
  <2>4. QED
    BY <2>2, <2>3
<1>5. CASE SendUpdateAdapter(c, n)
  <2>1. PICK i \in Images \cup {Absent}, t \in Notes \cup {Absent},
             x \in BOOLEAN, e \in IfMatches(c, n) :
          /\ n \notin Tools
          /\ x => "attach" \in Hazards
          /\ Send(c, [ verb |-> "update", target |-> n, image |-> i,
                       note |-> t, external |-> x, ifMatch |-> e ])
    BY <1>5 DEF SendUpdateAdapter
  <2> DEFINE k == [ verb |-> "update", target |-> n, image |-> i, note |-> t,
                    external |-> x, ifMatch |-> e ]
  <2>2. /\ k \in Calls /\ k.verb = "update" /\ k.external = x
        /\ k.ifMatch \in IfMatches(c, k.target)
        /\ k.external => k.target \notin Tools
    BY <1>2, <2>1 DEF Calls, Verbs
  <2>3. Send(c, k) /\ (x => "attach" \in Hazards)
    BY <2>1
  <2> HIDE DEF k
  <2>4. QED
    BY <2>2, <2>3
<1>6. CASE SendUpdateTool(c, n)
  <2>1. PICK i \in Images \cup {Absent}, t \in Notes \cup {Absent},
             e \in IfMatches(c, n) :
          Send(c, [ verb |-> "update", target |-> n, image |-> i,
                    note |-> t, external |-> FALSE, ifMatch |-> e ])
    BY <1>6 DEF SendUpdateTool
  <2> DEFINE k == [ verb |-> "update", target |-> n, image |-> i, note |-> t,
                    external |-> FALSE, ifMatch |-> e ]
  <2>2. /\ k \in Calls /\ k.verb = "update" /\ k.external = FALSE
        /\ k.ifMatch \in IfMatches(c, k.target)
        /\ k.external => k.target \notin Tools
    BY <1>2 DEF Calls, Verbs
  <2>3. Send(c, k)
    BY <2>1
  <2> HIDE DEF k
  <2>4. QED
    BY <2>2, <2>3
<1>7. CASE SendDelete(c, n)
  <2>1. PICK e \in IfMatches(c, n) :
          /\ "delete" \in Hazards
          /\ Send(c, [ verb |-> "delete", target |-> n, image |-> Absent,
                       note |-> Absent, external |-> FALSE, ifMatch |-> e ])
    BY <1>7 DEF SendDelete
  <2> DEFINE k == [ verb |-> "delete", target |-> n, image |-> Absent,
                    note |-> Absent, external |-> FALSE, ifMatch |-> e ]
  <2>2. /\ k \in Calls /\ k.verb = "delete" /\ k.external = FALSE
        /\ k.ifMatch \in IfMatches(c, k.target)
        /\ k.external => k.target \notin Tools
    BY <1>2 DEF Calls, Verbs
  <2>3. Send(c, k) /\ "delete" \in Hazards
    BY <2>1
  <2> HIDE DEF k
  <2>4. QED
    BY <2>2, <2>3
<1>8. CASE Get(c, n)
  BY <1>8
<1>9. QED
  BY <1>1, <1>3, <1>4, <1>5, <1>6, <1>7, <1>8

(* Every step keeps the types. *)
LEMMA NextType ==
  ASSUME TypeOK, [Next]_vars
  PROVE  TypeOK'
<1>1. ASSUME NEW c \in Clients, SendRequest(c)
      PROVE  TypeOK'
  <2>1. CASE \E n \in Resources : Get(c, n)
    BY <2>1 DEF Get, TypeOK, LocalsOK
  <2>2. CASE \E k \in Calls :
               /\ Send(c, k)
               /\ k.verb = "create" => k.image \in Images /\ k.note \in Notes
    BY <2>2, SendType
  <2>3. QED
    BY <1>1, <2>1, <2>2, SendRequestSends
<1>2. ASSUME NEW c \in Clients, Handle(c)
      PROVE  TypeOK'
  BY <1>2, HandleSharedType, HandleLocalType, TypeOKSplitsPrimed
<1>3. ASSUME NEW c \in Clients, Disconnect(c)
      PROVE  TypeOK'
  <2>1. LocalTypes'
    BY <1>3, ReturnType, TypeOKSplits DEF Disconnect, Outcomes
  <2>2. SharedTypes'
    BY <1>3 DEF Disconnect, TypeOK, SharedTypes
  <2>3. QED
    BY <2>1, <2>2, TypeOKSplitsPrimed
<1>4. CASE Crash
  BY <1>4 DEF Crash, TypeOK, LocalsOK, Steps, Outcomes
<1>5. CASE UNCHANGED vars
  BY <1>5 DEF vars, TypeOK, LocalsOK
<1>6. QED
  BY <1>1, <1>2, <1>3, <1>4, <1>5 DEF Next

(* Type correctness: the variables and the locals of every handler hold    *)
(* values of their types, whatever the requests and the faults.            *)
THEOREM TypeCorrect == Spec => []TypeOK
<1>1. Init => TypeOK
  BY DEF Init, TypeOK, LocalsOK, Steps, Outcomes
<1>2. TypeOK /\ [Next]_vars => TypeOK'
  BY NextType
<1>3. QED
  BY <1>1, <1>2, PTL DEF Spec

-----------------------------------------------------------------------------
(* The handler's own refusals come before its first effect: while it may   *)
(* still refuse it has touched nothing, and past admission it has its      *)
(* grant.  A rollback knows the error of the provider that it will answer. *)
CleanAt(c) ==
  /\ pc[c] \in {"admit", "read", "put"} => ~touched[c]
  /\ pc[c] \notin {"idle", "rollback", "audit"} => outcome[c] = "none"
  /\ pc[c] = "rollback" => outcome[c] \in {"error", "refused"}
  /\ pc[c] \notin {"idle", "admit", "audit"} => Granted(c)
  /\ touched[c] /\ pc[c] # "idle" => Granted(c)
  /\ outcome[c] \in Rejections \ {"refused"} => ~touched[c]

CleanInv == \A c \in Clients : CleanAt(c)

(* A handler's step leaves the variables of another client's request alone. *)
LEMMA HandleFrame ==
  ASSUME TypeOK, NEW c \in Clients, NEW d \in Clients \ {c},
         Handle(c) \/ Disconnect(c)
  PROVE  /\ pc'[d] = pc[d] /\ call'[d] = call[d] /\ pre'[d] = pre[d]
         /\ outcome'[d] = outcome[d] /\ touched'[d] = touched[d]
BY DEF Handle, CreateAdmit, CreateCheck, CreatePut, CreateApply,
       CreateRollback, UpdateAdmit, UpdateRead, UpdatePut, UpdateApply,
       DeleteAdmit, DeleteRead, DeleteTeardown, DeleteRemove, Finish,
       Disconnect, Return, Decide, Goto, Touch, StoreFails, TypeOK

(* A handler's step keeps its request until it ends. *)
LEMMA HandleKeepsCall ==
  ASSUME TypeOK, NEW c \in Clients, Handle(c)
  PROVE  /\ pc[c] # "idle"
         /\ pc'[c] # "idle" => call'[c] = call[c]
BY DEF Handle, CreateAdmit, CreateCheck, CreatePut, CreateApply,
       CreateRollback, UpdateAdmit, UpdateRead, UpdatePut, UpdateApply,
       DeleteAdmit, DeleteRead, DeleteTeardown, DeleteRemove, Finish,
       Return, Decide, Goto, At, StoreFails, TypeOK

LEMMA HandleClean ==
  ASSUME TypeOK, CleanInv, NEW c \in Clients, Handle(c)
  PROVE  CleanAt(c)'
<1> USE DEF CleanInv, CleanAt, Granted, Rejections, At, Goto, Decide, Return,
            Touch, StoreFails
<1>1. CASE CreateAdmit(c)
  BY <1>1 DEF CreateAdmit, TypeOK
<1>2. CASE CreateCheck(c)
  BY <1>2 DEF CreateCheck, TypeOK
<1>3. CASE CreatePut(c)
  BY <1>3 DEF CreatePut, TypeOK
<1>4. CASE CreateApply(c)
  BY <1>4, ApplyErrorKinds DEF CreateApply, TypeOK
<1>5. CASE CreateRollback(c)
  BY <1>5 DEF CreateRollback, TypeOK
<1>6. CASE UpdateAdmit(c)
  BY <1>6 DEF UpdateAdmit, TypeOK
<1>7. CASE UpdateRead(c)
  BY <1>7 DEF UpdateRead, TypeOK
<1>8. CASE UpdatePut(c)
  BY <1>8 DEF UpdatePut, TypeOK
<1>9. CASE UpdateApply(c)
  BY <1>9, ApplyErrorKinds DEF UpdateApply, TypeOK
<1>10. CASE DeleteAdmit(c)
  BY <1>10 DEF DeleteAdmit, TypeOK
<1>11. CASE DeleteRead(c)
  BY <1>11 DEF DeleteRead, TypeOK
<1>12. CASE DeleteTeardown(c)
  BY <1>12 DEF DeleteTeardown, TypeOK
<1>13. CASE DeleteRemove(c)
  BY <1>13 DEF DeleteRemove, TypeOK
<1>14. CASE Finish(c)
  BY <1>14 DEF Finish, TypeOK
<1>15. QED
  BY <1>1, <1>2, <1>3, <1>4, <1>5, <1>6, <1>7, <1>8, <1>9, <1>10, <1>11,
     <1>12, <1>13, <1>14 DEF Handle

LEMMA NextClean ==
  ASSUME TypeOK, CleanInv, [Next]_vars
  PROVE  CleanInv'
<1>1. ASSUME NEW c \in Clients, SendRequest(c)
      PROVE  CleanInv'
  <2>1. CASE \E n \in Resources : Get(c, n)
    BY <2>1 DEF Get, CleanInv, CleanAt, Granted
  <2>2. CASE \E k \in Calls : Send(c, k)
    BY <2>2 DEF Send, Goto, CleanInv, CleanAt, Granted, TypeOK, Rejections
  <2>3. QED
    BY <1>1, <2>1, <2>2, SendRequestSends
<1>2. ASSUME NEW c \in Clients, Handle(c)
      PROVE  CleanInv'
  <2>1. CleanAt(c)'
    BY <1>2, HandleClean
  <2>2. ASSUME NEW d \in Clients \ {c}
        PROVE  CleanAt(d)'
    BY <1>2, <2>2, HandleFrame DEF CleanInv, CleanAt, Granted
  <2>3. QED
    BY <2>1, <2>2 DEF CleanInv
<1>3. ASSUME NEW c \in Clients, Disconnect(c)
      PROVE  CleanInv'
  BY <1>3 DEF Disconnect, Return, Goto, CleanInv, CleanAt, Granted, TypeOK,
              Rejections
<1>4. CASE Crash
  BY <1>4 DEF Crash, CleanInv, CleanAt, Granted, TypeOK, Rejections
<1>5. CASE UNCHANGED vars
  BY <1>5 DEF vars, CleanInv, CleanAt, Granted
<1>6. QED
  BY <1>1, <1>2, <1>3, <1>4, <1>5 DEF Next

(* A request that its handler refuses (403, 400, 404, 409) has changed      *)
(* neither the store nor the provider, and whoever changed something was   *)
(* allowed to: under every interleaving, fault and restart.  The 400 with  *)
(* which apply refuses an image is the one exception, and comes after put. *)
THEOREM RefusalsAreClean == Spec => []RejectionIsClean
<1>1. Init => CleanInv
  BY DEF Init, CleanInv, CleanAt, Rejections
<1>2. TypeOK /\ CleanInv /\ [Next]_vars => CleanInv'
  BY NextClean
<1>3. CleanInv => RejectionIsClean
  BY DEF CleanInv, CleanAt, RejectionIsClean
<1>4. QED
  BY <1>1, <1>2, <1>3, TypeCorrect, PTL DEF Spec

-----------------------------------------------------------------------------
(* Audit.  A handler that returns without a record has touched nothing, as *)
(* long as the removal of a record, the last step of a delete, succeeds.   *)
RemovalsSucceed == "delete" \notin Hazards \/ "storeError" \notin Hazards

AuditedAt(c) ==
  pc[c] = "idle" /\ outcome[c] # "none" /\ touched[c]
    => audit[c] = IF outcome[c] = "ok" THEN "allow" ELSE "deny"

(* Only clients that send deletes have one under way. *)
DeletesSent ==
  \A c \in Clients :
    pc[c] # "idle" /\ call[c].verb = "delete" => "delete" \in Hazards

LEMMA NextDeletes ==
  ASSUME TypeOK, DeletesSent, [Next]_vars PROVE DeletesSent'
<1> USE DEF DeletesSent
<1>1. ASSUME NEW c \in Clients, SendRequest(c) PROVE DeletesSent'
  <2>1. PICK n \in Resources :
          \/ SendCreateAdapter(c, n) \/ SendCreateTool(c, n)
          \/ SendUpdateAdapter(c, n) \/ SendUpdateTool(c, n)
          \/ SendDelete(c, n) \/ Get(c, n)
    BY <1>1 DEF SendRequest
  <2>2. ASSUME NEW k, Send(c, k), k.verb = "delete" => "delete" \in Hazards
        PROVE  DeletesSent'
    BY <2>2 DEF Send, Goto, TypeOK
  <2>3. CASE SendCreateAdapter(c, n)
    BY <2>2, <2>3 DEF SendCreateAdapter
  <2>4. CASE SendCreateTool(c, n)
    BY <2>2, <2>4 DEF SendCreateTool
  <2>5. CASE SendUpdateAdapter(c, n)
    BY <2>2, <2>5 DEF SendUpdateAdapter
  <2>6. CASE SendUpdateTool(c, n)
    BY <2>2, <2>6 DEF SendUpdateTool
  <2>7. CASE SendDelete(c, n)
    BY <2>2, <2>7 DEF SendDelete
  <2>8. CASE Get(c, n)
    BY <2>8 DEF Get
  <2>9. QED
    BY <2>1, <2>3, <2>4, <2>5, <2>6, <2>7, <2>8
<1>2. ASSUME NEW c \in Clients, Handle(c) PROVE DeletesSent'
  <2>1. \A d \in Clients \ {c} : pc'[d] = pc[d] /\ call'[d] = call[d]
    BY <1>2, HandleFrame
  <2>2. pc[c] # "idle" /\ (pc'[c] # "idle" => call'[c] = call[c])
    BY <1>2, HandleKeepsCall
  <2>3. QED
    BY <2>1, <2>2
<1>3. ASSUME NEW c \in Clients, Disconnect(c) PROVE DeletesSent'
  <2>1. \A d \in Clients \ {c} : pc'[d] = pc[d] /\ call'[d] = call[d]
    BY <1>3, HandleFrame
  <2>2. pc'[c] = "idle"
    BY <1>3 DEF Disconnect, Return, Goto, TypeOK
  <2>3. QED
    BY <2>1, <2>2
<1>4. CASE Crash
  BY <1>4 DEF Crash
<1>5. CASE UNCHANGED vars
  BY <1>5 DEF vars
<1>6. QED
  BY <1>1, <1>2, <1>3, <1>4, <1>5 DEF Next

LEMMA HandleAudited ==
  ASSUME TypeOK, CleanInv, DeletesSent, RemovalsSucceed, NEW c \in Clients, Handle(c)
  PROVE  AuditedAt(c)'
<1> USE DEF At, Goto, Decide, Return, AuditedAt
<1>1. CASE Finish(c)
  BY <1>1 DEF Finish, TypeOK
<1>2. CASE \/ UpdateAdmit(c) \/ UpdateRead(c) \/ DeleteRead(c)
           \/ CreateCheck(c) \/ CreatePut(c) \/ UpdatePut(c)
  BY <1>2 DEF UpdateAdmit, UpdateRead, DeleteRead, CreateCheck, CreatePut,
     UpdatePut, StoreFails, CleanInv, CleanAt, TypeOK
<1>3. CASE DeleteRemove(c)
  BY <1>3 DEF DeleteRemove, StoreFails, DeletesSent, RemovalsSucceed, TypeOK
<1>4. CASE \/ CreateAdmit(c) \/ CreateApply(c) \/ CreateRollback(c)
           \/ UpdateApply(c) \/ DeleteAdmit(c) \/ DeleteTeardown(c)
  <2>1. pc'[c] # "idle"
    BY <1>4 DEF CreateAdmit, CreateApply, CreateRollback, UpdateApply,
                DeleteAdmit, DeleteTeardown, TypeOK
  <2>2. QED
    BY <2>1
<1>5. QED
  BY <1>1, <1>2, <1>3, <1>4 DEF Handle

(* However requests interleave, are dropped or are cut off by a restart,   *)
(* and whatever the provider fails, a request that changed something is    *)
(* answered only after the audit record that its response calls for.       *)
THEOREM ChangesAreAudited ==
  ASSUME RemovalsSucceed PROVE Spec => []ChangesAudited
<1> DEFINE Inv == CleanInv /\ DeletesSent
<1>1. Init => Inv /\ ChangesAudited
  BY DEF Init, CleanInv, CleanAt, Rejections, DeletesSent, ChangesAudited
<1>2. TypeOK /\ Inv /\ [Next]_vars => Inv'
  BY NextClean, NextDeletes
<1>3. TypeOK /\ Inv /\ ChangesAudited /\ [Next]_vars => ChangesAudited'
  <2> SUFFICES ASSUME TypeOK, Inv, ChangesAudited, [Next]_vars,
                      NEW d \in Clients
               PROVE  AuditedAt(d)'
    BY DEF ChangesAudited, AuditedAt
  <2> USE DEF ChangesAudited, AuditedAt
  <2>1. ASSUME NEW c \in Clients, SendRequest(c) PROVE AuditedAt(d)'
    BY <2>1, SendRequestSends DEF Get, Send, Goto, TypeOK
  <2>2. ASSUME NEW c \in Clients, Handle(c) PROVE AuditedAt(d)'
    <3>1. CASE d = c
      BY <2>2, <3>1, HandleAudited
    <3>2. CASE d # c
      <4>1. audit'[d] = audit[d]
        BY <2>2, <3>2 DEF Handle, CreateAdmit, CreateCheck, CreatePut,
           CreateApply, CreateRollback, UpdateAdmit, UpdateRead, UpdatePut,
           UpdateApply, DeleteAdmit, DeleteRead, DeleteTeardown,
           DeleteRemove, Finish, StoreFails, TypeOK
      <4>2. QED
        BY <2>2, <3>2, <4>1, HandleFrame
    <3>3. QED
      BY <3>1, <3>2
  <2>3. ASSUME NEW c \in Clients, Disconnect(c) PROVE AuditedAt(d)'
    BY <2>3 DEF Disconnect, Return, Goto, TypeOK
  <2>4. CASE Crash \/ UNCHANGED vars
    <3>1. /\ UNCHANGED <<audit, touched>>
          /\ outcome'[d] # "none" => outcome'[d] = outcome[d] /\ pc'[d] = pc[d]
      BY <2>4 DEF Crash, vars
    <3>2. QED
      BY <3>1
  <2>5. QED
    BY <2>1, <2>2, <2>3, <2>4 DEF Next
<1>4. QED
  BY <1>1, <1>2, <1>3, TypeCorrect, PTL DEF Spec

-----------------------------------------------------------------------------
(* Clients that do not overlap on one resource.  The handlers themselves   *)
(* exclude nobody, so this is where the argument starts: what a handler    *)
(* has read is still what the store holds when it writes.                  *)
Exclusive ==
  \A c, d \in Clients :
    c # d /\ pc[c] # "idle" /\ pc[d] # "idle"
      => call[c].target # call[d].target

FreshAt(c) ==
  /\ At(c, "create", "put") => store[call[c].target] = Absent
  /\ At(c, "update", "put") => store[call[c].target] = pre[c]

CoordInv == Exclusive /\ \A c \in Clients : FreshAt(c)

(* A handler's step writes only what is kept for its own resource. *)
LEMMA HandleWrites ==
  ASSUME TypeOK, NEW c \in Clients, Handle(c),
         NEW n \in Resources, n # call[c].target
  PROVE  store'[n] = store[n] /\ running'[n] = running[n]
BY DEF Handle, CreateAdmit, CreateCheck, CreatePut, CreateApply,
       CreateRollback, UpdateAdmit, UpdateRead, UpdatePut, UpdateApply,
       DeleteAdmit, DeleteRead, DeleteTeardown, DeleteRemove, Finish,
       StoreFails, TypeOK

(* A handler that is about to put has just read, in a step of its own. *)
LEMMA HandleFresh ==
  ASSUME TypeOK, NEW c \in Clients, Handle(c)
  PROVE  FreshAt(c)'
<1> USE DEF At, Goto, Decide, Return, FreshAt
<1>1. CASE CreateCheck(c)
  BY <1>1 DEF CreateCheck, StoreFails, TypeOK
<1>2. CASE UpdateRead(c)
  BY <1>2 DEF UpdateRead, TypeOK
<1>3. CASE \/ CreateAdmit(c) \/ CreatePut(c) \/ CreateApply(c)
           \/ CreateRollback(c) \/ UpdateAdmit(c) \/ UpdatePut(c)
           \/ UpdateApply(c) \/ DeleteAdmit(c) \/ DeleteRead(c)
           \/ DeleteTeardown(c) \/ DeleteRemove(c) \/ Finish(c)
  <2>1. pc'[c] # "put"
    BY <1>3 DEF CreateAdmit, CreatePut, CreateApply, CreateRollback,
                UpdateAdmit, UpdatePut, UpdateApply, DeleteAdmit, DeleteRead,
                DeleteTeardown, DeleteRemove, Finish, StoreFails, TypeOK
  <2>2. QED
    BY <2>1
<1>4. QED
  BY <1>1, <1>2, <1>3 DEF Handle

LEMMA NextCoordinated ==
  ASSUME TypeOK, CoordInv, [Next]_vars, "overlap" \notin Hazards
  PROVE  CoordInv'
<1> USE DEF At
<1>1. ASSUME NEW c \in Clients, SendRequest(c)
      PROVE  CoordInv'
  <2>1. CASE \E n \in Resources : Get(c, n)
    BY <2>1 DEF Get, CoordInv, Exclusive, FreshAt
  <2>2. CASE \E k \in Calls : Send(c, k)
    <3>1. PICK k \in Calls : Send(c, k)
      BY <2>2
    <3>2. \A d \in Clients : pc[d] # "idle" => call[d].target # k.target
      BY <3>1 DEF Send, Free
    <3>3. Exclusive'
      BY <3>1, <3>2 DEF Send, Goto, CoordInv, Exclusive, TypeOK
    <3>4. \A d \in Clients : FreshAt(d)'
      BY <3>1 DEF Send, Goto, CoordInv, FreshAt, TypeOK
    <3>5. QED
      BY <3>3, <3>4 DEF CoordInv
  <2>3. QED
    BY <1>1, <2>1, <2>2, SendRequestSends
<1>2. ASSUME NEW c \in Clients, Handle(c)
      PROVE  CoordInv'
  <2>1. Exclusive'
    BY <1>2, HandleFrame, HandleKeepsCall DEF CoordInv, Exclusive
  <2>2. FreshAt(c)'
    BY <1>2, HandleFresh
  <2>3. ASSUME NEW d \in Clients \ {c}
        PROVE  FreshAt(d)'
    <3>1. pc[d] # "idle" => /\ call[d].target \in Resources
                            /\ call[d].target # call[c].target
      BY <1>2, <2>3, HandleKeepsCall
         DEF CoordInv, Exclusive, TypeOK, LocalsOK, Calls
    <3>2. pc[d] # "idle" => store'[call[d].target] = store[call[d].target]
      BY <1>2, <3>1, HandleWrites
    <3>3. QED
      BY <1>2, <2>3, <3>2, HandleFrame DEF CoordInv, FreshAt
  <2>4. QED
    BY <2>1, <2>2, <2>3 DEF CoordInv
<1>3. ASSUME NEW c \in Clients, Disconnect(c)
      PROVE  CoordInv'
  BY <1>3 DEF Disconnect, Return, Goto, CoordInv, Exclusive, FreshAt, TypeOK
<1>4. CASE Crash
  BY <1>4 DEF Crash, CoordInv, Exclusive, FreshAt
<1>5. CASE UNCHANGED vars
  BY <1>5 DEF vars, CoordInv, Exclusive, FreshAt
<1>6. QED
  BY <1>1, <1>2, <1>3, <1>4, <1>5 DEF Next

(* What RevisionAdvances says of one step. *)
RevisionStep ==
  \A n \in Resources :
    store[n] # Absent /\ store'[n] # Absent /\ store'[n] # store[n]
      => store'[n].rev = store[n].rev + 1

LEMMA NextAdvances ==
  ASSUME TypeOK, CoordInv, [Next]_vars
  PROVE  RevisionStep
<1>1. CASE \E c \in Clients : CreatePut(c) \/ UpdatePut(c)
  <2>1. PICK c \in Clients : CreatePut(c) \/ UpdatePut(c)
    BY <1>1
  <2>2. call[c].target \in Resources
    BY <2>1 DEF CreatePut, UpdatePut, At, TypeOK, LocalsOK, Calls
  <2>3. CASE CreatePut(c)
    BY <2>2, <2>3 DEF CreatePut, StoreFails, At, CoordInv, FreshAt,
                      RevisionStep, TypeOK
  <2>4. CASE UpdatePut(c)
    <3>1. Merged(pre[c], call[c]).rev = pre[c].rev + 1
      BY DEF Merged
    <3>2. store[call[c].target] = pre[c]
      BY <2>4 DEF UpdatePut, At, CoordInv, FreshAt
    <3>3. \/ store' = [store EXCEPT ![call[c].target] = Merged(pre[c], call[c])]
          \/ store' = store
      BY <2>4 DEF UpdatePut, StoreFails
    <3>4. QED
      BY <2>2, <3>1, <3>2, <3>3 DEF RevisionStep, TypeOK
  <2>5. QED
    BY <2>1, <2>3, <2>4
<1>2. CASE ~ \E c \in Clients : CreatePut(c) \/ UpdatePut(c)
  <2>1. \A n \in Resources : store'[n] = store[n] \/ store'[n] = Absent
    BY <1>2 DEF Next, SendRequest, SendCreateAdapter, SendCreateTool,
         SendUpdateAdapter, SendUpdateTool, SendDelete, Send, Get, Handle,
         CreateAdmit, CreateCheck, CreateApply, CreateRollback, UpdateAdmit,
         UpdateRead, UpdateApply, DeleteAdmit, DeleteRead, DeleteTeardown,
         DeleteRemove, Finish, Disconnect, Crash, StoreFails, vars, TypeOK
  <2>2. QED
    BY <2>1 DEF RevisionStep
<1>3. QED
  BY <1>1, <1>2

(* If no two requests for one resource are in flight together, a record    *)
(* that is overwritten moves to exactly the next revision, through every   *)
(* fault and restart.                                                      *)
THEOREM RevisionsAdvance ==
  ASSUME "overlap" \notin Hazards
  PROVE  Spec => RevisionAdvances
<1>1. Init => CoordInv
  BY DEF Init, CoordInv, Exclusive, FreshAt, At
<1>2. TypeOK /\ CoordInv /\ [Next]_vars => CoordInv'
  BY NextCoordinated
<1>3. TypeOK /\ CoordInv /\ [Next]_vars => RevisionStep
  BY NextAdvances
<1>4. QED
  BY <1>1, <1>2, <1>3, TypeCorrect, PTL
     DEF Spec, RevisionAdvances, RevisionStep

-----------------------------------------------------------------------------
(* S8 and B5.  A create deploys only under the record it put and finds     *)
(* nothing running there; an update deploys only under a managed record; a *)
(* delete removes the record only once nothing runs.                       *)
WorkAt(c) ==
  LET n == call[c].target IN
  /\ pc[c] # "idle" /\ call[c].verb = "update" => ~call[c].external
  /\ pc[c] = "apply" => store[n] # Absent /\ ~store[n].external
  /\ At(c, "create", "apply") => running[n] = Absent
  /\ pc[c] \in {"rollback", "remove"} => running[n] = Absent

WorkInv == NoUntrackedWorkload /\ \A c \in Clients : WorkAt(c)

(* The assumptions under which S8 and B5 hold. *)
Undisturbed == Hazards \cap {"overlap", "attach", "volatile"} = {}

LEMMA HandleWork ==
  ASSUME TypeOK, CoordInv, WorkInv, NEW c \in Clients, Handle(c)
  PROVE  NoUntrackedWorkload' /\ WorkAt(c)'
<1> DEFINE n == call[c].target
<1>1. pc[c] # "idle" /\ n \in Resources /\ call[c] \in Calls
  BY HandleKeepsCall DEF TypeOK, LocalsOK, Calls
<1>2. \A m \in Resources \ {n} : store'[m] = store[m] /\ running'[m] = running[m]
  BY HandleWrites
<1>3. SUFFICES /\ running'[n] # Absent
                    => store'[n] # Absent /\ ~store'[n].external
               /\ WorkAt(c)'
  BY <1>1, <1>2 DEF WorkInv, NoUntrackedWorkload
<1>4. /\ FreshAt(c) /\ WorkAt(c)
      /\ running[n] # Absent => store[n] # Absent /\ ~store[n].external
  BY <1>1 DEF CoordInv, WorkInv, NoUntrackedWorkload
<1> USE DEF At, Goto, Decide, Return, StoreFails, WorkAt
<1>5. CASE CreatePut(c)
  <2>1. NewRecord(call[c]) # Absent
        /\ NewRecord(call[c]).external = call[c].external
    BY <1>5, NewRecordType DEF CreatePut, TypeOK, LocalsOK, NewRecord
  <2>2. running[n] = Absent
    BY <1>4, <1>5 DEF CreatePut, FreshAt
  <2>3. QED
    BY <1>1, <1>5, <2>1, <2>2 DEF CreatePut, TypeOK
<1>6. CASE CreateApply(c)
  BY <1>1, <1>4, <1>6 DEF CreateApply, TypeOK
<1>7. CASE CreateRollback(c)
  BY <1>1, <1>4, <1>7 DEF CreateRollback, TypeOK
<1>8. CASE UpdatePut(c)
  <2>1. /\ pre[c] \in Records /\ store[n] = pre[c] /\ ~call[c].external
        /\ Merged(pre[c], call[c]) # Absent
        /\ Merged(pre[c], call[c]).external = pre[c].external
    BY <1>1, <1>4, <1>8, MergedType
       DEF UpdatePut, FreshAt, TypeOK, LocalsOK, Merged, Records, Calls
  <2>2. QED
    BY <1>1, <1>4, <1>8, <2>1 DEF UpdatePut, TypeOK
<1>9. CASE UpdateApply(c)
  BY <1>1, <1>4, <1>9 DEF UpdateApply, TypeOK
<1>10. CASE DeleteRead(c)
  BY <1>1, <1>4, <1>10 DEF DeleteRead, TypeOK
<1>11. CASE DeleteTeardown(c)
  BY <1>1, <1>4, <1>11 DEF DeleteTeardown, TypeOK
<1>12. CASE DeleteRemove(c)
  BY <1>1, <1>4, <1>12 DEF DeleteRemove, TypeOK
<1>13. CASE \/ CreateAdmit(c) \/ CreateCheck(c) \/ UpdateAdmit(c)
            \/ UpdateRead(c) \/ DeleteAdmit(c) \/ Finish(c)
  BY <1>1, <1>4, <1>13 DEF CreateAdmit, CreateCheck, UpdateAdmit, UpdateRead,
                           DeleteAdmit, Finish, TypeOK
<1>14. QED
  BY <1>5, <1>6, <1>7, <1>8, <1>9, <1>10, <1>11, <1>12, <1>13 DEF Handle

LEMMA NextWork ==
  ASSUME TypeOK, CoordInv, WorkInv, [Next]_vars, Undisturbed
  PROVE  WorkInv'
<1> USE DEF At
<1>1. ASSUME NEW c \in Clients, SendRequest(c)
      PROVE  WorkInv'
  <2>1. CASE \E n \in Resources : Get(c, n)
    BY <2>1 DEF Get, WorkInv, NoUntrackedWorkload, WorkAt
  <2>2. CASE \E k \in Calls : /\ Send(c, k)
                              /\ k.verb = "update" /\ k.external
                                   => "attach" \in Hazards
    BY <2>2 DEF Send, Goto, WorkInv, NoUntrackedWorkload, WorkAt, TypeOK,
                Undisturbed
  <2>3. QED
    BY <1>1, <2>1, <2>2, SendRequestSends
<1>2. ASSUME NEW c \in Clients, Handle(c)
      PROVE  WorkInv'
  <2>1. NoUntrackedWorkload' /\ WorkAt(c)'
    BY <1>2, HandleWork
  <2>2. ASSUME NEW d \in Clients \ {c}
        PROVE  WorkAt(d)'
    <3>1. pc[d] # "idle" => /\ call[d].target \in Resources
                            /\ call[d].target # call[c].target
      BY <1>2, <2>2, HandleKeepsCall
         DEF CoordInv, Exclusive, TypeOK, LocalsOK, Calls
    <3>2. pc[d] # "idle" => /\ store'[call[d].target] = store[call[d].target]
                            /\ running'[call[d].target] = running[call[d].target]
      BY <1>2, <3>1, HandleWrites
    <3>3. QED
      BY <1>2, <2>2, <3>2, HandleFrame DEF WorkInv, WorkAt
  <2>3. QED
    BY <2>1, <2>2 DEF WorkInv
<1>3. ASSUME NEW c \in Clients, Disconnect(c)
      PROVE  WorkInv'
  BY <1>3 DEF Disconnect, Return, Goto, WorkInv, NoUntrackedWorkload, WorkAt,
              TypeOK
<1>4. CASE Crash
  BY <1>4 DEF Crash, WorkInv, NoUntrackedWorkload, WorkAt, Undisturbed
<1>5. CASE UNCHANGED vars
  BY <1>5 DEF vars, WorkInv, NoUntrackedWorkload, WorkAt
<1>6. QED
  BY <1>1, <1>2, <1>3, <1>4, <1>5 DEF Next

(* If requests for one resource do not overlap, no update turns a managed  *)
(* adapter into one with an upstream, and the metadata store is durable,   *)
(* then nothing ever runs without a record that a delete would act on:     *)
(* through failed applies and rollbacks, failed teardowns, dropped         *)
(* handlers and restarts.  Each of the three assumptions is needed.        *)
THEOREM NothingUntracked ==
  ASSUME Undisturbed
  PROVE  Spec => []NoUntrackedWorkload
<1>1. Init => CoordInv /\ WorkInv
  BY DEF Init, CoordInv, Exclusive, FreshAt, At, WorkInv, WorkAt,
         NoUntrackedWorkload
<1>2. TypeOK /\ CoordInv /\ [Next]_vars => CoordInv'
  BY NextCoordinated DEF Undisturbed
<1>3. TypeOK /\ CoordInv /\ WorkInv /\ [Next]_vars => WorkInv'
  BY NextWork
<1>4. WorkInv => NoUntrackedWorkload
  BY DEF WorkInv
<1>5. QED
  BY <1>1, <1>2, <1>3, <1>4, TypeCorrect, PTL DEF Spec
=============================================================================
