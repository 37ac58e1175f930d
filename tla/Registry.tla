------------------------------ MODULE Registry ------------------------------
(***************************************************************************)
(* What the rest of the gateway may rely on about the registry: the        *)
(* metadata store and the provider's workloads, by name.  They are two     *)
(* systems with no transaction across them, so a step changes one name in  *)
(* one of them, and any order of steps may be seen.  Only a restart with   *)
(* the in-memory store forgets every record at once.                       *)
(*                                                                         *)
(* ControlPlane implements this specification, and it is the environment   *)
(* of DataPlane and of ToolListing.                                        *)
(***************************************************************************)
CONSTANTS
  Names,      \* adapters and tools
  Records,    \* the records each name may have: a function on names
  Workloads,  \* what may run for each name: a function on names
  Absent

VARIABLES
  record,     \* the metadata store
  workload    \* the deployment provider

TypeOK ==
  /\ record \in [Names -> (UNION {Records[n] : n \in Names}) \cup {Absent}]
  /\ workload \in [Names -> (UNION {Workloads[n] : n \in Names}) \cup {Absent}]
  /\ \A n \in Names : /\ record[n] \in Records[n] \cup {Absent}
                      /\ workload[n] \in Workloads[n] \cup {Absent}

Init ==
  /\ record = [n \in Names |-> Absent]
  /\ workload = [n \in Names |-> Absent]

(* A create or an update; put is an upsert. *)
Put(n) ==
  /\ \E r \in Records[n] : record' = [record EXCEPT ![n] = r]
  /\ UNCHANGED workload

(* A delete, or the rollback of a create. *)
Remove(n) ==
  /\ record' = [record EXCEPT ![n] = Absent]
  /\ UNCHANGED workload

(* A workload comes up, or another takes its place; the record may have     *)
(* changed since the request for it was made.                               *)
Deploy(n) ==
  /\ \E w \in Workloads[n] : workload' = [workload EXCEPT ![n] = w]
  /\ UNCHANGED record

Teardown(n) ==
  /\ workload' = [workload EXCEPT ![n] = Absent]
  /\ UNCHANGED record

Forget ==
  /\ record' = [n \in Names |-> Absent]
  /\ UNCHANGED workload

Next ==
  \/ \E n \in Names : Put(n) \/ Remove(n) \/ Deploy(n) \/ Teardown(n)
  \/ Forget

Spec == Init /\ [][Next]_<<record, workload>>
=============================================================================
