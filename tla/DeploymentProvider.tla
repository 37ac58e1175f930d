------------------------- MODULE DeploymentProvider -------------------------
(***************************************************************************)
(* What a deployment provider does for whoever calls it.  A delete takes   *)
(* effect at one point between its call and its answer, an apply at two:   *)
(* it prepares a deployment and starts it.  It does so for one that is     *)
(* already there or prepared too, whatever image that has; so an Ok apply  *)
(* leaves a deployment, and an image is never replaced.  An Ok delete      *)
(* leaves none if its handle is the resource's, and otherwise finds        *)
(* nothing.  A call that answers Err, or whose caller goes away first,     *)
(* changes at most what is prepared.                                       *)
(***************************************************************************)
CONSTANTS Callers, Resources, Images, Absent

VARIABLES
  deployed,   \* the image deployed for a resource, or Absent
  prepared,   \* the image of a deployment that is yet to be started, or Absent
  work        \* a caller's outstanding call and its result, or Absent

vars == <<deployed, prepared, work>>

Works == [ op : {"apply", "delete"}, target : Resources,
           handle : {"own", "other"},   \* the resource's, or not
           image : Images \cup {Absent}, result : {"pending", "ok", "error"} ]

Init ==
  /\ deployed = [r \in Resources |-> Absent]
  /\ prepared = [r \in Resources |-> Absent]
  /\ work = [c \in Callers |-> Absent]

Call(c) ==
  /\ work[c] = Absent
  /\ \E r \in Resources, i \in Images \cup {Absent}, h \in {"own", "other"} :
       /\ i # Absent => h = "own"
       /\ work' = [work EXCEPT ![c] =
            [ op |-> IF i = Absent THEN "delete" ELSE "apply",
              target |-> r, handle |-> h, image |-> i, result |-> "pending" ]]
  /\ UNCHANGED <<deployed, prepared>>

Pending(c, op) ==
  work[c] # Absent /\ work[c].result = "pending" /\ work[c].op = op

Finish(c, result) == work' = [work EXCEPT ![c].result = result]

Prepare(c) ==
  LET r == work[c].target IN
  /\ Pending(c, "apply")
  /\ deployed[r] = Absent /\ prepared[r] = Absent
  /\ prepared' = [prepared EXCEPT ![r] = work[c].image]
  /\ UNCHANGED <<deployed, work>>

Install(c) ==
  LET r == work[c].target IN
  /\ Pending(c, "apply")
  /\ prepared[r] # Absent
  /\ deployed' = [deployed EXCEPT ![r] = prepared[r]]
  /\ prepared' = [prepared EXCEPT ![r] = Absent]
  /\ Finish(c, "ok")

Reuse(c) ==
  /\ Pending(c, "apply")
  /\ deployed[work[c].target] # Absent
  /\ Finish(c, "ok")
  /\ UNCHANGED <<deployed, prepared>>

Clear(c) ==
  LET r == work[c].target IN
  /\ Pending(c, "delete") /\ work[c].handle = "own"
  /\ deployed' = [deployed EXCEPT ![r] = Absent]
  /\ prepared' = [prepared EXCEPT ![r] = Absent]
  /\ Finish(c, "ok")

Miss(c) ==
  /\ Pending(c, "delete") /\ work[c].handle = "other"
  /\ Finish(c, "ok")
  /\ UNCHANGED <<deployed, prepared>>

Refuse(c) ==
  /\ \E op \in {"apply", "delete"} : Pending(c, op)
  /\ Finish(c, "error")
  /\ UNCHANGED <<deployed, prepared>>

End(c) ==
  /\ work[c] # Absent
  /\ work' = [work EXCEPT ![c] = Absent]
  /\ UNCHANGED <<deployed, prepared>>

Next == \E c \in Callers :
  \/ Call(c) \/ Prepare(c) \/ Install(c) \/ Reuse(c) \/ Clear(c) \/ Miss(c)
  \/ Refuse(c) \/ End(c)

Spec == Init /\ [][Next]_vars
=============================================================================
