------------------------------ MODULE YamlRbac ------------------------------
(***************************************************************************)
(* The YAML RBAC policy engine, and required_roles beside it: who may do   *)
(* what, as operators.  A policy has a default and rules that only allow,  *)
(* so the first rule that matches decides like any other would.            *)
(*                                                                         *)
(* An action is a sequence of tokens, <<"tools", "/", "call">>; a pattern  *)
(* is the text before its terminal wildcard and the kind of the wildcard:  *)
(*   "exact"   tools/call     that action                                  *)
(*   "under"   adapters.*     adapters, and what follows "adapters."       *)
(*   "prefix"  tools/*  or *  what begins with the text                    *)
(***************************************************************************)
EXTENDS Sequences

LOCAL INSTANCE SequencesExt

CONSTANTS
  Rules,      \* the rules of the policy file
  Default,    \* "allow" or "deny"
  AnyRole,    \* the "*" of a rule: whoever is authenticated
  Absent      \* a rule may leave out its plane and its target

(* action_glob_matches *)
GlobMatches(pattern, action) ==
  \/ action = pattern.text
  \/ pattern.kind = "under" /\ IsPrefix(Append(pattern.text, "."), action)
  \/ pattern.kind = "prefix" /\ IsPrefix(pattern.text, action)

(* A request: the plane, the action, and the target's name and tags. *)
RuleMatches(rule, q) ==
  /\ rule.plane \in {Absent, q.plane}
  /\ GlobMatches(rule.action, q.action)
  /\ rule.target \in {Absent, q.target}
  /\ rule.tags \subseteq q.tags

(* Mutant: every role of the user must be listed. *)
RolesAllowedAll(rule, roles) ==
  rule.roles # {} /\ (AnyRole \in rule.roles \/ roles \subseteq rule.roles)

RolesAllowed(rule, roles) ==
  AnyRole \in rule.roles \/ rule.roles \cap roles # {}

(* decide *)
Allowed(q, roles) ==
  \/ \E rule \in Rules : RuleMatches(rule, q) /\ RolesAllowed(rule, roles)
  \/ Default = "allow"

RequiredRolesSatisfied(required, roles) ==
  required = {} \/ required \cap roles # {}

(* authorize_data_plane: the engine and required_roles, both. *)
Authorized(q, required, roles) ==
  Allowed(q, roles) /\ RequiredRolesSatisfied(required, roles)

-----------------------------------------------------------------------------
(* The requests of the data plane.                                         *)


CallMethod == <<"tools", "/", "call">>
ListMethod == <<"tools", "/", "list">>

DataRequest(method, target, tags) ==
  [plane |-> "data", action |-> method, target |-> target, tags |-> tags]

-----------------------------------------------------------------------------
(* Properties.                                                             *)

(* A user who is given another role keeps every right there was.           *)
(* (PLAN.md:888; yaml_rbac.rs 99-190)                                      *)
Monotone(q, required, roles, more) ==
  roles \subseteq more /\ Authorized(q, required, roles)
    => Authorized(q, required, more)
=============================================================================
