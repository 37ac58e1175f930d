---------------------------- MODULE MCDataPlane ----------------------------
(* A small instance of DataPlane: an adapter, an adapter of the            *)
(* configuration file, whose name is registered as well, and a tool.  Whom *)
(* a record lets through is what the policy engine makes of a policy file: *)
(* "dev" may call what is tagged "public".                                 *)
EXTENDS DataPlane, TLC

CONSTANTS c1, a, s, t

RolesOf(c) == {"dev"}

Policy == { [ plane |-> "data", action |-> [kind |-> "prefix", text |-> <<"tools">>],
              target |-> Absent, tags |-> {"public"}, roles |-> {"dev"} ] }

Y == INSTANCE YamlRbac WITH Rules <- Policy, Default <- "deny", AnyRole <- "*"

Made(n, u, tags, required) ==
  [ upstream |-> u,
    policy |-> {c \in Callers :
      Y!Allowed(Y!DataRequest(Y!CallMethod, n, tags), RolesOf(c))},
    roles |-> {c \in Callers : Y!RequiredRolesSatisfied(required, RolesOf(c))} ]

MCStatic == s :> Made(s, "file", {"public"}, {})

MCUrls == {"file", "upstream", "docker"}

MCRecords ==
  [n \in Names |->
     CASE n = a -> { Made(a, "upstream", {"public"}, {"dev"}),
                     Made(a, Absent, {"public"}, {}),
                     Made(a, Absent, {"public"}, {"ops"}) }
       [] n = s -> { Made(s, Absent, {}, {}) }
       [] n = t -> { Made(t, Absent, {"public"}, {"dev"}),
                     Made(t, Absent, {}, {}),
                     Made(t, Absent, {"public"}, {"ops"}) }]

MCWorkloads == [n \in Names |-> {"docker"}]
=============================================================================
