--------------------------- MODULE MCToolListing ---------------------------
(* A small instance of ToolListing: three tools, one of which the client   *)
(* may or may not call, by its tags or by its required_roles.  Whoever is  *)
(* authenticated may list; "dev" may call what is tagged "public"; "ops"   *)
(* may do everything.                                                      *)
EXTENDS ToolListing, TLC

CONSTANTS c1

MCRolesOf == [c \in Clients |-> {"dev", "qa"}]

MCRules ==
  { [ plane |-> "data", action |-> [kind |-> "exact", text |-> ListMethod],
      target |-> Absent, tags |-> {}, roles |-> {AnyRole} ],
    [ plane |-> Absent, action |-> [kind |-> "prefix", text |-> <<"tools", "/">>],
      target |-> Absent, tags |-> {"public"}, roles |-> {"dev"} ],
    [ plane |-> Absent, action |-> [kind |-> "under", text |-> <<"tools">>],
      target |-> Absent, tags |-> {}, roles |-> {"qa"} ],
    [ plane |-> Absent, action |-> [kind |-> "prefix", text |-> <<>>],
      target |-> Absent, tags |-> {}, roles |-> {"ops"} ] }

Tool(tags, required) == [tags |-> tags, required |-> required]

MCRecords ==
  [n \in Names |->
     {Tool({"public"}, {})} \cup
     IF n = 2 THEN {Tool({}, {}), Tool({"public", "beta"}, {"ops"})} ELSE {}]
=============================================================================
