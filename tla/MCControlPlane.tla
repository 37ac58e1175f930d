--------------------------- MODULE MCControlPlane ---------------------------
(* Small instances of ControlPlane: two clients, an adapter and a tool,    *)
(* and the sets of environment hazards the runs choose from.               *)
EXTENDS ControlPlane, TLC

CONSTANTS c1, c2, a1, t1, i1, i2

AllGrants == Clients \X Verbs

\* c2 may only create and update.
SomeGrants == (Clients \X Verbs) \ {<<c2, "delete">>}

\* Sound: no definition but Grants tells the clients apart, and the instances
\* that use it grant everything; images are only compared.
Symmetry == Permutations(Clients) \cup Permutations(Images)
=============================================================================
