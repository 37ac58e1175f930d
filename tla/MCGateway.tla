----------------------------- MODULE MCGateway -----------------------------
(* A small instance of Gateway: an adapter with two notes, one of which    *)
(* lets the caller in and one, with another upstream, shuts it out by the  *)
(* roles it requires.                                                      *)
EXTENDS Gateway, TLC

CONSTANTS c1, u1, a1, i1, i2

AllGrants == Clients \X Verbs

NoStatic == [n \in {} |-> Absent]

MCUrls == {"upstream", "moved", "docker"}

Open == [upstream |-> "upstream", policy |-> Callers, roles |-> Callers]
Closed == [upstream |-> "moved", policy |-> Callers, roles |-> {}]

MCSays ==
  [n \in Resources |-> [t \in Notes |-> IF t = "open" THEN Open ELSE Closed]]

MCEndpoint == [n \in Resources |-> "docker"]

\* Sound: images are only compared with each other.
Symmetry == Permutations(Images)

\* The bound on overtaking: a call is not followed once it has lived through
\* a second change of its record.  One that lives through any has no promise.
OvertakenOnce == \A u \in Callers : Cardinality(seen[u]) <= 2
=============================================================================
