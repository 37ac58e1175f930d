--------------------------- MODULE MCSigningKeys ---------------------------
(* A small instance of SigningKeys: the key of the start, the one that     *)
(* takes its place, a key the gateway has no use for, and two requests.    *)
EXTENDS SigningKeys

CONSTANTS k1, k2, k3, t1, t2

MCAlg == [k \in Keys |-> IF k = k3 THEN "RS1" ELSE "RS256"]
=============================================================================
