-------------------------- MODULE MCDockerProvider --------------------------
(* Small instances of DockerProvider: an adapter and a tool that share a   *)
(* bare name, and images whose references are written in every way: with   *)
(* no host, a host or a host and a port, tagged or not, pinned or not.     *)
EXTENDS DockerProvider, TLC

CONSTANTS a1, t1, x

MCBare == [r \in Resources |-> x]

Ghcr == <<"ghcr", ".", "io">>
Local == <<"local", ":", "5000">>

\* A path may have two parts, and then a dot.
MCImages ==
  [ host : {Absent, Ghcr, Local}, path : {<<"repo">>, <<"own", "/", "re", ".", "po">>},
    tag : {Absent, <<"v1">>}, digest : {Absent, <<"sha256", ":", "d1">>} ]

MCMeaning == [i \in MCImages |-> i]

(* The hypothesis of the theorems on references holds of these. *)
ASSUME PlainAssumption == \A i \in MCImages : Plain(i)

MCAllowed == {DockerHub, Ghcr}
=============================================================================
