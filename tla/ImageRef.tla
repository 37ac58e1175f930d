------------------------------ MODULE ImageRef ------------------------------
(***************************************************************************)
(* References to OCI images: how they are written, as sequences of tokens, *)
(* and how the gateway reads them.  In                                     *)
(*     <<"local", ":", "5000", "/", "repo", ":", "v1", "@", "sha256", ...>> *)
(* the first colon belongs to the host's port, the second begins the tag   *)
(* and the third is inside the digest.                                     *)
(***************************************************************************)
EXTENDS Naturals, Sequences

S == INSTANCE SequencesExt

CONSTANT Absent

(* Words, and what separates them. *)
Token == STRING \cup {".", "/", ":", "@"}
Text == Seq(Token)

(* A reference taken apart. *)
ImageRefs == [name : Text, tag : Text \cup {Absent}, digest : Text \cup {Absent}]

ASSUME TextAssumption == Absent \notin Text \cup ImageRefs

(* What a reference means: host, tag and digest may be left out, and a     *)
(* reference without a host is one of Docker's own registry.               *)
DockerHub == <<"docker", ".", "io">>

MeantRegistry(m) == IF m.host = Absent THEN DockerHub ELSE m.host

Optional(s, before, after) == IF s = Absent THEN <<>> ELSE before \o s \o after

Written(m) ==
  Optional(m.host, <<>>, <<"/">>) \o m.path
    \o Optional(m.tag, <<":">>, <<>>) \o Optional(m.digest, <<"@">>, <<>>)

-----------------------------------------------------------------------------
(* The position of a token, or 0. *)
FirstOf(tok, s) == S!SelectInSeq(s, LAMBDA t : t = tok)
LastOf(tok, s) == S!SelectLastInSeq(s, LAMBDA t : t = tok)

(* Mutant: the first colon begins the tag. *)
FirstColon(s) == FirstOf(":", s)

(* The colon that begins the tag: the last one, past the last slash.       *)
TagColon(s) == IF LastOf(":", s) > LastOf("/", s) THEN LastOf(":", s) ELSE 0

Before(s, i) == IF i = 0 THEN s ELSE SubSeq(s, 1, i - 1)
After(s, i) == IF i = 0 THEN Absent ELSE SubSeq(s, i + 1, Len(s))

FirstPart(name) == Before(name, FirstOf("/", name))
LooksLikeHost(s) == S!Contains(s, ".") \/ S!Contains(s, ":")

(* ImageRef::parse: Absent stands for an error. *)
Parse(text) ==
  LET digest == After(text, LastOf("@", text))
      remainder == Before(text, LastOf("@", text))
      name == Before(remainder, TagColon(remainder))
      tag == After(remainder, TagColon(remainder))
  IN IF \/ digest # Absent /\ ~S!Contains(digest, ":")
        \/ tag = <<>> \/ name = <<>>
     THEN Absent
     ELSE [name |-> name, tag |-> tag, digest |-> digest]

(* Mutant: a dot anywhere in the name makes its first part a host. *)
RegistryOfDotted(name) ==
  IF LooksLikeHost(name) THEN FirstPart(name) ELSE DockerHub

(* The registry by check_image_policy: what comes before the first slash,  *)
(* if it looks like a host.                                                *)
RegistryOf(name) ==
  IF LooksLikeHost(FirstPart(name)) THEN FirstPart(name) ELSE DockerHub

-----------------------------------------------------------------------------
(* What m may be for Docker to take Written(m) to mean m.  Before the      *)
(* first slash there is a host if it looks like one or is "localhost".     *)
Localhost == <<"localhost">>

Lacks(s, tokens) == \A tok \in tokens : ~S!Contains(s, tok)

WellFormed(m) ==
  /\ m.host # Absent =>
       /\ m.host \in Text /\ Lacks(m.host, {"/", "@"})
       /\ LooksLikeHost(m.host) \/ m.host = Localhost
  /\ m.path \in Text /\ m.path # <<>> /\ Lacks(m.path, {":", "@"})
  /\ m.host = Absent /\ S!Contains(m.path, "/") =>
       ~LooksLikeHost(FirstPart(m.path)) /\ FirstPart(m.path) # Localhost
  /\ m.tag # Absent =>
       m.tag \in Text /\ m.tag # <<>> /\ Lacks(m.tag, {"/", ":", "@"})
  /\ m.digest # Absent =>
       m.digest \in Text /\ S!Contains(m.digest, ":") /\ Lacks(m.digest, {"@"})

(* The code and Docker disagree on "localhost" and on a name of Docker's   *)
(* registry that has a dot and no slash.                                   *)
Plain(m) ==
  /\ m.host # Localhost
  /\ m.host = Absent => ~LooksLikeHost(FirstPart(m.path))
=============================================================================
