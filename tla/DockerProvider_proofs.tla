----------------------- MODULE DockerProvider_proofs -----------------------
(***************************************************************************)
(* Theorems of DockerProvider, for every value of its constants.           *)
(***************************************************************************)
EXTENDS DockerProvider, SequenceTheorems, FiniteSetTheorems,
        WellFoundedInduction, TLAPS

(* Positions in a text. *)

(* The segments 1 .. x are ordered by inclusion as their ends are, and     *)
(* finite sets are well-founded by inclusion.                              *)
LEMMA Smallest ==
  ASSUME NEW T \in SUBSET Nat, T # {} PROVE \E x \in T : \A y \in T : x <= y
<1> DEFINE Up(x) == 1 .. x
           W == {Up(x) : x \in T}
<1>1. W \subseteq FiniteSubsetsOf(Nat) /\ W # {}
  <2>1. ASSUME NEW x \in T PROVE Up(x) \in FiniteSubsetsOf(Nat)
    BY FS_Interval DEF FiniteSubsetsOf
  <2>2. QED
    BY <2>1
<1>2. PICK A \in W : \A B \in W : ~(<<B, A>> \in StrictSubsetOrdering(Nat))
  BY <1>1, WFMin, FS_StrictSubsetOrderingWellFounded
<1>3. PICK x \in T : A = Up(x)
  BY <1>2
<1>4. ASSUME NEW y \in T, y < x PROVE FALSE
  <2>1. Up(y) \in W /\ Up(y) \subseteq Up(x) /\ x \in Up(x) /\ x \notin Up(y)
    BY <1>4
  <2>2. <<Up(y), A>> \in StrictSubsetOrdering(Nat)
    BY <1>3, <2>1 DEF StrictSubsetOrdering
  <2>3. QED
    BY <1>2, <2>1, <2>2
<1>5. QED
  BY <1>4

LEMMA Greatest ==
  ASSUME NEW n \in Nat, NEW T \in SUBSET (1 .. n), T # {}
  PROVE  \E x \in T : \A y \in T : x >= y
<1> DEFINE Left(x) == n - x
           U == {Left(x) : x \in T}
<1>1. U \in SUBSET Nat /\ U # {}
  <2>1. \A x \in T : Left(x) \in Nat
    OBVIOUS
  <2>2. QED
    BY <2>1
<1>2. PICK u \in U : \A v \in U : u <= v
  BY <1>1, Smallest
<1>3. PICK x \in T : u = Left(x)
  BY <1>2
<1>4. ASSUME NEW y \in T PROVE x >= y
  BY <1>2, <1>3, Left(y) \in U
<1>5. QED
  BY <1>4


-----------------------------------------------------------------------------
LEMMA LastOfIs ==
  ASSUME NEW s \in Text, NEW tok
  PROVE  /\ LastOf(tok, s) \in 0 .. Len(s)
         /\ LastOf(tok, s) # 0 => s[LastOf(tok, s)] = tok
         /\ \A i \in 1 .. Len(s) : s[i] = tok => i <= LastOf(tok, s)
<1> DEFINE I == {i \in 1 .. Len(s) : s[i] = tok}
<1>1. LastOf(tok, s) = IF I # {} THEN CHOOSE x \in I : \A y \in I : x >= y ELSE 0
  BY DEF LastOf, S!SelectLastInSeq, S!Max
<1>2. Len(s) \in Nat /\ I \in SUBSET (1 .. Len(s))
  BY DEF Text
<1>3. CASE I = {}
  BY <1>1, <1>2, <1>3
<1>4. CASE I # {}
  <2>1. \E x \in I : \A y \in I : x >= y
    BY <1>2, <1>4, Greatest
  <2>2. LastOf(tok, s) \in I /\ \A y \in I : LastOf(tok, s) >= y
    BY <1>1, <1>4, <2>1
  <2>3. QED
    BY <1>2, <2>2
<1>5. QED
  BY <1>3, <1>4

LEMMA FirstOfIs ==
  ASSUME NEW s \in Text, NEW tok
  PROVE  /\ FirstOf(tok, s) \in 0 .. Len(s)
         /\ FirstOf(tok, s) # 0 => s[FirstOf(tok, s)] = tok
         /\ \A i \in 1 .. Len(s) :
              s[i] = tok => FirstOf(tok, s) # 0 /\ FirstOf(tok, s) <= i
<1> DEFINE I == {i \in 1 .. Len(s) : s[i] = tok}
<1>1. FirstOf(tok, s) = IF I # {} THEN CHOOSE x \in I : \A y \in I : x <= y ELSE 0
  BY DEF FirstOf, S!SelectInSeq, S!Min
<1>2. Len(s) \in Nat /\ I \in SUBSET Nat
  BY DEF Text
<1>3. CASE I = {}
  BY <1>1, <1>2, <1>3
<1>4. CASE I # {}
  <2>1. \E x \in I : \A y \in I : x <= y
    BY <1>2, <1>4, Smallest
  <2>2. FirstOf(tok, s) \in I /\ \A y \in I : FirstOf(tok, s) <= y
    BY <1>1, <1>4, <2>1
  <2>3. QED
    BY <1>2, <2>2
<1>5. QED
  BY <1>3, <1>4

LEMMA NoneOf ==
  ASSUME NEW s \in Text, NEW tok, ~S!Contains(s, tok)
  PROVE  FirstOf(tok, s) = 0 /\ LastOf(tok, s) = 0
<1>1. \A i \in 1 .. Len(s) : s[i] # tok
  BY DEF S!Contains
<1>2. QED
  BY <1>1, FirstOfIs, LastOfIs


(* The text s is a followed by b, and t is the one token tok. *)
Joins(s, a, b) ==
  /\ s \in Text /\ Len(s) = Len(a) + Len(b)
  /\ \A i \in 1 .. Len(a) : s[i] = a[i]
  /\ \A i \in 1 .. Len(b) : s[Len(a) + i] = b[i]

LEMMA TextJoins ==
  ASSUME NEW a \in Text, NEW b \in Text
  PROVE  Joins(a \o b, a, b)
BY DEF Text, Joins

LEMMA TextLen ==
  ASSUME NEW a \in Text PROVE Len(a) \in Nat
BY DEF Text

LEMMA OneToken ==
  ASSUME NEW tok \in Token
  PROVE  <<tok>> \in Text /\ Len(<<tok>>) = 1 /\ <<tok>>[1] = tok
<1>1. Append(<<>>, tok) \in Text
  BY EmptySeq, AppendProperties, Zenon DEF Text
<1>2. Append(<<>>, tok) = <<tok>>
  OBVIOUS
<1>3. QED
  BY <1>1, <1>2 DEF Text

LEMMA TextEqual ==
  ASSUME NEW a \in Text, NEW b \in Text, Len(a) = Len(b),
         \A i \in 1 .. Len(a) : a[i] = b[i]
  PROVE  a = b
BY SeqEqual, Zenon DEF Text

LEMMA TextPart ==
  ASSUME NEW s \in Text, NEW m \in Nat \ {0}, NEW n \in Nat, n <= Len(s), m <= n + 1
  PROVE  /\ SubSeq(s, m, n) \in Text
         /\ Len(SubSeq(s, m, n)) = n - m + 1
         /\ \A i \in 1 .. n - m + 1 : SubSeq(s, m, n)[i] = s[m + i - 1]
BY DEF Text

(* The part of s from m on that has the tokens of b is b. *)
LEMMA PartIs ==
  ASSUME NEW s \in Text, NEW b \in Text, NEW m \in Nat \ {0}, NEW n \in Nat, n <= Len(s),
         n - m + 1 = Len(b),
         \A i \in 1 .. Len(b) : s[m + i - 1] = b[i]
  PROVE  SubSeq(s, m, n) = b
<1> DEFINE p == SubSeq(s, m, n)
<1>1. Len(s) \in Nat /\ Len(b) \in Nat
  BY TextLen
<1>2. /\ p \in Text /\ Len(p) = n - m + 1
      /\ \A i \in 1 .. n - m + 1 : p[i] = s[m + i - 1]
  BY <1>1, TextPart
<1> HIDE DEF p
<1>3. p = b
  BY <1>1, <1>2, TextEqual
<1>4. QED
  BY <1>3 DEF p

(* A text with a token in its middle. *)
Around(s, a, tok, b) ==
  /\ s \in Text /\ Len(s) = Len(a) + 1 + Len(b)
  /\ s[Len(a) + 1] = tok
  /\ \A i \in 1 .. Len(a) : s[i] = a[i]
  /\ \A i \in 1 .. Len(b) : s[Len(a) + 1 + i] = b[i]

LEMMA JoinsAround ==
  ASSUME NEW a \in Text, NEW t \in Text, NEW b \in Text, NEW tok,
         Len(t) = 1, t[1] = tok,
         NEW h, Joins(h, a, t), NEW s, Joins(s, h, b)
  PROVE  Around(s, a, tok, b)
<1>1. Len(a) \in Nat /\ Len(b) \in Nat /\ Len(h) = Len(a) + 1 
  BY TextLen DEF Joins
<1>2. s \in Text /\ Len(s) = Len(a) + 1 + Len(b)
  BY <1>1 DEF Joins
<1>3. s[Len(a) + 1] = tok
  <2>1. h[Len(a) + 1] = tok
    BY DEF Joins
  <2>2. QED
    BY <1>1, <2>1 DEF Joins
<1>4. \A i \in 1 .. Len(a) : s[i] = a[i]
  BY <1>1 DEF Joins
<1>5. \A i \in 1 .. Len(b) : s[Len(a) + 1 + i] = b[i]
  BY <1>1 DEF Joins
<1>6. QED
  BY <1>2, <1>3, <1>4, <1>5 DEF Around

LEMMA TextAround ==
  ASSUME NEW a \in Text, NEW b \in Text, NEW tok \in Token
  PROVE  Around((a \o <<tok>>) \o b, a, tok, b)
<1> DEFINE h == a \o <<tok>>
<1>1. <<tok>> \in Text /\ Len(<<tok>>) = 1 /\ <<tok>>[1] = tok
  BY OneToken
<1>2. Joins(h, a, <<tok>>)
  BY <1>1, TextJoins, Zenon
<1>3. h \in Text
  BY <1>2 DEF Joins
<1>4. Joins(h \o b, h, b)
  BY <1>3, TextJoins, Zenon
<1>5. QED
  BY <1>1, <1>2, <1>4, JoinsAround, Zenon

LEMMA AroundText ==
  ASSUME NEW a \in Text, NEW b \in Text, NEW tok, NEW s, Around(s, a, tok, b)
  PROVE  s \in Text /\ s # <<>>
<1>1. s \in Text /\ Len(s) # 0
  BY TextLen DEF Around
<1>2. QED
  BY <1>1

LEMMA AroundParts ==
  ASSUME NEW a \in Text, NEW b \in Text, NEW tok, NEW s, Around(s, a, tok, b)
  PROVE  SubSeq(s, 1, Len(a)) = a /\ SubSeq(s, Len(a) + 2, Len(s)) = b
<1>1. Len(a) \in Nat /\ Len(b) \in Nat /\ s \in Text
  BY TextLen DEF Around
<1>2. SubSeq(s, 1, Len(a)) = a
  <2> DEFINE n == Len(a)
  <2>1. n \in Nat /\ n <= Len(s) /\ n - 1 + 1 = Len(a) /\ 1 \in Nat \ {0}
    BY <1>1 DEF Around
  <2>2. \A i \in 1 .. Len(a) : s[1 + i - 1] = a[i]
    BY <1>1 DEF Around
  <2> HIDE DEF n
  <2>3. SubSeq(s, 1, n) = a
    BY <1>1, <2>1, <2>2, PartIs
  <2>4. QED
    BY <2>3 DEF n
<1>3. SubSeq(s, Len(a) + 2, Len(s)) = b
  <2> DEFINE n == Len(s)
             m == Len(a) + 2
  <2>1. m \in Nat \ {0} /\ n \in Nat /\ n <= Len(s) /\ n - m + 1 = Len(b)
    BY <1>1 DEF Around
  <2>2. \A i \in 1 .. Len(b) : s[m + i - 1] = b[i]
    BY <1>1 DEF Around
  <2> HIDE DEF m, n
  <2>3. SubSeq(s, m, n) = b
    BY <1>1, <2>1, <2>2, PartIs
  <2>4. QED
    BY <2>3 DEF m, n
<1>4. QED
  BY <1>2, <1>3

(* Where the last of a kind is, if there is none in the second part: at or *)
(* before the middle.                                                      *)
LEMMA AroundLast ==
  ASSUME NEW a \in Text, NEW b \in Text, NEW mid, NEW tok, ~S!Contains(b, tok),
         NEW s, Around(s, a, mid, b)
  PROVE  /\ LastOf(tok, s) \in Nat /\ Len(a) \in Nat
         /\ mid # tok => LastOf(tok, s) <= Len(a)
         /\ mid = tok => LastOf(tok, s) = Len(a) + 1
<1>1. /\ s \in Text /\ Len(a) \in Nat /\ Len(b) \in Nat
      /\ Len(s) = Len(a) + 1 + Len(b)
      /\ s[Len(a) + 1] = mid
      /\ \A i \in 1 .. Len(b) : s[Len(a) + 1 + i] = b[i]
  BY TextLen DEF Around
<1>2. /\ LastOf(tok, s) \in 0 .. Len(s)
      /\ LastOf(tok, s) # 0 => s[LastOf(tok, s)] = tok
      /\ mid = tok => LastOf(tok, s) >= Len(a) + 1
  BY <1>1, LastOfIs
<1>3. ASSUME LastOf(tok, s) > Len(a) + 1 PROVE FALSE
  <2> DEFINE i == LastOf(tok, s) - (Len(a) + 1)
  <2>1. i \in 1 .. Len(b) /\ LastOf(tok, s) = Len(a) + 1 + i
    BY <1>1, <1>2, <1>3
  <2>2. b[i] = tok
    BY <1>1, <1>2, <2>1
  <2>3. QED
    BY <2>1, <2>2 DEF S!Contains
<1>4. mid # tok => LastOf(tok, s) # Len(a) + 1
  BY <1>1, <1>2
<1>5. QED
  BY <1>1, <1>2, <1>3, <1>4

LEMMA AroundAtLeast ==
  ASSUME NEW a \in Text, NEW b \in Text, NEW tok, NEW s, Around(s, a, tok, b)
  PROVE  LastOf(tok, s) \in Nat /\ LastOf(tok, s) >= Len(a) + 1
<1>1. /\ s \in Text /\ Len(a) \in Nat /\ Len(b) \in Nat
      /\ Len(s) = Len(a) + 1 + Len(b) /\ s[Len(a) + 1] = tok
  BY TextLen DEF Around
<1>2. QED
  BY <1>1, LastOfIs

(* It is cut at its middle, if that is the last or the first of its kind.  *)
LEMMA CutAtLast ==
  ASSUME NEW a \in Text, NEW b \in Text, NEW tok, ~S!Contains(b, tok),
         NEW s, Around(s, a, tok, b)
  PROVE  Before(s, LastOf(tok, s)) = a /\ After(s, LastOf(tok, s)) = b
<1>1. LastOf(tok, s) = Len(a) + 1 /\ Len(a) \in Nat
  BY AroundLast
<1>2. Before(s, LastOf(tok, s)) = SubSeq(s, 1, Len(a))
  BY <1>1 DEF Before
<1>3. After(s, LastOf(tok, s)) = SubSeq(s, Len(a) + 2, Len(s))
  BY <1>1 DEF After
<1>4. SubSeq(s, 1, Len(a)) = a /\ SubSeq(s, Len(a) + 2, Len(s)) = b
  BY AroundParts
<1>5. QED
  BY <1>2, <1>3, <1>4

LEMMA CutAtFirst ==
  ASSUME NEW a \in Text, NEW b \in Text, NEW tok, ~S!Contains(a, tok),
         NEW s, Around(s, a, tok, b)
  PROVE  Before(s, FirstOf(tok, s)) = a
<1>1. /\ s \in Text /\ Len(a) \in Nat /\ Len(b) \in Nat
      /\ Len(s) = Len(a) + 1 + Len(b)
      /\ s[Len(a) + 1] = tok
      /\ \A i \in 1 .. Len(a) : s[i] = a[i]
  BY TextLen DEF Around
<1>2. /\ FirstOf(tok, s) \in 1 .. Len(a) + 1
      /\ s[FirstOf(tok, s)] = tok
  BY <1>1, FirstOfIs
<1>3. ~(FirstOf(tok, s) \in 1 .. Len(a))
  BY <1>1, <1>2 DEF S!Contains
<1>4. FirstOf(tok, s) = Len(a) + 1
  BY <1>1, <1>2, <1>3
<1>5. Before(s, FirstOf(tok, s)) = SubSeq(s, 1, Len(a))
  BY <1>1, <1>4 DEF Before
<1>6. QED
  BY <1>5, AroundParts

(* A token it has in neither part and that is not the middle one, it has   *)
(* not at all.                                                             *)
LEMMA AroundLacks ==
  ASSUME NEW a \in Text, NEW b \in Text, NEW mid, NEW tok, NEW s,
         Around(s, a, mid, b), mid # tok, ~S!Contains(a, tok), ~S!Contains(b, tok)
  PROVE  ~S!Contains(s, tok)
<1>1. Len(a) \in Nat /\ Len(b) \in Nat
  BY TextLen
<1>2. SUFFICES ASSUME NEW i \in 1 .. Len(s), s[i] = tok PROVE FALSE
  BY DEF S!Contains
<1>3. CASE i <= Len(a)
  BY <1>1, <1>2, <1>3 DEF Around, S!Contains
<1>4. CASE i = Len(a) + 1
  BY <1>2, <1>4 DEF Around
<1>5. CASE i > Len(a) + 1
  <2> DEFINE k == i - (Len(a) + 1)
  <2>1. k \in 1 .. Len(b) /\ i = Len(a) + 1 + k
    BY <1>1, <1>5 DEF Around
  <2>2. b[k] = tok
    BY <1>2, <2>1 DEF Around
  <2>3. QED
    BY <2>1, <2>2 DEF S!Contains
<1>6. QED
  BY <1>1, <1>3, <1>4, <1>5 DEF Around

-----------------------------------------------------------------------------
(* An optional part adds nothing, or its token and itself. *)
LEMMA NothingAdded ==
  ASSUME NEW a \in Text PROVE a \o <<>> = a /\ <<>> \o a = a
BY DEF Text

LEMMA JoinsTail ==
  ASSUME NEW a \in Text, NEW t \in Text, NEW b \in Text, NEW tok,
         Len(t) = 1, t[1] = tok,
         NEW x, Joins(x, t, b), NEW s, Joins(s, a, x)
  PROVE  Around(s, a, tok, b)
<1>1. Len(a) \in Nat /\ Len(b) \in Nat /\ Len(x) = 1 + Len(b)
  BY TextLen DEF Joins
<1>2. x[1] = tok
  BY DEF Joins
<1>3. \A i \in 1 .. Len(b) : x[1 + i] = b[i]
  BY DEF Joins
<1>4. s \in Text /\ Len(s) = Len(a) + 1 + Len(b) /\ \A i \in 1 .. Len(a) : s[i] = a[i]
  BY <1>1 DEF Joins
<1>5. \A i \in 1 .. 1 + Len(b) : s[Len(a) + i] = x[i]
  BY <1>1 DEF Joins
<1>6. s[Len(a) + 1] = tok
  BY <1>1, <1>2, <1>5
<1>7. ASSUME NEW i \in 1 .. Len(b) PROVE s[Len(a) + 1 + i] = b[i]
  <2>1. 1 + i \in 1 .. 1 + Len(b) /\ Len(a) + 1 + i = Len(a) + (1 + i)
    BY <1>1
  <2>2. QED
    BY <1>3, <1>5, <2>1
<1>8. QED
  BY <1>4, <1>6, <1>7 DEF Around

LEMMA OptionalTail ==
  ASSUME NEW a \in Text, NEW b, NEW tok \in Token, b # Absent => b \in Text
  PROVE  /\ b = Absent => a \o Optional(b, <<tok>>, <<>>) = a
         /\ b # Absent => Around(a \o Optional(b, <<tok>>, <<>>), a, tok, b)
<1>1. CASE b = Absent
  BY <1>1, NothingAdded DEF Optional
<1>2. CASE b # Absent
  <2> DEFINE x == <<tok>> \o b
  <2>1. <<tok>> \in Text /\ Len(<<tok>>) = 1 /\ <<tok>>[1] = tok
    BY OneToken
  <2>2. Joins(x, <<tok>>, b)
    BY <1>2, <2>1, TextJoins, Zenon
  <2>3. x \in Text
    BY <2>2 DEF Joins
  <2>4. Joins(a \o x, a, x)
    BY <2>3, TextJoins, Zenon
  <2>5. Around(a \o x, a, tok, b)
    BY <1>2, <2>1, <2>2, <2>4, JoinsTail, Zenon
  <2>6. Optional(b, <<tok>>, <<>>) = x
    <3>1. Optional(b, <<tok>>, <<>>) = x \o <<>>
      BY <1>2, Zenon DEF Optional
    <3>2. x \o <<>> = x
      BY <2>3, NothingAdded, Zenon
    <3>3. QED
      BY <3>1, <3>2, Zenon
  <2>7. QED
    BY <1>2, <2>5, <2>6, Zenon
<1>3. QED
  BY <1>1, <1>2

-----------------------------------------------------------------------------
(* The name of a reference: host and path.                                 *)
NameOf(m) == Optional(m.host, <<>>, <<"/">>) \o m.path

LEMMA NameIs ==
  ASSUME NEW m, WellFormed(m)
  PROVE  /\ NameOf(m) \in Text /\ NameOf(m) # <<>>
         /\ m.host = Absent => NameOf(m) = m.path
         /\ m.host # Absent => Around(NameOf(m), m.host, "/", m.path)
         /\ ~S!Contains(NameOf(m), "@")
<1>1. m.path \in Text /\ m.path # <<>> /\ ~S!Contains(m.path, "@")
  BY DEF WellFormed, Lacks
<1>2. CASE m.host = Absent
  BY <1>1, <1>2, NothingAdded DEF NameOf, Optional
<1>3. CASE m.host # Absent
  <2>1. m.host \in Text /\ ~S!Contains(m.host, "@")
    BY <1>3 DEF WellFormed, Lacks
  <2>2. Optional(m.host, <<>>, <<"/">>) = m.host \o <<"/">>
    BY <1>3, <2>1, NothingAdded DEF Optional
  <2>3. Around(NameOf(m), m.host, "/", m.path)
    <3>1. "/" \in Token
      BY DEF Token
    <3>2. Around((m.host \o <<"/">>) \o m.path, m.host, "/", m.path)
      BY <1>1, <2>1, <3>1, TextAround, Zenon
    <3>3. QED
      BY <2>2, <3>2, Zenon DEF NameOf
  <2>4. ~S!Contains(NameOf(m), "@")
    BY <1>1, <2>1, <2>3, AroundLacks
  <2>5. NameOf(m) \in Text /\ NameOf(m) # <<>>
    BY <1>1, <2>1, <2>3, AroundText
  <2>7. QED
    BY <1>3, <2>3, <2>4, <2>5
<1>4. QED
  BY <1>2, <1>3

(* The name alone has no colon that could begin a tag: those of a port are *)
(* before the last slash.                                                  *)
LEMMA NoTagInName ==
  ASSUME NEW m, WellFormed(m)
  PROVE  TagColon(NameOf(m)) = 0
<1> DEFINE n == NameOf(m)
<1>1. m.path \in Text /\ ~S!Contains(m.path, ":") /\ n \in Text
  BY NameIs DEF WellFormed, Lacks
<1>2. CASE m.host = Absent
  <2>1. LastOf(":", n) = 0 /\ LastOf("/", n) \in Nat
    BY <1>1, <1>2, NameIs, NoneOf, LastOfIs
  <2>2. QED
    BY <2>1 DEF TagColon
<1>3. CASE m.host # Absent
  <2>1. m.host \in Text /\ Around(n, m.host, "/", m.path)
    BY <1>3, NameIs DEF WellFormed
  <2>2. LastOf("/", n) \in Nat /\ LastOf("/", n) >= Len(m.host) + 1
    BY <1>1, <2>1, AroundAtLeast
  <2>3. LastOf(":", n) \in Nat /\ LastOf(":", n) <= Len(m.host) /\ Len(m.host) \in Nat
    BY <1>1, <2>1, AroundLast
  <2> HIDE DEF n
  <2>4. QED
    BY <2>2, <2>3 DEF TagColon, n
<1>4. QED
  BY <1>2, <1>3

(* Name and tag are told apart. *)
LEMMA TagRead ==
  ASSUME NEW m, WellFormed(m),
         NEW r, r = NameOf(m) \o Optional(m.tag, <<":">>, <<>>)
  PROVE  /\ r \in Text /\ ~S!Contains(r, "@")
         /\ Before(r, TagColon(r)) = NameOf(m) /\ After(r, TagColon(r)) = m.tag
<1> DEFINE n == NameOf(m)
<1>1. n \in Text /\ ~S!Contains(n, "@") /\ TagColon(n) = 0
  BY NameIs, NoTagInName
<1> HIDE DEF n
<1>2. m.tag # Absent => m.tag \in Text /\ Lacks(m.tag, {"/", ":", "@"})
  BY DEF WellFormed
<1>3. /\ m.tag = Absent => r = n
      /\ m.tag # Absent => Around(r, n, ":", m.tag)
  <2>1. ":" \in Token
    BY DEF Token
  <2>2. QED
    BY <1>1, <1>2, <2>1, OptionalTail, Zenon DEF n
<1>4. CASE m.tag = Absent
  BY <1>1, <1>3, <1>4 DEF Before, After, n
<1>5. CASE m.tag # Absent
  <2>1. /\ Around(r, n, ":", m.tag) /\ m.tag \in Text
        /\ ~S!Contains(m.tag, "/") /\ ~S!Contains(m.tag, ":")
        /\ ~S!Contains(m.tag, "@")
    BY <1>2, <1>3, <1>5 DEF Lacks
  <2>2. r \in Text
    BY <1>1, <2>1, AroundText
  <2>3. ~S!Contains(r, "@")
    BY <1>1, <2>1, AroundLacks
  <2>4. Before(r, LastOf(":", r)) = n /\ After(r, LastOf(":", r)) = m.tag
    BY <1>1, <2>1, CutAtLast
  <2>5. LastOf(":", r) = Len(n) + 1 /\ Len(n) \in Nat
    BY <1>1, <2>1, AroundLast
  <2>6. LastOf("/", r) <= Len(n) /\ LastOf("/", r) \in Nat
    BY <1>1, <2>1, AroundLast
  <2>7. TagColon(r) = LastOf(":", r)
    BY <2>5, <2>6 DEF TagColon
  <2>8. QED
    BY <2>2, <2>3, <2>4, <2>7 DEF n
<1>6. QED
  BY <1>4, <1>5

(* ImageRef::parse reads every reference that Docker understands as what   *)
(* it means: the parts it was written from, none missing and none mixed    *)
(* up, wherever it has a port, a tag and a digest.  (image_ref.rs 27-85)   *)
THEOREM ParseReads ==
  ASSUME NEW m, WellFormed(m)
  PROVE  Parse(Written(m)) = [name |-> NameOf(m), tag |-> m.tag, digest |-> m.digest]
<1> DEFINE r == NameOf(m) \o Optional(m.tag, <<":">>, <<>>)
           w == r \o Optional(m.digest, <<"@">>, <<>>)
<1>1. Written(m) = w
  BY DEF Written, NameOf
<1>2. /\ r \in Text /\ ~S!Contains(r, "@")
      /\ Before(r, TagColon(r)) = NameOf(m) /\ After(r, TagColon(r)) = m.tag
  BY TagRead
<1> HIDE DEF r
<1>3. m.digest # Absent =>
        m.digest \in Text /\ S!Contains(m.digest, ":") /\ ~S!Contains(m.digest, "@")
  BY DEF WellFormed, Lacks
<1>4. /\ m.digest = Absent => w = r
      /\ m.digest # Absent => Around(w, r, "@", m.digest)
  <2>1. "@" \in Token
    BY DEF Token
  <2>2. QED
    BY <1>2, <1>3, <2>1, OptionalTail, Zenon
<1> HIDE DEF w
<1>5. Before(w, LastOf("@", w)) = r /\ After(w, LastOf("@", w)) = m.digest
  <2>1. CASE m.digest = Absent
    <3>1. LastOf("@", w) = 0
      BY <1>2, <1>4, <2>1, NoneOf
    <3>2. QED
      BY <1>4, <2>1, <3>1 DEF Before, After
  <2>2. CASE m.digest # Absent
    BY <1>2, <1>3, <1>4, <2>2, CutAtLast
  <2>3. QED
    BY <2>1, <2>2
<1>6. NameOf(m) # <<>> /\ m.tag # <<>>
  <2>1. <<>> \in Text
    BY EmptySeq, Zenon DEF Text
  <2>2. m.tag # <<>>
    BY <2>1, TextAssumption DEF WellFormed
  <2>3. QED
    BY <2>2, NameIs
<1>7. QED
  BY <1>1, <1>2, <1>3, <1>5, <1>6 DEF Parse

(* check_image_policy takes the registry from the name as Docker does.     *)
LEMMA RegistryRead ==
  ASSUME NEW m, WellFormed(m), Plain(m)
  PROVE  RegistryOf(NameOf(m)) = MeantRegistry(m)
<1>1. CASE m.host = Absent
  BY <1>1, NameIs DEF Plain, RegistryOf, MeantRegistry
<1>2. CASE m.host # Absent
  <2>1. /\ m.path \in Text /\ m.host \in Text /\ ~S!Contains(m.host, "/")
        /\ LooksLikeHost(m.host)
    BY <1>2 DEF WellFormed, Plain, Lacks
  <2>2. Around(NameOf(m), m.host, "/", m.path)
    BY <1>2, NameIs
  <2>3. FirstPart(NameOf(m)) = m.host
    BY <2>1, <2>2, CutAtFirst DEF FirstPart
  <2>4. QED
    BY <1>2, <2>1, <2>3 DEF RegistryOf, MeantRegistry
<1>3. QED
  BY <1>1, <1>2

(* The policy decides by what a reference means. *)
LEMMA PolicyReads ==
  ASSUME NEW i \in Images, Plain(Meaning[i])
  PROVE  ImagePolicy(i) <=> Admissible(Meaning[i])
<1> DEFINE m == Meaning[i]
           ref == [name |-> NameOf(m), tag |-> m.tag, digest |-> m.digest]
<1>1. WellFormed(m)
  BY ImagesAssumption
<1>2. Parse(Written(m)) = ref /\ RegistryOf(NameOf(m)) = MeantRegistry(m)
  BY <1>1, ParseReads, RegistryRead
<1>3. ref # Absent
  <2>1. ref \in ImageRefs
    BY <1>1, NameIs DEF ImageRefs, WellFormed
  <2>2. QED
    BY <2>1, TextAssumption
<1>4. QED
  BY <1>2, <1>3 DEF ImagePolicy, Admissible

-----------------------------------------------------------------------------
USE BareAssumption, AbsentAssumption

(* A call that is under way knows its job, by the step it stands at, and   *)
(* an apply past the policy check has an image that passes it.             *)
JobAt(c) ==
  /\ at[c] \in {"inspect", "pull", "create", "start"}
       => job[c].op = "apply" /\ job[c].image \in Images
  /\ at[c] \in {"stop", "remove"} => job[c].op = "delete" /\ job[c].image = Absent
  /\ at[c] = "create" => ImagePolicy(job[c].image)

PolicyInv ==
  /\ TypeOK
  /\ OnlyAdmittedImages
  /\ \A c \in Callers : JobAt(c)

LEMMA PolicyInit == Init => PolicyInv
BY DEF Init, PolicyInv, TypeOK, OnlyAdmittedImages, JobAt, Steps

(* A step of one handler keeps what the invariant says of the others.      *)
LEMMA WorkPolicy ==
  ASSUME PolicyInv, NEW c \in Callers, Work(c)
  PROVE  PolicyInv'
<1> USE DEF PolicyInv, TypeOK, OnlyAdmittedImages, JobAt, Goto, Steps
<1>0. job[c] \in Jobs \cup {Absent} /\ (at[c] # "idle" => job[c] \in Jobs)
  OBVIOUS
<1>1. CASE Inspect(c)
  BY <1>0, <1>1 DEF Inspect, Jobs
<1>2. CASE Pull(c)
  BY <1>0, <1>2 DEF Pull, Jobs
<1>3. CASE Create(c)
  BY <1>0, <1>3 DEF Create, Jobs, Containers
<1>4. CASE Start(c)
  BY <1>0, <1>4 DEF Start, Jobs, Containers
<1>5. CASE Stop(c)
  BY <1>0, <1>5 DEF Stop, Jobs, Containers
<1>6. CASE Remove(c)
  BY <1>0, <1>6 DEF Remove, Jobs
<1>7. CASE Answer(c)
  BY <1>7 DEF Answer
<1>8. QED
  BY <1>1, <1>2, <1>3, <1>4, <1>5, <1>6, <1>7 DEF Work

LEMMA PolicyStep == PolicyInv /\ [Next]_vars => PolicyInv'
<1> SUFFICES ASSUME PolicyInv, [Next]_vars PROVE PolicyInv'
  OBVIOUS
<1> USE DEF PolicyInv, TypeOK, OnlyAdmittedImages, JobAt, Goto, Steps
<1>1. ASSUME NEW c \in Callers, NEW r \in Resources, CallDelete(c, r)
      PROVE  PolicyInv'
  BY <1>1 DEF CallDelete, Begin, HandleFor, Jobs, Ids
<1>2. ASSUME NEW c \in Callers, NEW r \in Resources, NEW i \in Images,
             CallApply(c, r, i)
      PROVE  PolicyInv'
  BY <1>2 DEF CallApply, Begin, Jobs, Ids
<1>3. ASSUME NEW c \in Callers, Work(c) PROVE PolicyInv'
  BY <1>3, WorkPolicy
<1>4. ASSUME NEW c \in Callers, Drop(c) PROVE PolicyInv'
  BY <1>4 DEF Drop
<1>5. ASSUME NEW i \in Ids, Exit(i) PROVE PolicyInv'
  BY <1>5 DEF Exit, Containers
<1>6. CASE UNCHANGED vars
  BY <1>6 DEF vars
<1>7. QED
  BY <1>1, <1>2, <1>3, <1>4, <1>5, <1>6 DEF Next

LEMMA PolicyInvariant == Spec => []PolicyInv
BY PolicyInit, PolicyStep, PTL DEF Spec

(* Every state is well typed: a handler has its job exactly while its call *)
(* is under way, whatever the daemon answers.                              *)
THEOREM TypeCorrect == Spec => []TypeOK
<1>1. PolicyInv => TypeOK
  BY DEF PolicyInv
<1>2. QED
  BY <1>1, PolicyInvariant, PTL

(* check_image_policy holds of every container, for any number of handlers *)
(* that race on any names, with every failure of the daemon and also when  *)
(* specs change and handles are rebuilt.                                   *)
THEOREM OnlyAdmittedRun == Spec => []OnlyAdmittedImages
<1>1. PolicyInv => OnlyAdmittedImages
  BY DEF PolicyInv
<1>2. QED
  BY <1>1, PolicyInvariant, PTL

(* Every image is named so that the gateway and Docker agree on its host.  *)
PlainNames == \A i \in Images : Plain(Meaning[i])

(* What check_image_policy admits by how a reference is written is what    *)
(* the policy means: whatever has a container is pinned if it must be and  *)
(* comes from an allowed registry, for any references Docker understands   *)
(* (whose hosts show a dot or a colon).                                    *)
THEOREM OnlyMeantRun ==
  ASSUME PlainNames PROVE Spec => []OnlyMeantImages
<1>1. PolicyInv => OnlyMeantImages
  <2>1. SUFFICES ASSUME PolicyInv, NEW i \in Ids, containers[i] # Absent
                 PROVE  Admissible(Meaning[containers[i].image])
    BY DEF OnlyMeantImages
  <2>2. containers[i].image \in Images /\ ImagePolicy(containers[i].image)
    BY <2>1 DEF PolicyInv, TypeOK, OnlyAdmittedImages, Containers
  <2>3. QED
    BY <2>2, PolicyReads DEF PlainNames
<1>2. QED
  BY <1>1, PolicyInvariant, PTL

(* It also refuses no image that the policy means to admit. *)
THEOREM JudgedByMeaning ==
  ASSUME PlainNames PROVE Spec => []PolicyByMeaning
<1>1. PolicyInv => PolicyByMeaning
  <2>1. ASSUME PolicyInv, NEW c \in Callers, at[c] = "pull"
        PROVE  job[c].image \in Images
    BY <2>1 DEF PolicyInv, JobAt
  <2>2. QED
    BY <2>1, PolicyReads DEF PlainNames, PolicyByMeaning
<1>2. QED
  BY <1>1, PolicyInvariant, PTL
-----------------------------------------------------------------------------
(* The refinement.  A call names the container of its resource or, if it   *)
(* is a delete, perhaps none: a bare name is no container's.               *)
HandleAt(c) ==
  job[c] # Absent =>
    \/ job[c].id = job[c].target
    \/ job[c].op = "delete" /\ job[c].id \in Names

CallInv == PolicyInv /\ \A c \in Callers : HandleAt(c)

LEMMA CallInit == Init => CallInv
BY PolicyInit DEF Init, CallInv, HandleAt

LEMMA CallStep == CallInv /\ [Next]_vars => CallInv'
<1> SUFFICES ASSUME CallInv, [Next]_vars PROVE CallInv'
  OBVIOUS
<1>0. PolicyInv' /\ TypeOK
  BY PolicyStep DEF CallInv, PolicyInv
<1> USE DEF CallInv, HandleAt, Goto
<1>1. ASSUME NEW c \in Callers, NEW r \in Resources, CallDelete(c, r)
      PROVE  CallInv'
  <2>1. PICK id \in {r, HandleFor(r)} :
          Begin(c, r, [op |-> "delete", target |-> r, id |-> id, image |-> Absent],
                "stop")
    BY <1>1 DEF CallDelete
  <2>2. id = r \/ id \in Names
    BY DEF HandleFor
  <2>3. QED
    BY <1>0, <2>1, <2>2 DEF Begin, TypeOK
<1>2. ASSUME NEW c \in Callers, NEW r \in Resources, NEW i \in Images,
             CallApply(c, r, i)
      PROVE  CallInv'
  BY <1>0, <1>2 DEF CallApply, Begin, TypeOK
<1>3. ASSUME NEW c \in Callers, Work(c) PROVE CallInv'
  BY <1>0, <1>3 DEF Work, Inspect, Pull, Create, Start, Stop, Remove, Answer, TypeOK
<1>4. ASSUME NEW c \in Callers, Drop(c) PROVE CallInv'
  BY <1>0, <1>4 DEF Drop, TypeOK
<1>5. ASSUME NEW i \in Ids, Exit(i) PROVE CallInv'
  BY <1>0, <1>5 DEF Exit
<1>6. CASE UNCHANGED vars
  BY <1>0, <1>6 DEF vars
<1>7. QED
  BY <1>1, <1>2, <1>3, <1>4, <1>5, <1>6 DEF Next

LEMMA CallInvariant == Spec => []CallInv
BY CallInit, CallStep, PTL DEF Spec

-----------------------------------------------------------------------------
(* Each step, seen through the refinement mapping.                         *)
Deployed == [r \in Resources |-> DeployedImage(r)]
Prepared == [r \in Resources |-> PreparedImage(r)]
Working == [c \in Callers |-> WorkOf(c)]

LEMMA WorkIsAWork ==
  ASSUME TypeOK, NEW c \in Callers, job[c] # Absent
  PROVE  /\ job[c] \in Jobs
         /\ WorkOf(c) \in Provider!Works
         /\ WorkOf(c) # Absent
BY NoWorkAssumption DEF TypeOK, WorkOf, Jobs, Provider!Works

LEMMA WorkingChange ==
  ASSUME NEW c \in Callers, \A d \in Callers \ {c} : WorkOf(d)' = WorkOf(d)
  PROVE  /\ Working[c] = WorkOf(c)
         /\ Working' = [Working EXCEPT ![c] = WorkOf(c)']
BY DEF Working

(* A handler that keeps its job and its verdict steps without being seen.  *)
LEMMA HiddenWork ==
  ASSUME UNCHANGED job, NEW c \in Callers, NEW s, at' = [at EXCEPT ![c] = s],
         TypeOK, at[c] \notin {"ok", "error"}, s \notin {"ok", "error"}
  PROVE  Working' = Working
BY DEF Working, WorkOf, TypeOK

(* What an unfinished call is seen as.                                     *)
LEMMA PendingWork ==
  ASSUME TypeOK, NEW c \in Callers, at[c] \notin {"idle", "ok", "error"}
  PROVE  /\ Provider!Pending(c, job[c].op)
         /\ job[c] \in Jobs
         /\ Working[c].target = job[c].target /\ Working[c].image = job[c].image
         /\ Working[c].handle =
              IF job[c].id = job[c].target THEN "own" ELSE "other"
<1>1. job[c] # Absent
  BY DEF TypeOK
<1>2. WorkOf(c) # Absent /\ WorkOf(c).result = "pending"
  BY <1>1, WorkIsAWork DEF WorkOf
<1>3. QED
  BY <1>1, <1>2, WorkIsAWork DEF WorkOf, Working, Provider!Pending

(* A handler that reaches its verdict gives its work a result.             *)
LEMMA ResultOfWork ==
  ASSUME UNCHANGED job, NEW c \in Callers, NEW s \in {"ok", "error"},
         at' = [at EXCEPT ![c] = s], TypeOK,
         at[c] \notin {"idle", "ok", "error"}
  PROVE  Provider!Finish(c, s)
<1>1. job[c] # Absent /\ job'[c] = job[c] /\ at'[c] = s
  BY DEF TypeOK
<1>2. WorkOf(c)' = [WorkOf(c) EXCEPT !.result = s]
  BY <1>1 DEF WorkOf
<1>3. \A d \in Callers \ {c} : WorkOf(d)' = WorkOf(d)
  BY DEF WorkOf, TypeOK
<1>4. QED
  BY <1>2, <1>3 DEF Provider!Finish, Working

(* What becomes of the deployments follows from what becomes of containers. *)
LEMMA SameBoxes ==
  ASSUME \A r \in Resources : /\ DeployedImage(r)' = DeployedImage(r)
                              /\ PreparedImage(r)' = PreparedImage(r)
  PROVE  Deployed' = Deployed /\ Prepared' = Prepared
BY DEF Deployed, Prepared

LEMMA OneBox ==
  ASSUME NEW r \in Resources, NEW d, NEW p,
         DeployedImage(r)' = d, PreparedImage(r)' = p,
         \A q \in Resources \ {r} : containers'[q] = containers[q]
  PROVE  /\ Deployed' = [Deployed EXCEPT ![r] = d]
         /\ Prepared' = [Prepared EXCEPT ![r] = p]
<1>1. \A q \in Resources \ {r} : /\ DeployedImage(q)' = DeployedImage(q)
                                 /\ PreparedImage(q)' = PreparedImage(q)
  BY DEF DeployedImage, PreparedImage
<1>2. QED
  BY <1>1 DEF Deployed, Prepared

LEMMA EndOfWork ==
  ASSUME TypeOK, NEW c \in Callers, job[c] # Absent, UNCHANGED containers,
         job' = [job EXCEPT ![c] = Absent], at' = [at EXCEPT ![c] = "idle"]
  PROVE  Provider!End(c)
<1>1. WorkOf(c) # Absent /\ WorkOf(c)' = Absent
  BY WorkIsAWork DEF WorkOf, TypeOK
<1>2. \A d \in Callers \ {c} : WorkOf(d)' = WorkOf(d)
  BY DEF WorkOf, TypeOK
<1>3. Deployed' = Deployed /\ Prepared' = Prepared
  BY DEF Deployed, DeployedImage, Prepared, PreparedImage
<1>4. /\ Working[c] = WorkOf(c)
      /\ Working' = [Working EXCEPT ![c] = WorkOf(c)']
  BY <1>2, WorkingChange
<1>5. QED
  BY <1>1, <1>3, <1>4 DEF Provider!End, Working, Deployed, Prepared

LEMMA BeginOfWork ==
  ASSUME TypeOK, NEW c \in Callers, NEW r \in Resources,
         NEW i \in Images \cup {Absent}, NEW n \in Ids, i # Absent => n = r,
         NEW step \in {"inspect", "stop"},
         Begin(c, r, [ op |-> IF i = Absent THEN "delete" ELSE "apply",
                       target |-> r, id |-> n, image |-> i ], step)
  PROVE  Provider!Call(c)
<1>1. job'[c] # Absent
  BY DEF Begin, Jobs, TypeOK
<1>2. WorkOf(c) = Absent
  BY DEF Begin, TypeOK, WorkOf
<1>3. WorkOf(c)' = [ op |-> IF i = Absent THEN "delete" ELSE "apply",
                     target |-> r, handle |-> IF n = r THEN "own" ELSE "other",
                     image |-> i, result |-> "pending" ]
  BY <1>1 DEF Begin, Goto, TypeOK, WorkOf
<1>4. \A d \in Callers \ {c} : WorkOf(d)' = WorkOf(d)
  BY DEF Begin, Goto, WorkOf, TypeOK
<1>5. Deployed' = Deployed /\ Prepared' = Prepared
  BY DEF Begin, Deployed, DeployedImage, Prepared, PreparedImage
<1>6. /\ Working[c] = WorkOf(c)
      /\ Working' = [Working EXCEPT ![c] = WorkOf(c)']
  BY <1>4, WorkingChange
<1>7. QED
  BY <1>2, <1>3, <1>5, <1>6 DEF Provider!Call, Working, Deployed, Prepared

LEMMA RefusalOfWork ==
  ASSUME TypeOK, NEW c \in Callers, UNCHANGED job,
         at[c] \notin {"idle", "ok", "error"}, at' = [at EXCEPT ![c] = "error"],
         Deployed' = Deployed, Prepared' = Prepared
  PROVE  Provider!Refuse(c)
<1>1. Provider!Finish(c, "error") /\ Provider!Pending(c, job[c].op)
      /\ job[c].op \in {"apply", "delete"}
  BY ResultOfWork, PendingWork DEF Jobs
<1>2. QED
  BY <1>1 DEF Provider!Refuse, Working, Deployed, Prepared

LEMMA HiddenStep ==
  ASSUME Working' = Working, Deployed' = Deployed, Prepared' = Prepared
  PROVE  UNCHANGED Provider!vars
BY DEF Provider!vars, Working, Deployed, Prepared

-----------------------------------------------------------------------------
(* The steps of an apply.                                                  *)

(* An apply that answers Ok without a change found a deployment.           *)
LEMMA Reused ==
  ASSUME TypeOK, NEW c \in Callers, UNCHANGED job, at[c] \in {"inspect", "start"},
         job[c].op = "apply", at' = [at EXCEPT ![c] = "ok"],
         Deployed' = Deployed, Prepared' = Prepared,
         Deployed[job[c].target] # Absent
  PROVE  Provider!Reuse(c)
<1>1. Provider!Finish(c, "ok") /\ Provider!Pending(c, "apply")
      /\ Working[c].target = job[c].target
  BY ResultOfWork, PendingWork
<1>2. QED
  BY <1>1 DEF Provider!Reuse, Working, Deployed, Prepared

LEMMA InspectRefines ==
  ASSUME CallInv, NEW c \in Callers, Inspect(c)
  PROVE  [Provider!Next]_Provider!vars
<1> USE DEF Goto
<1>1. /\ TypeOK /\ job[c].op = "apply" /\ job[c].id = job[c].target
      /\ job[c].target \in Resources /\ at[c] = "inspect"
  BY DEF CallInv, PolicyInv, JobAt, HandleAt, Inspect, TypeOK, Jobs
<1>2. Deployed' = Deployed /\ Prepared' = Prepared
  BY DEF Inspect, Deployed, DeployedImage, Prepared, PreparedImage
<1>3. CASE at' = [at EXCEPT ![c] = "ok"]
  <2>1. /\ containers[job[c].target] # Absent
        /\ containers[job[c].target].state = "running"
        /\ containers[job[c].target] \in Containers
    BY <1>1, <1>3 DEF Inspect, TypeOK, Ids
  <2>2. Deployed[job[c].target] # Absent
    BY <1>1, <2>1 DEF Deployed, DeployedImage, Containers
  <2>3. QED
    BY <1>1, <1>2, <1>3, <2>2, Reused DEF Inspect, Provider!Next
<1>4. CASE at' = [at EXCEPT ![c] = "pull"]
  BY <1>1, <1>2, <1>4, HiddenWork, HiddenStep DEF Inspect
<1>5. QED
  BY <1>3, <1>4 DEF Inspect

LEMMA PullRefines ==
  ASSUME CallInv, NEW c \in Callers, Pull(c)
  PROVE  [Provider!Next]_Provider!vars
<1> USE DEF Goto
<1>1. TypeOK /\ at[c] = "pull"
  BY DEF CallInv, PolicyInv, Pull
<1>2. Deployed' = Deployed /\ Prepared' = Prepared
  BY DEF Pull, Deployed, DeployedImage, Prepared, PreparedImage
<1>3. CASE at' = [at EXCEPT ![c] = "create"]
  BY <1>1, <1>2, <1>3, HiddenWork, HiddenStep DEF Pull
<1>4. CASE at' = [at EXCEPT ![c] = "error"]
  BY <1>1, <1>2, <1>4, RefusalOfWork DEF Pull, Provider!Next
<1>5. QED
  BY <1>3, <1>4 DEF Pull

LEMMA CreateRefines ==
  ASSUME CallInv, NEW c \in Callers, Create(c)
  PROVE  [Provider!Next]_Provider!vars
<1> USE DEF Goto
<1>0. PICK r \in Resources : r = job[c].target
  BY DEF CallInv, PolicyInv, Create, TypeOK, Jobs
<1>1. /\ TypeOK /\ job[c].op = "apply" /\ job[c].image \in Images
      /\ job[c].id = r /\ r \in Ids /\ at[c] = "create"
  BY <1>0 DEF CallInv, PolicyInv, JobAt, HandleAt, Create, TypeOK, Jobs, Ids
<1>2. CASE containers[r] = Absent /\ UNCHANGED job
           /\ containers' = [containers EXCEPT ![r] =
                               [image |-> job[c].image, state |-> "created"]]
           /\ at' = [at EXCEPT ![c] = "start"]
  <2>1. containers'[r] = [image |-> job[c].image, state |-> "created"]
    BY <1>1, <1>2 DEF TypeOK
  <2>2. containers'[r] # Absent
    BY <1>1, <2>1 DEF Containers
  <2>3. DeployedImage(r)' = Absent /\ PreparedImage(r)' = job[c].image
    BY <2>1, <2>2 DEF DeployedImage, PreparedImage
  <2>4. \A q \in Resources \ {r} : containers'[q] = containers[q]
    BY <1>1, <1>2 DEF TypeOK, Ids
  <2>5. /\ Deployed' = [Deployed EXCEPT ![r] = Absent]
        /\ Prepared' = [Prepared EXCEPT ![r] = job[c].image]
    BY <1>1, <2>3, <2>4, OneBox
  <2>6. Deployed[r] = Absent /\ Prepared[r] = Absent
    BY <1>1, <1>2 DEF Deployed, Prepared, DeployedImage, PreparedImage
  <2>7. Deployed' = Deployed
    BY <2>5, <2>6 DEF Deployed
  <2>8. Working' = Working
    BY <1>1, <1>2, HiddenWork
  <2>9. /\ Provider!Pending(c, "apply")
        /\ Working[c].target = r /\ Working[c].image = job[c].image
    BY <1>0, <1>1, PendingWork
  <2>10. Provider!Prepare(c)
    BY <2>5, <2>6, <2>7, <2>8, <2>9 DEF Provider!Prepare, Working, Deployed, Prepared
  <2>11. QED
    BY <2>10 DEF Provider!Next
<1>3. CASE UNCHANGED <<containers, job>>
  <2>1. Deployed' = Deployed /\ Prepared' = Prepared
    BY <1>3 DEF Deployed, DeployedImage, Prepared, PreparedImage
  <2>2. CASE at' = [at EXCEPT ![c] = "start"]
    <3>1. TypeOK /\ UNCHANGED job /\ at[c] \notin {"ok", "error"}
      BY <1>1, <1>3
    <3>2. Working' = Working
      BY <2>2, <3>1, HiddenWork
    <3>3. QED
      BY <2>1, <3>2, HiddenStep
  <2>3. CASE at' = [at EXCEPT ![c] = "error"]
    BY <1>1, <1>3, <2>1, <2>3, RefusalOfWork DEF Provider!Next
  <2>4. QED
    BY <1>3, <2>2, <2>3 DEF Create
<1>4. QED
  BY <1>1, <1>2, <1>3 DEF Create

(* To start a container is to install what is prepared or, of one that     *)
(* has been started before, to reuse it.                                   *)
LEMMA StartRefines ==
  ASSUME CallInv, NEW c \in Callers, Start(c)
  PROVE  [Provider!Next]_Provider!vars
<1> USE DEF Goto
<1>0. PICK r \in Resources : r = job[c].target
  BY DEF CallInv, PolicyInv, Start, TypeOK, Jobs
<1>1. /\ TypeOK /\ job[c].op = "apply" /\ UNCHANGED job
      /\ job[c].id = r /\ r \in Ids /\ at[c] = "start"
  BY <1>0 DEF CallInv, PolicyInv, JobAt, HandleAt, Start, TypeOK, Jobs, Ids
<1>2. CASE containers[r] # Absent
           /\ containers' = [containers EXCEPT ![r].state = "running"]
           /\ at' = [at EXCEPT ![c] = "ok"]
  <2>1. containers[r] \in Containers
    BY <1>1, <1>2 DEF TypeOK
  <2>2. containers'[r] = [image |-> containers[r].image, state |-> "running"]
    BY <1>1, <1>2, <2>1 DEF TypeOK, Containers
  <2>3. containers'[r] # Absent
    BY <2>1, <2>2 DEF Containers
  <2>4. DeployedImage(r)' = containers[r].image /\ PreparedImage(r)' = Absent
    BY <2>2, <2>3 DEF DeployedImage, PreparedImage
  <2>5. \A q \in Resources \ {r} : containers'[q] = containers[q]
    BY <1>1, <1>2 DEF TypeOK, Ids
  <2>6. /\ Deployed' = [Deployed EXCEPT ![r] = containers[r].image]
        /\ Prepared' = [Prepared EXCEPT ![r] = Absent]
    BY <1>1, <2>4, <2>5, OneBox
  <2>7. CASE containers[r].state = "created"
    <3>1. Prepared[r] = containers[r].image /\ Prepared[r] # Absent
      BY <1>1, <1>2, <2>1, <2>7 DEF Prepared, PreparedImage, Containers
    <3>2. /\ Provider!Pending(c, "apply") /\ Provider!Finish(c, "ok")
          /\ Working[c].target = r
      BY <1>0, <1>1, <1>2, PendingWork, ResultOfWork
    <3>3. Provider!Install(c)
      BY <2>6, <3>1, <3>2 DEF Provider!Install, Working, Deployed, Prepared
    <3>4. QED
      BY <3>3 DEF Provider!Next
  <2>8. CASE containers[r].state # "created"
    <3>1. /\ Deployed[r] = containers[r].image /\ Deployed[r] # Absent
          /\ Prepared[r] = Absent
      BY <1>1, <1>2, <2>1, <2>8
         DEF Deployed, DeployedImage, Prepared, PreparedImage, Containers
    <3>2. Deployed' = Deployed /\ Prepared' = Prepared
      BY <2>6, <3>1 DEF Deployed, Prepared
    <3>3. QED
      BY <1>0, <1>1, <1>2, <3>1, <3>2, Reused DEF Provider!Next
  <2>9. QED
    BY <2>7, <2>8
<1>3. CASE UNCHANGED containers /\ at' = [at EXCEPT ![c] = "error"]
  <2>1. Deployed' = Deployed /\ Prepared' = Prepared
    BY <1>3 DEF Deployed, DeployedImage, Prepared, PreparedImage
  <2>2. QED
    BY <1>1, <1>3, <2>1, RefusalOfWork DEF Provider!Next
<1>4. QED
  BY <1>1, <1>2, <1>3 DEF Start

-----------------------------------------------------------------------------
(* The steps of a delete, and the rest.                                    *)

(* A container that stops stays what it was, deployed or prepared.         *)
LEMMA StoppedBox ==
  ASSUME TypeOK, NEW i \in Ids, containers[i] # Absent,
         containers[i].state = "running",
         containers' = [containers EXCEPT ![i].state = "exited"]
  PROVE  Deployed' = Deployed /\ Prepared' = Prepared
<1>1. containers[i] \in Containers
  BY DEF TypeOK
<1>2. containers'[i] = [image |-> containers[i].image, state |-> "exited"]
  BY <1>1 DEF TypeOK, Containers
<1>3. containers'[i] # Absent
  BY <1>1, <1>2 DEF Containers
<1>4. ASSUME NEW r \in Resources
      PROVE  /\ DeployedImage(r)' = DeployedImage(r)
             /\ PreparedImage(r)' = PreparedImage(r)
  <2>1. CASE r = i
    BY <1>2, <1>3, <2>1 DEF DeployedImage, PreparedImage
  <2>2. CASE r # i
    BY <2>2 DEF DeployedImage, PreparedImage, TypeOK, Ids
  <2>3. QED
    BY <2>1, <2>2
<1>5. QED
  BY <1>4, SameBoxes

LEMMA StopRefines ==
  ASSUME CallInv, NEW c \in Callers, Stop(c)
  PROVE  [Provider!Next]_Provider!vars
<1> USE DEF Goto
<1>1. TypeOK /\ job[c].id \in Ids
  BY DEF CallInv, PolicyInv, Stop, TypeOK, Jobs
<1>2. Deployed' = Deployed /\ Prepared' = Prepared
  <2>1. CASE UNCHANGED containers
    BY <2>1 DEF Deployed, DeployedImage, Prepared, PreparedImage
  <2>2. CASE containers[job[c].id] # Absent
             /\ containers[job[c].id].state = "running"
             /\ containers' = [containers EXCEPT ![job[c].id].state = "exited"]
    BY <1>1, <2>2, StoppedBox
  <2>3. QED
    BY <2>1, <2>2 DEF Stop
<1>3. Working' = Working
  BY <1>1, HiddenWork DEF Stop
<1>4. QED
  BY <1>2, <1>3, HiddenStep

LEMMA RemoveRefines ==
  ASSUME CallInv, NEW c \in Callers, Remove(c)
  PROVE  [Provider!Next]_Provider!vars
<1> USE DEF Goto
<1>0. PICK r \in Resources : r = job[c].target
  BY DEF CallInv, PolicyInv, Remove, TypeOK, Jobs
<1>1. /\ TypeOK /\ job[c].op = "delete" /\ UNCHANGED job /\ at[c] = "remove"
      /\ r \in Ids
      /\ job[c].id = r \/ job[c].id \in Names
  BY <1>0 DEF CallInv, PolicyInv, JobAt, HandleAt, Remove, TypeOK, Jobs, Ids
<1>2. /\ Provider!Pending(c, "delete") /\ Working[c].target = r
      /\ Working[c].handle = IF job[c].id = r THEN "own" ELSE "other"
  BY <1>0, <1>1, PendingWork
<1>3. CASE containers' = [containers EXCEPT ![job[c].id] = Absent]
           /\ at' = [at EXCEPT ![c] = "ok"]
  <2>1. Provider!Finish(c, "ok")
    BY <1>1, <1>3, ResultOfWork
  <2>2. CASE job[c].id = r
    <3>1. containers'[r] = Absent
      BY <1>1, <1>3, <2>2 DEF TypeOK
    <3>2. DeployedImage(r)' = Absent /\ PreparedImage(r)' = Absent
      BY <3>1 DEF DeployedImage, PreparedImage
    <3>3. \A q \in Resources \ {r} : containers'[q] = containers[q]
      BY <1>1, <1>3, <2>2 DEF TypeOK, Ids
    <3>4. /\ Deployed' = [Deployed EXCEPT ![r] = Absent]
          /\ Prepared' = [Prepared EXCEPT ![r] = Absent]
      BY <1>1, <3>2, <3>3, OneBox
    <3>5. Provider!Clear(c)
      BY <1>2, <2>1, <2>2, <3>4 DEF Provider!Clear, Working, Deployed, Prepared
    <3>6. QED
      BY <3>5 DEF Provider!Next
  <2>3. CASE job[c].id # r
    <3>1. \A q \in Resources : containers'[q] = containers[q]
      BY <1>1, <1>3, <2>3 DEF TypeOK, Ids
    <3>2. Deployed' = Deployed /\ Prepared' = Prepared
      BY <3>1 DEF Deployed, DeployedImage, Prepared, PreparedImage
    <3>3. Provider!Miss(c)
      BY <1>2, <2>1, <2>3, <3>2 DEF Provider!Miss, Working, Deployed, Prepared
    <3>4. QED
      BY <3>3 DEF Provider!Next
  <2>4. QED
    BY <2>2, <2>3
<1>4. CASE UNCHANGED containers /\ at' = [at EXCEPT ![c] = "error"]
  <2>1. Deployed' = Deployed /\ Prepared' = Prepared
    BY <1>4 DEF Deployed, DeployedImage, Prepared, PreparedImage
  <2>2. QED
    BY <1>1, <1>4, <2>1, RefusalOfWork DEF Provider!Next
<1>5. QED
  BY <1>3, <1>4 DEF Remove

LEMMA NextRefines ==
  ASSUME CallInv, [Next]_vars PROVE [Provider!Next]_Provider!vars
<1>0. TypeOK
  BY DEF CallInv, PolicyInv
<1>1. ASSUME NEW c \in Callers, NEW r \in Resources, CallDelete(c, r)
      PROVE  Provider!Call(c)
  <2>1. PICK id \in {r, HandleFor(r)} :
          Begin(c, r, [ op |-> IF Absent = Absent THEN "delete" ELSE "apply",
                        target |-> r, id |-> id, image |-> Absent ], "stop")
    BY <1>1 DEF CallDelete
  <2>2. id \in Ids
    BY DEF HandleFor, Ids
  <2>3. QED
    BY <1>0, <2>1, <2>2, BeginOfWork
<1>2. ASSUME NEW c \in Callers, NEW r \in Resources, NEW i \in Images,
             CallApply(c, r, i)
      PROVE  Provider!Call(c)
  <2>1. Begin(c, r, [ op |-> IF i = Absent THEN "delete" ELSE "apply",
                      target |-> r, id |-> r, image |-> i ], "inspect")
    BY <1>2 DEF CallApply
  <2>2. QED
    BY <1>0, <2>1, BeginOfWork DEF Ids
<1>3. ASSUME NEW c \in Callers, Answer(c) \/ Drop(c) PROVE Provider!End(c)
  BY <1>0, <1>3, EndOfWork DEF Answer, Drop, Goto, TypeOK
<1>4. ASSUME NEW c \in Callers, Work(c) PROVE [Provider!Next]_Provider!vars
  BY <1>3, <1>4, InspectRefines, PullRefines, CreateRefines, StartRefines,
     StopRefines, RemoveRefines DEF Work, Provider!Next
<1>5. ASSUME NEW i \in Ids, Exit(i) PROVE UNCHANGED Provider!vars
  <2>1. Deployed' = Deployed /\ Prepared' = Prepared
    BY <1>0, <1>5, StoppedBox DEF Exit
  <2>2. Working' = Working
    BY <1>5 DEF Exit, Working, WorkOf
  <2>3. QED
    BY <2>1, <2>2, HiddenStep
<1>6. CASE UNCHANGED vars
  <2>1. Deployed' = Deployed /\ Prepared' = Prepared /\ Working' = Working
    BY <1>6 DEF vars, Deployed, DeployedImage, Prepared, PreparedImage, Working,
                WorkOf
  <2>2. QED
    BY <2>1, HiddenStep
<1>7. QED
  BY <1>1, <1>2, <1>3, <1>4, <1>5, <1>6 DEF Next, Provider!Next

(* The Docker provider does of every call what its contract says, for any  *)
(* number of handlers, resources and images, under every hazard: whatever  *)
(* specs an update brings, and with the handle the gateway makes up.       *)
THEOREM KeepsTheContract == Spec => ImplementsProvider
<1>1. Init => Provider!Init
  BY DEF Init, Provider!Init, DeployedImage, PreparedImage, WorkOf, Ids
<1>2. CallInv /\ [Next]_vars => [Provider!Next]_Provider!vars
  BY NextRefines
<1>3. QED
  BY <1>1, <1>2, CallInvariant, PTL DEF Spec, ImplementsProvider, Provider!Spec
=============================================================================
