----------------------------- MODULE TextProofs -----------------------------
(***************************************************************************)
(* What the tests of EmqttContract accept, for texts and limits of any     *)
(* length, which lengths the fixed headers of MqttCodec read and write,    *)
(* and what MqttUri makes of a user name and a password.                   *)
(***************************************************************************)
EXTENDS MCTexts, MqttComposeProofs

-----------------------------------------------------------------------------
(***************************************************************************)
(* Texts that are ASCII and have no control characters are UTF-8.          *)
(***************************************************************************)

\* The values of the recursion in CodeAt
CodesAt(text, at, c0, c1, c2, c3) ==
    /\ c0 = FirstBits(text[at])
    /\ c1 = c0 * 64 + (text[at + 1] % 64)
    /\ c2 = c1 * 64 + (text[at + 2] % 64)
    /\ c3 = c2 * 64 + (text[at + 3] % 64)

LEMMA CodeAtIs ==
    ASSUME NEW text, NEW at, NEW c0, NEW c1, NEW c2, NEW c3, CodesAt(text, at, c0, c1, c2, c3)
    PROVE  /\ Extra(text[at]) = 0 => CodeAt(text, at) = c0
           /\ Extra(text[at]) = 1 => CodeAt(text, at) = c1
           /\ Extra(text[at]) = 2 => CodeAt(text, at) = c2
           /\ Extra(text[at]) = 3 => CodeAt(text, at) = c3
<1> DEFINE Of(f) == [k \in 0 .. 3 |-> IF k = 0 THEN FirstBits(text[at])
                                      ELSE f[k - 1] * 64 + (text[at + k] % 64)]
           F == [k \in 0 .. 3 |-> IF k = 0 THEN c0 ELSE IF k = 1 THEN c1 ELSE IF k = 2 THEN c2 ELSE c3]
           code == CHOOSE f : f = Of(f)
<1> USE DEF CodesAt
<1>1. CodeAt(text, at) = code[Extra(text[at])]
  BY DEF CodeAt
<1>2. F = Of(F)
  <2> SUFFICES ASSUME NEW k \in 0 .. 3
               PROVE  F[k] = IF k = 0 THEN FirstBits(text[at])
                                      ELSE F[k - 1] * 64 + (text[at + k] % 64)
    OBVIOUS
  <2>1. F[0] = c0 /\ F[1] = c1 /\ F[2] = c2 /\ F[3] = c3
    BY SMT
  <2>2. k = 0 \/ k = 1 \/ k = 2 \/ k = 3
    OBVIOUS
  <2> HIDE DEF F
  <2>3. CASE k = 0
    BY <2>1, <2>3
  <2>4. CASE k = 1
    BY <2>1, <2>4
  <2>5. CASE k = 2
    BY <2>1, <2>5
  <2>6. CASE k = 3
    BY <2>1, <2>6
  <2>7. QED  BY <2>2, <2>3, <2>4, <2>5, <2>6
<1> HIDE DEF F
<1>3. code = Of(code)
  <2> HIDE DEF Of
  <2>1. QED  BY <1>2, Zenon
<1> HIDE DEF code
<1>4. code[0] = c0
  BY <1>3
<1>5. code[1] = c1
  BY <1>3, <1>4
<1>6. code[2] = c2
  BY <1>3, <1>5
<1>7. code[3] = c3
  BY <1>3, <1>6
<1>8. QED  BY <1>1, <1>4, <1>5, <1>6, <1>7, Zenon

\* A printable character is accepted.
LEMMA AsciiAccepted ==
    ASSUME NEW text, NEW at, text[at] \in 32 .. 126
    PROVE  Extra(text[at]) = 0 /\ Accepted(CodeAt(text, at), 0)
<1> DEFINE c == text[at]
<1>1. c \in 32 .. 126
  OBVIOUS
<1> HIDE DEF c
<1>2. Extra(c) = 0
  BY <1>1 DEF Extra
<1>3. FirstBits(c) = c
  BY <1>2 DEF FirstBits
<1>4. CodeAt(text, at) = c
  <2> DEFINE c1 == c * 64 + (text[at + 1] % 64)
             c2 == c1 * 64 + (text[at + 2] % 64)
             c3 == c2 * 64 + (text[at + 3] % 64)
  <2>1. CodesAt(text, at, c, c1, c2, c3)
    BY <1>3, Zenon DEF CodesAt, c
  <2> HIDE DEF c1, c2, c3
  <2>2. QED  BY <1>2, <2>1, CodeAtIs, Zenon DEF c
<1>5. Minimum(0) = 0
  BY DEF Minimum
<1>6. ~Refused(c)
  BY <1>1, SMTT(40) DEF Refused
<1>7. Accepted(c, 0)
  BY <1>1, <1>5, <1>6 DEF Accepted
<1>8. QED  BY <1>2, <1>4, <1>7, Zenon DEF c

LEMMA AsciiUtf8 ==
    ASSUME NEW text \in Seq(32 .. 126)
    PROVE  Utf8(text)
<1> DEFINE L == Len(text)
           Char(f, at) ==
             LET extra == Extra(text[at])
             IN  /\ extra >= 0 /\ at + extra <= Len(text)
                 /\ \A k \in at + 1 .. at + extra : text[k] \in 128 .. 191
                 /\ Accepted(CodeAt(text, at), extra)
                 /\ f[at + extra + 1]
           Of(f) == [at \in 1 .. Len(text) + 1 |-> at > Len(text) \/ Char(f, at)]
           F == [at \in 1 .. Len(text) + 1 |-> TRUE]
           from == CHOOSE f : f = Of(f)
<1>1. Utf8(text) <=> from[1]
  BY DEF Utf8
<1>2. L \in Nat /\ \A at \in 1 .. L : text[at] \in 32 .. 126
  BY LenProperties, ElementOfSeq, Zenon
<1>3. ASSUME NEW f, NEW at \in 1 .. L PROVE Char(f, at) <=> f[at + 1]
  <2>1. Extra(text[at]) = 0 /\ Accepted(CodeAt(text, at), 0)
    BY <1>2, AsciiAccepted, Zenon
  <2> DEFINE e == Extra(text[at])
  <2>2. e = 0 /\ Accepted(CodeAt(text, at), e)
    BY <2>1
  <2> HIDE DEF e
  <2>3. /\ e >= 0 /\ at + e <= Len(text) /\ at + e + 1 = at + 1
        /\ \A k \in at + 1 .. at + e : text[k] \in 128 .. 191
    BY <1>2, <2>2
  <2>4. Char(f, at) <=> /\ e >= 0 /\ at + e <= Len(text)
                        /\ \A k \in at + 1 .. at + e : text[k] \in 128 .. 191
                        /\ Accepted(CodeAt(text, at), e)
                        /\ f[at + e + 1]
    BY Zenon DEF e
  <2>5. QED  BY <2>2, <2>3, <2>4, Zenon
<1> HIDE DEF Char
<1>4. F = Of(F)
  <2>1. ASSUME NEW at \in 1 .. Len(text) + 1 PROVE (at > Len(text) \/ Char(F, at)) = TRUE
    <3>1. CASE at > Len(text)
      BY <3>1
    <3>2. CASE at <= Len(text)
      <4>1. at \in 1 .. L /\ at + 1 \in 1 .. Len(text) + 1
        BY <1>2, <3>2
      <4>2. F[at + 1]
        BY <4>1
      <4>3. QED  BY <1>3, <4>1, <4>2, Zenon
    <3>3. at > Len(text) \/ at <= Len(text)
      BY <1>2
    <3>4. QED  BY <3>1, <3>2, <3>3, Zenon
  <2>2. QED  BY <2>1, Zenon
<1> HIDE DEF F
<1>5. from = Of(from)
  <2> HIDE DEF Of
  <2>1. QED  BY <1>4, Zenon
<1> HIDE DEF from
<1>6. ASSUME NEW at \in 1 .. L + 1 PROVE from[at] <=> at > L \/ from[at + 1]
  <2>1. from[at] = (at > Len(text) \/ Char(from, at))
    BY <1>5, Zenon
  <2>2. ~(at > L) => at \in 1 .. L
    BY <1>2
  <2>3. QED  BY <1>3, <2>1, <2>2, Zenon
<1> DEFINE S == {n \in Nat : n <= L /\ ~from[L + 1 - n]}
<1>7. S = {}
  <2> SUFFICES ASSUME S # {} PROVE FALSE
    OBVIOUS
  <2>1. PICK n \in S : \A m \in S : n <= m
    <3>1. S \in SUBSET Nat
      OBVIOUS
    <3> HIDE DEF S
    <3>2. QED  BY <3>1, LeastLength
  <2>2. n \in Nat /\ n <= L /\ ~from[L + 1 - n]
    BY <2>1
  <2>3. L + 1 - n \in 1 .. L + 1
    BY <1>2, <2>2
  <2>4. ~(L + 1 - n > L) /\ ~from[L + 1 - n + 1]
    BY <1>6, <2>2, <2>3, Zenon
  <2>5. n - 1 \in Nat /\ n - 1 <= L /\ L + 1 - n + 1 = L + 1 - (n - 1)
    BY <1>2, <2>2, <2>4
  <2>6. n - 1 \in S
    BY <2>4, <2>5
  <2>7. n <= n - 1
    BY <2>1, <2>6
  <2>8. QED  BY <2>2, <2>7
<1>8. from[1]
  <2>1. L \in Nat /\ L <= L /\ L + 1 - L = 1
    BY <1>2
  <2>2. L \notin S
    BY <1>7
  <2>3. QED  BY <2>1, <2>2
<1>9. QED  BY <1>1, <1>8

-----------------------------------------------------------------------------
(***************************************************************************)
(* The parts of a text.                                                    *)
(***************************************************************************)

\* A set of naturals that is not empty and has a bound has a greatest element.
LEMMA GreatestBelow ==
    ASSUME NEW m \in Nat, NEW S \in SUBSET (0 .. m), S # {}
    PROVE  \E n \in S : \A k \in S : k <= n
<1> DEFINE T == {k \in Nat : k <= m /\ m - k \in S}
<1>1. T # {} /\ T \in SUBSET Nat
  <2>1. PICK k \in S : TRUE
    OBVIOUS
  <2>2. m - k \in Nat /\ m - k <= m /\ m - (m - k) = k
    BY <2>1
  <2>3. m - k \in T
    BY <2>1, <2>2
  <2>4. QED  BY <2>3
<1>2. PICK t \in T : \A u \in T : t <= u
  <2> HIDE DEF T
  <2>1. QED  BY <1>1, LeastLength
<1>3. t \in Nat /\ t <= m /\ m - t \in S
  BY <1>2
<1>4. ASSUME NEW k \in S PROVE k <= m - t
  <2>1. k \in 0 .. m /\ m - (m - k) = k
    OBVIOUS
  <2>2. m - k \in T
    BY <2>1
  <2>3. t <= m - k
    BY <1>2, <2>2
  <2>4. QED  BY <1>3, <2>1, <2>3
<1>5. QED  BY <1>3, <1>4

\* Where the part that a position is in begins: after j.
LEMMA PartBegins ==
    ASSUME NEW text, NEW separator, NEW e \in Nat
    PROVE  \E j \in 0 .. e : /\ j = 0 \/ text[j] = separator
                             /\ \A k \in j + 1 .. e : text[k] # separator
<1> DEFINE S == {j \in 0 .. e : j = 0 \/ text[j] = separator}
<1>1. S \in SUBSET (0 .. e) /\ 0 \in S
  OBVIOUS
<1>2. PICK j \in S : \A k \in S : k <= j
  <2> HIDE DEF S
  <2>1. QED  BY <1>1, GreatestBelow
<1>3. j \in 0 .. e /\ (j = 0 \/ text[j] = separator)
  BY <1>2
<1>4. ASSUME NEW k \in j + 1 .. e PROVE text[k] # separator
  <2>1. k \in 0 .. e /\ ~(k <= j)
    BY <1>3
  <2>2. k \notin S
    BY <1>2, <2>1
  <2>3. QED  BY <2>1, <2>2
<1>5. QED  BY <1>3, <1>4

\* Where it ends: at l, if the text has n characters
EndsAt(text, separator, n, i, l) ==
    /\ l \in i .. n
    /\ l = n \/ text[l + 1] = separator
    /\ \A k \in i + 1 .. l : text[k] # separator

LEMMA PartEnds ==
    ASSUME NEW text, NEW separator, NEW n \in Nat, NEW i \in 1 .. n
    PROVE  \E l : EndsAt(text, separator, n, i, l)
<1> DEFINE S == {l \in i .. n : l = n \/ text[l + 1] = separator}
<1>1. S \in SUBSET Nat /\ n \in S
  OBVIOUS
<1>2. PICK l \in S : \A k \in S : l <= k
  <2> HIDE DEF S
  <2>1. QED  BY <1>1, LeastLength
<1>3. l \in i .. n /\ (l = n \/ text[l + 1] = separator)
  BY <1>2
<1>4. ASSUME NEW k \in i + 1 .. l PROVE text[k] # separator
  <2>1. k - 1 \in i .. n /\ ~(l <= k - 1) /\ k - 1 + 1 = k
    BY <1>3
  <2>2. k - 1 \notin S
    BY <1>2, <2>1
  <2>3. QED  BY <2>1, <2>2
<1>5. QED  BY <1>3, <1>4 DEF EndsAt

\* What is a part
LEMMA PartOfText ==
    ASSUME NEW C, NEW text \in Seq(C), NEW separator,
           NEW i \in 1 .. Len(text) + 1, NEW j \in 0 .. Len(text)
    PROVE  <<i, j>> \in Parts(text, separator) <=>
             /\ i <= j + 1
             /\ \A k \in i .. j : text[k] # separator
             /\ i = 1 \/ text[i - 1] = separator
             /\ j = Len(text) \/ text[j + 1] = separator
BY DEF Parts

LEMMA PartPositions ==
    ASSUME NEW C, NEW text \in Seq(C), NEW separator, NEW p \in Parts(text, separator)
    PROVE  /\ p[1] \in 1 .. Len(text) + 1 /\ p[2] \in 0 .. Len(text)
           /\ p[1] <= p[2] + 1
           /\ \A k \in p[1] .. p[2] : text[k] # separator
           /\ p[1] = 1 \/ text[p[1] - 1] = separator
           /\ p[2] = Len(text) \/ text[p[2] + 1] = separator
BY DEF Parts

\* The part around a character that separates nothing
LEMMA PartAround ==
    ASSUME NEW C, NEW text \in Seq(C), NEW separator, NEW i \in 1 .. Len(text),
           text[i] # separator
    PROVE  \E p \in Parts(text, separator) : p[1] <= i /\ i <= p[2]
<1>1. Len(text) \in Nat /\ i \in Nat
  BY LenProperties
<1>2. PICK j \in 0 .. i : (j = 0 \/ text[j] = separator) /\ \A k \in j + 1 .. i : text[k] # separator
  BY <1>1, PartBegins
<1>3. PICK l \in i .. Len(text) : /\ l = Len(text) \/ text[l + 1] = separator
                                  /\ \A k \in i + 1 .. l : text[k] # separator
  <2>1. \E l : EndsAt(text, separator, Len(text), i, l)
    BY <1>1, PartEnds, Zenon
  <2>2. QED  BY <2>1 DEF EndsAt
<1>4. j < i
  BY <1>2
<1>5. /\ j + 1 \in 1 .. Len(text) + 1 /\ l \in 0 .. Len(text) /\ j + 1 <= l + 1 /\ j + 1 <= i /\ i <= l
      /\ (j = 0 => j + 1 = 1) /\ j + 1 - 1 = j
  BY <1>1, <1>2, <1>3, <1>4
<1>6. \A k \in j + 1 .. l : text[k] # separator
  <2> TAKE k \in j + 1 .. l
  <2>1. k \in j + 1 .. i \/ k \in i + 1 .. l
    BY <1>1, <1>2, <1>3
  <2>2. QED  BY <1>2, <1>3, <2>1
<1>7. <<j + 1, l>> \in Parts(text, separator)
  <2>1. j + 1 = 1 \/ text[j + 1 - 1] = separator
    BY <1>2, <1>5
  <2>2. QED  BY <1>3, <1>5, <1>6, <2>1, PartOfText
<1>8. <<j + 1, l>>[1] = j + 1 /\ <<j + 1, l>>[2] = l
  OBVIOUS
<1>9. QED  BY <1>5, <1>7, <1>8

-----------------------------------------------------------------------------
(***************************************************************************)
(* Topics by their levels.                                                 *)
(***************************************************************************)

\* In a valid topic a level that has a wildcard is the wildcard.
LEMMA LevelOfValid ==
    ASSUME NEW C, NEW text \in Seq(C), NEW filter, TopicValid(text, filter),
           NEW p \in Parts(text, Slash), NEW k \in p[1] .. p[2], text[k] \in {Plus, Hash}
    PROVE  filter /\ p[1] = p[2] /\ (text[p[1]] = Plus \/ p[2] = Len(text))
<1> DEFINE i == p[1]
           j == p[2]
           n == Len(text)
<1>1. /\ i \in 1 .. n + 1 /\ j \in 0 .. n /\ \A m \in i .. j : text[m] # Slash
      /\ n \in Nat /\ k \in i .. j
  BY PartPositions, LenProperties
<1> HIDE DEF i, j, n
<1>2. k \in 1 .. n
  BY <1>1
<1>3. DOMAIN text = 1 .. n
  BY DEF n
<1>4. /\ text[k] = Hash => filter /\ HashPlaced(text, k)
      /\ text[k] = Plus => filter /\ PlusPlaced(text, k)
  BY <1>2, <1>3 DEF TopicValid
<1>5. k > 1 => text[k - 1] = Slash
  BY <1>4 DEF HashPlaced, PlusPlaced
<1>6. k = i
  <2> SUFFICES ASSUME k # i PROVE FALSE
    OBVIOUS
  <2>1. k > 1 /\ k - 1 \in i .. j
    BY <1>1
  <2>2. QED  BY <1>1, <1>5, <2>1
<1>7. filter
  BY <1>4
<1>8. CASE text[k] = Hash
  <2>1. k = n
    BY <1>4, <1>8 DEF HashPlaced, n
  <2>2. j = n /\ i = j
    BY <1>1, <1>6, <2>1
  <2>3. QED  BY <1>7, <2>2 DEF i, j, n
<1>9. CASE text[k] = Plus
  <2>1. k < n => text[k + 1] = Slash
    BY <1>4, <1>9 DEF PlusPlaced, n
  <2>2. k = j
    <3> SUFFICES ASSUME k # j PROVE FALSE
      OBVIOUS
    <3>1. k < n /\ k + 1 \in i .. j
      BY <1>1
    <3>2. QED  BY <1>1, <2>1, <3>1
  <2>3. QED  BY <1>6, <1>7, <1>9, <2>2 DEF i, j
<1>10. QED  BY <1>8, <1>9

\* A wildcard of a text that is right by its levels is placed as the code asks.
LEMMA WildcardOfLevels ==
    ASSUME NEW C, NEW text \in Seq(C), NEW filter, ByLevels(text, filter),
           NEW k \in 1 .. Len(text), text[k] \in {Plus, Hash}
    PROVE  /\ filter /\ (text[k] = Hash => HashPlaced(text, k))
           /\ text[k] = Plus => PlusPlaced(text, k)
<1>1. text[k] # Slash /\ Plus # Hash
  BY DEF Plus, Hash, Slash
<1>2. PICK p \in Parts(text, Slash) : p[1] <= k /\ k <= p[2]
  BY <1>1, PartAround
<1> DEFINE i == p[1]
           j == p[2]
           n == Len(text)
<1>3. /\ i \in 1 .. n + 1 /\ j \in 0 .. n /\ n \in Nat /\ k \in i .. j
      /\ i = 1 \/ text[i - 1] = Slash
      /\ j = n \/ text[j + 1] = Slash
  <2>1. /\ i \in 1 .. n + 1 /\ j \in 0 .. n /\ n \in Nat
        /\ i = 1 \/ text[i - 1] = Slash
        /\ j = n \/ text[j + 1] = Slash
    BY PartPositions, LenProperties
  <2> HIDE DEF n
  <2>2. k \in i .. j
    BY <1>2, <2>1
  <2>3. QED  BY <2>1, <2>2
<1>4. filter /\ i = j /\ (text[i] = Plus \/ j = n)
  BY <1>3 DEF ByLevels
<1> HIDE DEF i, j, n
<1>5. k = i /\ k = j
  BY <1>3, <1>4
<1>6. text[k] = Hash => HashPlaced(text, k)
  <2> SUFFICES ASSUME text[k] = Hash PROVE HashPlaced(text, k)
    OBVIOUS
  <2>1. k = n
    BY <1>1, <1>4, <1>5
  <2>2. k > 1 => text[k - 1] = Slash
    BY <1>3, <1>5
  <2>3. QED  BY <2>1, <2>2 DEF HashPlaced, n
<1>7. PlusPlaced(text, k)
  <2>1. k > 1 => text[k - 1] = Slash
    BY <1>3, <1>5
  <2>2. k < n => text[k + 1] = Slash
    BY <1>3, <1>5
  <2>3. QED  BY <2>1, <2>2 DEF PlusPlaced, n
<1>8. QED  BY <1>4, <1>6, <1>7

\* emqtt_topic_valid, which looks at the neighbours of a wildcard, accepts just the
\* topics and filters that are right by their levels (emqtt_contract.c:36-45), for any
\* printable ASCII text and any limit on its length.
THEOREM TopicsByLevels ==
    ASSUME NEW text \in Seq(32 .. 126), NEW filter \in BOOLEAN
    PROVE  TopicValid(text, filter) <=> ByLevels(text, filter)
<1>1. ASSUME TopicValid(text, filter) PROVE ByLevels(text, filter)
  <2>1. Len(text) \in 1 .. TopicMax
    BY <1>1 DEF TopicValid
  <2>2. ASSUME NEW p \in Parts(text, Slash),
               ~ \A k \in p[1] .. p[2] : text[k] \notin {Plus, Hash}
        PROVE  filter /\ p[1] = p[2] /\ (text[p[1]] = Plus \/ p[2] = Len(text))
    <3>1. PICK k \in p[1] .. p[2] : text[k] \in {Plus, Hash}
      BY <2>2, Zenon
    <3>2. QED  BY <1>1, <3>1, LevelOfValid, Zenon
  <2>3. QED  BY <2>1, <2>2, Zenon DEF ByLevels
<1>2. ASSUME ByLevels(text, filter) PROVE TopicValid(text, filter)
  <2>1. Len(text) \in 1 .. TopicMax
    BY <1>2 DEF ByLevels
  <2>2. DOMAIN text = 1 .. Len(text)
    OBVIOUS
  <2>3. ASSUME NEW k \in DOMAIN text
        PROVE  /\ text[k] = Hash => filter /\ HashPlaced(text, k)
               /\ text[k] = Plus => filter /\ PlusPlaced(text, k)
    <3>1. k \in 1 .. Len(text)
      BY <2>2
    <3>2. QED  BY <1>2, <3>1, WildcardOfLevels, Zenon
  <2>4. QED  BY <2>1, <2>3, AsciiUtf8 DEF TopicValid
<1>3. QED  BY <1>1, <1>2

-----------------------------------------------------------------------------
(***************************************************************************)
(* Host names by their labels.                                             *)
(***************************************************************************)

\* j is where the label that position k is in begins, minus one.
Before(host, j, k) ==
    /\ j \in 0 .. k
    /\ j = 0 \/ host[j] = Dot
    /\ \A m \in j + 1 .. k : host[m] # Dot

LEMMA BeforeUnique ==
    ASSUME NEW host, NEW k \in Nat, NEW i, NEW j, Before(host, i, k), Before(host, j, k)
    PROVE  i = j
<1>1. /\ i \in 0 .. k /\ j \in 0 .. k /\ (i = 0 \/ host[i] = Dot) /\ (j = 0 \/ host[j] = Dot)
      /\ \A m \in i + 1 .. k : host[m] # Dot
      /\ \A m \in j + 1 .. k : host[m] # Dot
  BY DEF Before
<1>2. ~(i < j)
  <2> SUFFICES ASSUME i < j PROVE FALSE
    OBVIOUS
  <2>1. j \in i + 1 .. k /\ j # 0
    BY <1>1
  <2>2. QED  BY <1>1, <2>1
<1>3. ~(j < i)
  <2> SUFFICES ASSUME j < i PROVE FALSE
    OBVIOUS
  <2>1. i \in j + 1 .. k /\ i # 0
    BY <1>1
  <2>2. QED  BY <1>1, <2>1
<1>4. QED  BY <1>1, <1>2, <1>3

LEMMA BeforeStep ==
    ASSUME NEW host, NEW k \in Nat, k > 0, NEW j
    PROVE  /\ host[k] = Dot => Before(host, k, k)
           /\ host[k] # Dot /\ Before(host, j, k - 1) => Before(host, j, k)
<1>1. ASSUME host[k] = Dot PROVE Before(host, k, k)
  BY <1>1 DEF Before
<1>2. ASSUME host[k] # Dot, Before(host, j, k - 1) PROVE Before(host, j, k)
  <2>1. /\ j \in 0 .. k - 1 /\ (j = 0 \/ host[j] = Dot)
        /\ \A m \in j + 1 .. k - 1 : host[m] # Dot
    BY <1>2 DEF Before
  <2>2. ASSUME NEW m \in j + 1 .. k PROVE host[m] # Dot
    <3>1. m \in j + 1 .. k - 1 \/ m = k
      BY <2>1
    <3>2. QED  BY <1>2, <2>1, <3>1
  <2>3. QED  BY <2>1, <2>2 DEF Before
<1>3. QED  BY <1>1, <1>2

\* How long the label is: the counter of the code tells how far its last dot is back.
LEMMA LabelLengthIs ==
    ASSUME NEW host, NEW i \in Nat, NEW j, Before(host, j, i)
    PROVE  LabelLength(host, i) = i - j
<1> DEFINE begin(k) == CHOOSE m : Before(host, m, k)
           Of(f) == [k \in 0 .. i |-> IF k = 0 \/ host[k] = Dot THEN 0 ELSE f[k - 1] + 1]
           F == [k \in 0 .. i |-> k - begin(k)]
           length == CHOOSE f : f = Of(f)
<1>1. LabelLength(host, i) = length[i]
  BY DEF LabelLength
<1>2. ASSUME NEW k \in Nat PROVE Before(host, begin(k), k)
  <2>1. \E m \in 0 .. k : (m = 0 \/ host[m] = Dot) /\ \A q \in m + 1 .. k : host[q] # Dot
    BY PartBegins
  <2>2. \E m : Before(host, m, k)
    BY <2>1 DEF Before
  <2>3. QED  BY <2>2, Zenon
<1> HIDE DEF begin
<1>3. ASSUME NEW k \in Nat PROVE begin(k) \in 0 .. k
  BY <1>2 DEF Before
<1>4. ASSUME NEW k \in Nat, k > 0
      PROVE  /\ host[k] = Dot => begin(k) = k
             /\ host[k] # Dot => begin(k) = begin(k - 1)
  <2>1. Before(host, begin(k), k)
    BY <1>2
  <2>2. k - 1 \in Nat
    BY <1>4
  <2>3. Before(host, begin(k - 1), k - 1)
    BY <1>2, <2>2
  <2>4. host[k] = Dot => Before(host, k, k)
    BY <1>4, BeforeStep
  <2>5. host[k] # Dot => Before(host, begin(k - 1), k)
    BY <1>4, <2>3, BeforeStep
  <2>6. QED  BY <2>1, <2>4, <2>5, BeforeUnique, Zenon
<1>5. F = Of(F)
  <2> SUFFICES ASSUME NEW k \in 0 .. i
               PROVE  F[k] = IF k = 0 \/ host[k] = Dot THEN 0 ELSE F[k - 1] + 1
    BY Zenon
  <2>1. F[k] = k - begin(k) /\ k \in Nat
    OBVIOUS
  <2>2. CASE k = 0
    <3>1. begin(0) \in 0 .. 0
      BY <1>3
    <3>2. QED  BY <2>1, <2>2, <3>1
  <2>3. CASE k > 0 /\ host[k] = Dot
    <3>1. begin(k) = k
      BY <1>4, <2>1, <2>3
    <3>2. QED  BY <2>1, <2>3, <3>1
  <2>4. CASE k > 0 /\ host[k] # Dot
    <3>1. begin(k) = begin(k - 1)
      BY <1>4, <2>1, <2>4
    <3>2. k - 1 \in 0 .. i /\ k - 1 \in Nat
      BY <2>1, <2>4
    <3>3. F[k - 1] = k - 1 - begin(k - 1) /\ begin(k - 1) \in Nat
      BY <1>3, <3>2
    <3>4. F[k] = F[k - 1] + 1
      BY <2>1, <3>1, <3>3
    <3>5. ~(k = 0 \/ host[k] = Dot)
      BY <2>4
    <3>6. QED  BY <3>4, <3>5, Zenon
  <2>5. QED  BY <2>1, <2>2, <2>3, <2>4
<1>6. F[i] = i - begin(i)
  OBVIOUS
<1> HIDE DEF F
<1>7. length = Of(length)
  <2> HIDE DEF Of
  <2>1. QED  BY <1>5, Zenon
<1> HIDE DEF length
<1>8. ASSUME NEW f, f = Of(f), NEW k \in 0 .. i
      PROVE  /\ k = 0 \/ host[k] = Dot => f[k] = 0
             /\ ~(k = 0 \/ host[k] = Dot) => f[k] = f[k - 1] + 1
  <2>1. f[k] = IF k = 0 \/ host[k] = Dot THEN 0 ELSE f[k - 1] + 1
    BY <1>8, Zenon
  <2>2. QED  BY <2>1, Zenon
<1> DEFINE S == {k \in Nat : k <= i /\ length[k] # F[k]}
<1>9. S = {}
  <2> SUFFICES ASSUME S # {} PROVE FALSE
    OBVIOUS
  <2>1. PICK k \in S : \A m \in S : k <= m
    <3>1. S \in SUBSET Nat
      OBVIOUS
    <3> HIDE DEF S
    <3>2. QED  BY <3>1, LeastLength
  <2>2. k \in Nat /\ k \in 0 .. i /\ length[k] # F[k]
    BY <2>1
  <2>3. CASE k = 0 \/ host[k] = Dot
    BY <1>5, <1>7, <1>8, <2>2, <2>3, Zenon
  <2>4. CASE ~(k = 0 \/ host[k] = Dot)
    <3>1. k - 1 \in Nat /\ k - 1 <= i /\ ~(k <= k - 1)
      BY <2>2, <2>4
    <3>2. length[k - 1] = F[k - 1]
      BY <2>1, <3>1
    <3>3. length[k] = length[k - 1] + 1
      BY <1>7, <1>8, <2>2, <2>4, Zenon
    <3>4. F[k] = F[k - 1] + 1
      BY <1>5, <1>8, <2>2, <2>4, Zenon
    <3>5. QED  BY <2>2, <3>2, <3>3, <3>4
  <2>5. QED  BY <2>3, <2>4
<1>10. length[i] = F[i]
  BY <1>9
<1>11. begin(i) = j
  BY <1>2, BeforeUnique, Zenon
<1>12. QED  BY <1>1, <1>6, <1>10, <1>11

HostChars == Alphanumeric \cup {Dash, Dot}

\* A label of a valid host name is not empty, not too long, and has no dash at its ends.
LEMMA LabelOfValid ==
    ASSUME NEW text \in Seq(HostChars), HostValid(text), NEW p \in Parts(text, Dot)
    PROVE  p[2] - p[1] + 1 \in 1 .. LabelMax /\ Dash \notin {text[p[1]], text[p[2]]}
<1> DEFINE i == p[1]
           j == p[2]
           n == Len(text)
<1>1. /\ i \in 1 .. n + 1 /\ j \in 0 .. n /\ i <= j + 1 /\ n \in Nat
      /\ \A k \in i .. j : text[k] # Dot
      /\ i = 1 \/ text[i - 1] = Dot
      /\ j = n \/ text[j + 1] = Dot
  BY PartPositions, LenProperties
<1>2. n >= 1 /\ DOMAIN text = 1 .. n
  BY DEF HostValid
<1>3. ASSUME NEW k \in 1 .. n
      PROVE  /\ text[k] = Dot => DotPlaced(text, k)
             /\ text[k] # Dot => CharacterPlaced(text, k)
  BY <1>2, <1>3 DEF HostValid
<1>4. ASSUME NEW k \in i - 1 .. j PROVE LabelLength(text, k) = k - (i - 1)
  <2> HIDE DEF i, j, n
  <2>1. Before(text, i - 1, k) /\ k \in Nat
    <3>1. i - 1 \in 0 .. k /\ k \in Nat
      BY <1>1
    <3>2. i - 1 = 0 \/ text[i - 1] = Dot
      BY <1>1
    <3>3. \A m \in i - 1 + 1 .. k : text[m] # Dot
      BY <1>1
    <3>4. QED  BY <3>1, <3>2, <3>3 DEF Before
  <2>2. QED  BY <2>1, LabelLengthIs
<1>5. n = Len(text)
  OBVIOUS
<1> HIDE DEF i, j, n
<1>6. i - 1 \in i - 1 .. j /\ i - 1 - (i - 1) = 0
  BY <1>1
<1>7. LabelLength(text, i - 1) = 0
  BY <1>4, <1>6
<1>8. i <= j
  <2> SUFFICES ASSUME i = j + 1 PROVE FALSE
    BY <1>1
  <2>1. CASE j = n
    <3>1. n \in 1 .. n /\ text[n] = Dot
      BY <1>1, <1>2, <2>1
    <3>2. DotPlaced(text, n)
      BY <1>3, <3>1
    <3>3. QED  BY <1>5, <3>2 DEF DotPlaced
  <2>2. CASE j # n
    <3>1. i \in 1 .. n /\ text[i] = Dot
      BY <1>1, <2>2
    <3>2. DotPlaced(text, i)
      BY <1>3, <3>1
    <3>3. LabelLength(text, i - 1) > 0
      BY <3>2 DEF DotPlaced
    <3>4. QED  BY <1>7, <3>3
  <2>3. QED  BY <2>1, <2>2
<1>9. i \in 1 .. n /\ j \in 1 .. n /\ text[i] # Dot /\ text[j] # Dot
  BY <1>1, <1>8
<1>10. CharacterPlaced(text, i) /\ CharacterPlaced(text, j)
  BY <1>3, <1>9
<1>11. j - i + 1 \in 1 .. LabelMax
  <2>1. j \in i - 1 .. j
    BY <1>1, <1>8
  <2>2. LabelLength(text, j) = j - (i - 1)
    BY <1>4, <2>1
  <2>3. LabelLength(text, j) <= LabelMax
    BY <1>10 DEF CharacterPlaced
  <2>4. LabelMax \in Nat
    BY LimitsAssumption
  <2>5. QED  BY <1>1, <1>8, <2>2, <2>3, <2>4
<1>12. text[i] # Dash
  <2> SUFFICES ASSUME text[i] = Dash PROVE FALSE
    OBVIOUS
  <2>1. text[i] \notin Alphanumeric
    BY DEF Dash, Alphanumeric
  <2>2. LabelLength(text, i - 1) > 0
    BY <1>10, <2>1 DEF CharacterPlaced
  <2>3. QED  BY <1>7, <2>2
<1>13. text[j] # Dash
  <2>1. CASE j = n
    BY <1>5, <1>10, <2>1 DEF CharacterPlaced
  <2>2. CASE j # n
    <3> DEFINE m == j + 1
    <3>1. m \in 1 .. n /\ text[m] = Dot /\ m - 1 = j
      BY <1>1, <2>2
    <3> HIDE DEF m
    <3>2. DotPlaced(text, m)
      BY <1>3, <3>1
    <3>3. text[m - 1] # Dash
      BY <3>2 DEF DotPlaced
    <3>4. QED  BY <3>1, <3>3
  <2>3. QED  BY <2>1, <2>2
<1>14. QED  BY <1>11, <1>12, <1>13 DEF i, j

\* A character of a host name that is right by its labels is placed as the code asks.
LEMMA CharacterOfLabels ==
    ASSUME NEW text \in Seq(HostChars), ByLabels(text), NEW k \in 1 .. Len(text)
    PROVE  IF text[k] = Dot THEN DotPlaced(text, k) ELSE CharacterPlaced(text, k)
<1> DEFINE n == Len(text)
<1>1. n \in Nat /\ n = Len(text) /\ k \in 1 .. n
  BY LenProperties
<1>2. ASSUME NEW p \in Parts(text, Dot)
      PROVE  p[2] - p[1] + 1 \in 1 .. LabelMax /\ text[p[1]] # Dash /\ text[p[2]] # Dash
  BY <1>2 DEF ByLabels
<1>3. LabelMax \in Nat
  BY LimitsAssumption
<1>4. CASE text[k] = Dot
  <2>1. k - 1 \in Nat
    BY <1>1
  <2>2. PICK j \in 0 .. k - 1 : (j = 0 \/ text[j] = Dot) /\ \A m \in j + 1 .. k - 1 : text[m] # Dot
    BY <2>1, PartBegins, Zenon
  <2>3. LabelLength(text, k - 1) = k - 1 - j
    <3>1. Before(text, j, k - 1)
      BY <2>2 DEF Before
    <3>2. QED  BY <2>1, <3>1, LabelLengthIs
  <2>4. j + 1 \in 1 .. n + 1 /\ k - 1 \in 0 .. n /\ j + 1 <= k - 1 + 1 /\ j + 1 - 1 = j /\ k - 1 + 1 = k
    BY <1>1, <2>2
  <2>5. <<j + 1, k - 1>> \in Parts(text, Dot)
    <3>1. j + 1 = 1 \/ text[j + 1 - 1] = Dot
      BY <2>2, <2>4
    <3>2. text[k - 1 + 1] = Dot
      BY <1>4, <2>4
    <3>3. QED  BY <2>2, <2>4, <3>1, <3>2, PartOfText
  <2>6. k - 1 - (j + 1) + 1 >= 1 /\ text[k - 1] # Dash
    <3>1. <<j + 1, k - 1>>[1] = j + 1 /\ <<j + 1, k - 1>>[2] = k - 1
      OBVIOUS
    <3>2. k - 1 - (j + 1) + 1 \in 1 .. LabelMax /\ text[k - 1] # Dash
      BY <1>2, <2>5, <3>1
    <3>3. QED  BY <1>3, <3>2
  <2>7. LabelLength(text, k - 1) > 0
    BY <1>1, <2>2, <2>3, <2>6
  <2>8. k # Len(text)
    <3> SUFFICES ASSUME k = n PROVE FALSE
      BY <1>1
    <3> HIDE DEF n
    <3>1. n + 1 \in 1 .. n + 1 /\ n \in 0 .. n /\ n + 1 <= n + 1 /\ n + 1 - 1 = n
      BY <1>1
    <3>2. \A m \in n + 1 .. n : text[m] # Dot
      BY <1>1
    <3>3. text[n + 1 - 1] = Dot
      BY <1>4, <3>1
    <3>4. <<n + 1, n>> \in Parts(text, Dot)
      BY <1>1, <3>1, <3>2, <3>3, PartOfText
    <3>5. <<n + 1, n>>[1] = n + 1 /\ <<n + 1, n>>[2] = n
      OBVIOUS
    <3>6. n - (n + 1) + 1 \in 1 .. LabelMax
      BY <1>2, <3>4, <3>5
    <3>7. QED  BY <1>1, <1>3, <3>6
  <2>9. QED  BY <1>4, <2>6, <2>7, <2>8 DEF DotPlaced
<1>5. CASE text[k] # Dot
  <2>1. PICK p \in Parts(text, Dot) : p[1] <= k /\ k <= p[2]
    BY <1>5, PartAround
  <2> DEFINE i == p[1]
             j == p[2]
  <2>2. /\ i \in 1 .. n + 1 /\ j \in 0 .. n /\ \A m \in i .. j : text[m] # Dot
        /\ i = 1 \/ text[i - 1] = Dot
    BY PartPositions
  <2>3. j - i + 1 \in 1 .. LabelMax /\ text[i] # Dash /\ text[j] # Dash /\ i <= k /\ k <= j
    BY <1>2, <2>1
  <2> HIDE DEF i, j, n
  <2>4. ASSUME NEW m \in i - 1 .. j PROVE LabelLength(text, m) = m - (i - 1)
    <3>1. i - 1 \in 0 .. m /\ m \in Nat /\ (i - 1 = 0 \/ text[i - 1] = Dot)
      BY <1>1, <2>2
    <3>2. \A q \in i - 1 + 1 .. m : text[q] # Dot
      BY <1>1, <2>2
    <3>3. Before(text, i - 1, m)
      BY <3>1, <3>2 DEF Before
    <3>4. QED  BY <3>1, <3>3, LabelLengthIs
  <2>5. k \in i - 1 .. j /\ k - 1 \in i - 1 .. j
    BY <1>1, <2>2, <2>3
  <2>6. LabelLength(text, k) = k - (i - 1) /\ LabelLength(text, k - 1) = k - 1 - (i - 1)
    BY <2>4, <2>5
  <2>7. LabelLength(text, k) <= LabelMax
    BY <1>1, <1>3, <2>2, <2>3, <2>6
  <2>8. text[k] \in Alphanumeric \/ (text[k] = Dash /\ LabelLength(text, k - 1) > 0)
    <3>1. text[k] \in HostChars
      BY ElementOfSeq
    <3>2. ASSUME text[k] = Dash PROVE LabelLength(text, k - 1) > 0
      <4>1. i # k
        BY <2>3, <3>2
      <4>2. QED  BY <1>1, <2>2, <2>3, <2>6, <4>1
    <3>3. QED  BY <1>5, <3>1, <3>2 DEF HostChars
  <2>9. ~(k = Len(text) /\ text[k] = Dash)
    <3> SUFFICES ASSUME k = n, text[k] = Dash PROVE FALSE
      BY <1>1
    <3>1. k = j
      BY <1>1, <2>2, <2>3
    <3>2. QED  BY <2>3, <3>1
  <2>10. QED  BY <1>5, <2>7, <2>8, <2>9 DEF CharacterPlaced
<1>6. QED  BY <1>4, <1>5

\* emqtt_config_valid, which counts the characters since the last dot, accepts just the
\* host names whose labels are right (emqtt_contract.c:52-65), for any text of the
\* characters that host names have and any limits on the name and its labels.
THEOREM HostsByLabels ==
    ASSUME NEW text \in Seq(HostChars)
    PROVE  HostValid(text) <=> ByLabels(text)
<1>1. ASSUME HostValid(text) PROVE ByLabels(text)
  <2>1. Len(text) \in 1 .. HostSize - 1
    BY <1>1 DEF HostValid
  <2>2. QED  BY <1>1, <2>1, LabelOfValid, Zenon DEF ByLabels
<1>2. ASSUME ByLabels(text) PROVE HostValid(text)
  <2>1. Len(text) \in 1 .. HostSize - 1
    BY <1>2 DEF ByLabels
  <2>2. DOMAIN text = 1 .. Len(text)
    OBVIOUS
  <2>3. QED  BY <1>2, <2>1, <2>2, CharacterOfLabels, Zenon DEF HostValid
<1>3. QED  BY <1>1, <1>2

\* The texts over an alphabet are sequences of it.
LEMMA BoundedTexts ==
    ASSUME NEW S, NEW C, S \subseteq C, NEW n \in Nat, NEW text \in BoundedSeq(S, n)
    PROVE  text \in Seq(C)
<1>1. PICK m \in 0 .. n : text \in [1 .. m -> S]
  BY DEF BoundedSeq, SeqOf
<1>2. m \in Nat /\ text \in [1 .. m -> C]
  BY <1>1
<1>3. QED  BY <1>2, SeqDef

\* Topics and host names are accepted by their parts, not by the characters that
\* happen to stand next to each other (emqtt_contract.c:36-65), whatever the limits.
THEOREM NamesAlwaysByParts == Spec => []NamesByParts
<1>1. TopicByLevels
  <2>1. {Slash, Plus, Hash, 97} \subseteq 32 .. 126
    BY DEF Slash, Plus, Hash
  <2>2. TopicMax + 1 \in Nat
    BY LimitsAssumption
  <2>3. \A text \in TopicTexts : text \in Seq(32 .. 126)
    BY <2>1, <2>2, BoundedTexts, Zenon DEF TopicTexts
  <2>4. QED  BY <2>3, TopicsByLevels, Zenon DEF TopicByLevels
<1>2. HostByLabels
  <2>1. {Dash, Dot, 97} \subseteq HostChars
    BY DEF HostChars, Alphanumeric
  <2>2. HostSize \in Nat
    BY LimitsAssumption
  <2>3. \A text \in HostTexts : text \in Seq(HostChars)
    BY <2>1, <2>2, BoundedTexts, Zenon DEF HostTexts
  <2>4. QED  BY <2>3, HostsByLabels, Zenon DEF HostByLabels
<1>3. NamesByParts
  BY <1>1, <1>2 DEF NamesByParts
<1>4. QED  BY <1>3, PTL

-----------------------------------------------------------------------------
(***************************************************************************)
(* Texts as chains of encodings.  E holds <<at, k>> where an encoding of   *)
(* k bytes begins at position at of a text of n bytes.                     *)
(***************************************************************************)

\* f tells of every position whether the rest of the text can be cut.
Chain(f, E, n) ==
    f = [at \in 1 .. n + 1 |-> at > n \/ \E k \in 1 .. 4 : <<at, k>> \in E /\ f[at + k]]

Closed(T, E, n) ==
    /\ n + 1 \in T
    /\ \A at \in 1 .. n, k \in 1 .. 4 : <<at, k>> \in E /\ at + k \in T => at \in T

\* There is one: the least set of positions that has the end and is closed.
LEMMA ChainExists ==
    ASSUME NEW n \in Nat, NEW E,
           \A at \in 1 .. n, k \in 1 .. 4 : <<at, k>> \in E => at + k <= n + 1
    PROVE  \E f : Chain(f, E, n)
<1> DEFINE P == 1 .. n + 1
           R == {at \in P : \A T \in SUBSET P : Closed(T, E, n) => at \in T}
           Q == {at \in P : at > n \/ \E k \in 1 .. 4 : <<at, k>> \in E /\ at + k \in R}
           f == [at \in 1 .. n + 1 |-> at \in R]
<1>1. n + 1 \in P /\ \A at \in P : at > n => at = n + 1
  OBVIOUS
<1>2. \A at \in 1 .. n : at \in P /\ ~(at > n)
  OBVIOUS
<1>3. \A at \in P : at > n \/ at \in 1 .. n
  OBVIOUS
<1>4. Q \subseteq R
  <2> SUFFICES ASSUME NEW at \in Q, NEW T \in SUBSET P, Closed(T, E, n) PROVE at \in T
    BY Zenon
  <2>1. CASE at > n
    BY <1>1, <2>1, Zenon DEF Closed
  <2>2. CASE ~(at > n)
    <3>1. PICK k \in 1 .. 4 : <<at, k>> \in E /\ at + k \in R
      BY <2>2, Zenon
    <3>2. at \in 1 .. n
      BY <1>3, <2>2, Zenon
    <3>3. at + k \in T
      BY <3>1, Zenon
    <3>4. QED  BY <3>1, <3>2, <3>3, Zenon DEF Closed
  <2>3. QED  BY <2>1, <2>2, Zenon
<1>5. R \subseteq Q
  <2>1. Q \in SUBSET P
    OBVIOUS
  <2>2. Closed(Q, E, n)
    <3>1. n + 1 \in Q
      BY <1>1
    <3>2. ASSUME NEW at \in 1 .. n, NEW k \in 1 .. 4, <<at, k>> \in E, at + k \in Q PROVE at \in Q
      BY <1>2, <1>4, <3>2, Zenon
    <3> HIDE DEF Q
    <3>3. QED  BY <3>1, <3>2, Zenon DEF Closed
  <2>3. QED  BY <2>1, <2>2, Zenon
<1>6. ASSUME NEW at \in 1 .. n + 1
      PROVE  (at \in R) = (at > n \/ \E k \in 1 .. 4 : <<at, k>> \in E /\ f[at + k])
  <2>1. at \in R <=> at > n \/ \E k \in 1 .. 4 : <<at, k>> \in E /\ at + k \in R
    BY <1>4, <1>5, Zenon
  <2>2. ASSUME NEW k \in 1 .. 4, ~(at > n), <<at, k>> \in E PROVE f[at + k] <=> at + k \in R
    <3>1. at \in 1 .. n
      BY <1>3, <2>2, Zenon
    <3>2. at + k <= n + 1
      BY <2>2, <3>1, Zenon
    <3>3. at + k \in 1 .. n + 1
      BY <3>1, <3>2
    <3> HIDE DEF R
    <3>4. QED  BY <3>3, Zenon
  <2> HIDE DEF R, f
  <2>3. at \in R <=> (at > n \/ \E k \in 1 .. 4 : <<at, k>> \in E /\ f[at + k])
    BY <2>1, <2>2, Zenon
  <2> DEFINE A == at \in R
             B == at > n \/ \E k \in 1 .. 4 : <<at, k>> \in E /\ f[at + k]
  <2>4. A <=> B
    BY <2>3, Zenon
  <2>5. A = B
    <3>1. CASE A
      <4>1. A = TRUE
        BY <3>1
      <4>2. B = TRUE
        BY <2>4, <3>1
      <4>3. QED  BY <4>1, <4>2, Zenon
    <3>2. CASE ~A
      <4>1. A = FALSE
        BY <3>2
      <4>2. B = FALSE
        BY <2>4, <3>2
      <4>3. QED  BY <4>1, <4>2, Zenon
    <3>3. QED  BY <3>1, <3>2, Zenon
  <2>6. QED  BY <2>5 DEF A, B
<1>7. f = [at \in 1 .. n + 1 |-> at > n \/ \E k \in 1 .. 4 : <<at, k>> \in E /\ f[at + k]]
  <2> HIDE DEF R
  <2>1. QED  BY <1>6, Zenon
<1> HIDE DEF f
<1>8. QED  BY <1>7, Zenon DEF Chain

\* There is only one.
LEMMA ChainUnique ==
    ASSUME NEW n \in Nat, NEW E, NEW f, NEW g, Chain(f, E, n), Chain(g, E, n),
           \A at \in 1 .. n, k \in 1 .. 4 : <<at, k>> \in E => at + k <= n + 1
    PROVE  f[1] <=> g[1]
<1>1. ASSUME NEW h, Chain(h, E, n), NEW at \in 1 .. n + 1
      PROVE  h[at] <=> at > n \/ \E k \in 1 .. 4 : <<at, k>> \in E /\ h[at + k]
  BY <1>1, Zenon DEF Chain
<1> DEFINE S == {m \in Nat : m <= n /\ ~(f[n + 1 - m] <=> g[n + 1 - m])}
<1>2. S = {}
  <2> SUFFICES ASSUME S # {} PROVE FALSE
    OBVIOUS
  <2>1. PICK m \in S : \A q \in S : m <= q
    <3>1. S \in SUBSET Nat
      OBVIOUS
    <3> HIDE DEF S
    <3>2. QED  BY <3>1, LeastLength
  <2> DEFINE at == n + 1 - m
  <2>2. m \in Nat /\ m <= n /\ ~(f[at] <=> g[at])
    BY <2>1
  <2>3. at \in 1 .. n + 1
    BY <2>2
  <2>4. ASSUME NEW k \in 1 .. 4, ~(at > n), <<at, k>> \in E PROVE f[at + k] <=> g[at + k]
    <3>1. at \in 1 .. n
      BY <2>3, <2>4
    <3> HIDE DEF at
    <3>2. at + k <= n + 1
      BY <2>4, <3>1, Zenon
    <3> USE DEF at
    <3>3. m - k \in Nat /\ m - k <= n /\ ~(m <= m - k) /\ n + 1 - (m - k) = at + k
      BY <2>2, <3>2
    <3>4. m - k \notin S
      BY <2>1, <3>3, Zenon
    <3> HIDE DEF at
    <3>5. QED  BY <3>3, <3>4
  <2> HIDE DEF at
  <2>5. QED  BY <1>1, <2>2, <2>3, <2>4, Zenon
<1>3. n \in Nat /\ n <= n /\ n + 1 - n = 1
  OBVIOUS
<1>4. n \notin S
  BY <1>2, Zenon
<1>5. f[n + 1 - n] <=> g[n + 1 - n]
  BY <1>3, <1>4, Zenon
<1>6. QED  BY <1>3, <1>5, Zenon

-----------------------------------------------------------------------------
(***************************************************************************)
(* Encodings of one to four bytes.                                         *)
(***************************************************************************)

\* The values of the recursion in CodeOf
CodesOf(bytes, n, c1, c2, c3, c4) ==
    /\ n \in 1 .. 4 /\ Len(bytes) = n
    /\ c1 = bytes[1] % <<256, 32, 16, 8>>[n]
    /\ c2 = c1 * 64 + (bytes[2] % 64)
    /\ c3 = c2 * 64 + (bytes[3] % 64)
    /\ c4 = c3 * 64 + (bytes[4] % 64)

LEMMA CodeOfIs ==
    ASSUME NEW bytes, NEW n, NEW c1, NEW c2, NEW c3, NEW c4, CodesOf(bytes, n, c1, c2, c3, c4)
    PROVE  /\ n = 1 => CodeOf(bytes) = c1
           /\ n = 2 => CodeOf(bytes) = c2
           /\ n = 3 => CodeOf(bytes) = c3
           /\ n = 4 => CodeOf(bytes) = c4
<1> DEFINE Of(f) == [k \in 1 .. n |-> IF k = 1 THEN bytes[1] % <<256, 32, 16, 8>>[n]
                                      ELSE f[k - 1] * 64 + (bytes[k] % 64)]
           F == [k \in 1 .. n |-> IF k = 1 THEN c1 ELSE IF k = 2 THEN c2 ELSE IF k = 3 THEN c3 ELSE c4]
           code == CHOOSE f : f = Of(f)
<1> USE DEF CodesOf
<1>1. CodeOf(bytes) = code[n]
  BY DEF CodeOf
<1>2. F = Of(F)
  <2> SUFFICES ASSUME NEW k \in 1 .. n
               PROVE  F[k] = IF k = 1 THEN bytes[1] % <<256, 32, 16, 8>>[n]
                                      ELSE F[k - 1] * 64 + (bytes[k] % 64)
    BY SMTT(40)
  <2>1. \A j \in 1 .. n : F[j] = IF j = 1 THEN c1 ELSE IF j = 2 THEN c2 ELSE IF j = 3 THEN c3 ELSE c4
    BY Zenon
  <2>2. k = 1 \/ k = 2 \/ k = 3 \/ k = 4
    OBVIOUS
  <2> HIDE DEF F
  <2>3. CASE k = 1
    BY <2>1, <2>3
  <2>4. CASE k = 2
    BY <2>1, <2>4
  <2>5. CASE k = 3
    BY <2>1, <2>5
  <2>6. CASE k = 4
    BY <2>1, <2>6, SMTT(40)
  <2>7. QED  BY <2>2, <2>3, <2>4, <2>5, <2>6
<1> HIDE DEF F
<1>3. code = Of(code)
  <2> HIDE DEF Of
  <2>1. QED  BY <1>2, Zenon
<1> HIDE DEF code
<1>4. code[1] = c1
  BY <1>3
<1>5. 2 <= n => code[2] = c2
  BY <1>3, <1>4
<1>6. 3 <= n => code[3] = c3
  BY <1>3, <1>5
<1>7. 4 <= n => code[4] = c4
  BY <1>3, <1>6
<1>8. QED  BY <1>1, <1>4, <1>5, <1>6, <1>7

LEMMA Units ==
    ASSUME NEW c \in Nat
    PROVE  /\ c \div 1 = c /\ c \div 4096 = (c \div 64) \div 64
           /\ c \div 262144 = ((c \div 64) \div 64) \div 64
  BY SMTT(20)

\* The encoding of a code point given by its digits to the base 64
LEMMA Utf8One ==
    ASSUME NEW c \in Nat, c < 128
    PROVE  Utf8Of(c) = <<c>>
  BY SMTT(20) DEF Utf8Of

LEMMA Utf8Two ==
    ASSUME NEW x \in Nat, NEW y \in 0 .. 63, x >= 2, x < 32
    PROVE  Utf8Of(x * 64 + y) = <<192 + x, 128 + y>>
<1> DEFINE c == x * 64 + y
           d == c \div 64
           q == c \div 1
<1>1. c \in Nat /\ ~(c < 128) /\ c < 2048 /\ d = x /\ q % 64 = y
  BY SMTT(20)
<1>2. Utf8Of(c) = IF c < 128 THEN <<c>>
                  ELSE IF c < 2048 THEN <<192 + d, 128 + (q % 64)>>
                  ELSE IF c < 65536 THEN <<224 + c \div 4096, 128 + (d % 64), 128 + (q % 64)>>
                  ELSE <<240 + c \div 262144, 128 + ((c \div 4096) % 64), 128 + (d % 64), 128 + (q % 64)>>
  BY SMTT(20) DEF Utf8Of
<1> HIDE DEF c, d, q
<1>3. Utf8Of(c) = <<192 + d, 128 + (q % 64)>>
  BY <1>1, <1>2, SMTT(20)
<1>4. Utf8Of(c) = <<192 + x, 128 + y>>
  BY <1>1, <1>3, SMTT(20)
<1>5. QED  BY <1>4, Zenon DEF c

DigitsThree(x, y, z) == x \in Nat /\ x < 16 /\ y \in 0 .. 63 /\ z \in 0 .. 63 /\ x * 64 + y >= 32

LEMMA Utf8Three ==
    ASSUME NEW x, NEW y, NEW z, DigitsThree(x, y, z)
    PROVE  Utf8Of((x * 64 + y) * 64 + z) = <<224 + x, 128 + y, 128 + z>>
<1> DEFINE c == (x * 64 + y) * 64 + z
           d == c \div 64
           e == c \div 4096
           q == c \div 1
<1>1. c \in Nat /\ ~(c < 128) /\ ~(c < 2048) /\ c < 65536 /\ d % 64 = y /\ e = x /\ q % 64 = z
  BY SMTT(20) DEF DigitsThree
<1>2. Utf8Of(c) = IF c < 128 THEN <<c>>
                  ELSE IF c < 2048 THEN <<192 + d, 128 + (q % 64)>>
                  ELSE IF c < 65536 THEN <<224 + e, 128 + (d % 64), 128 + (q % 64)>>
                  ELSE <<240 + c \div 262144, 128 + (e % 64), 128 + (d % 64), 128 + (q % 64)>>
  BY SMTT(20) DEF Utf8Of
<1> HIDE DEF c, d, e, q
<1>3. Utf8Of(c) = <<224 + e, 128 + (d % 64), 128 + (q % 64)>>
  BY <1>1, <1>2, SMTT(20)
<1>4. Utf8Of(c) = <<224 + x, 128 + y, 128 + z>>
  BY <1>1, <1>3, SMTT(20)
<1>5. QED  BY <1>4, Zenon DEF c

DigitsFour(x, y, z, w) ==
    x \in Nat /\ y \in 0 .. 63 /\ z \in 0 .. 63 /\ w \in 0 .. 63 /\ x * 64 + y >= 16

LEMMA Utf8Four ==
    ASSUME NEW x, NEW y, NEW z, NEW w, DigitsFour(x, y, z, w)
    PROVE  Utf8Of(((x * 64 + y) * 64 + z) * 64 + w) = <<240 + x, 128 + y, 128 + z, 128 + w>>
<1> DEFINE c == ((x * 64 + y) * 64 + z) * 64 + w
           d == c \div 64
           e == c \div 4096
           g == c \div 262144
           q == c \div 1
<1>1. /\ c \in Nat /\ ~(c < 128) /\ ~(c < 2048) /\ ~(c < 65536)
      /\ d % 64 = z /\ e % 64 = y /\ g = x /\ q % 64 = w
  <2> DEFINE m == x * 64 + y
             h == m * 64 + z
  <2> USE DEF DigitsFour
  <2>1. m \in Nat /\ m >= 16 /\ m % 64 = y /\ m \div 64 = x
    BY SMTT(20)
  <2> HIDE DEF m
  <2>2. h \in Nat /\ h >= 1024 /\ h % 64 = z /\ h \div 64 = m
    BY <2>1, SMTT(20)
  <2> HIDE DEF h
  <2>3. c = h * 64 + w
    BY DEF h, m
  <2> HIDE DEF c, d, e, g, q
  <2>4. c \in Nat /\ c >= 65536 /\ c % 64 = w /\ c \div 64 = h
    BY <2>2, <2>3, SMTT(20)
  <2>5. c \div 1 = c /\ c \div 4096 = (c \div 64) \div 64 /\ c \div 262144 = ((c \div 64) \div 64) \div 64
    BY <2>4, Units, SMTT(20)
  <2>6. q = c /\ d = h /\ e = m /\ g = x
    BY <2>1, <2>2, <2>4, <2>5, SMTT(20) DEF d, e, g, q
  <2>7. QED  BY <2>1, <2>2, <2>4, <2>6, SMTT(20)
<1>2. Utf8Of(c) = IF c < 128 THEN <<c>>
                  ELSE IF c < 2048 THEN <<192 + d, 128 + (q % 64)>>
                  ELSE IF c < 65536 THEN <<224 + e, 128 + (d % 64), 128 + (q % 64)>>
                  ELSE <<240 + g, 128 + (e % 64), 128 + (d % 64), 128 + (q % 64)>>
  BY SMTT(20) DEF Utf8Of
<1> HIDE DEF c, d, e, g, q
<1>3. Utf8Of(c) = <<240 + g, 128 + (e % 64), 128 + (d % 64), 128 + (q % 64)>>
  BY <1>1, <1>2, SMTT(20)
<1>4. Utf8Of(c) = <<240 + x, 128 + y, 128 + z, 128 + w>>
  BY <1>1, <1>3, SMTT(20)
<1>5. QED  BY <1>4, Zenon DEF c

\* A shorter encoding is another one.
LEMMA Utf8Shorter ==
    ASSUME NEW c \in Nat
    PROVE  /\ ~(c < 128) => Len(Utf8Of(c)) # 1
           /\ c < 128 => Len(Utf8Of(c)) # 2
           /\ c < 2048 => Len(Utf8Of(c)) # 3
           /\ c < 65536 => Len(Utf8Of(c)) # 4
<1> DEFINE d == c \div 64
           e == c \div 4096
           g == c \div 262144
           q == 128 + ((c \div 1) % 64)
           r == 128 + (d % 64)
           s == 128 + (e % 64)
<1>1. Utf8Of(c) = IF c < 128 THEN <<c>>
                  ELSE IF c < 2048 THEN <<192 + d, q>>
                  ELSE IF c < 65536 THEN <<224 + e, r, q>>
                  ELSE <<240 + g, s, r, q>>
  BY SMTT(20) DEF Utf8Of
<1> HIDE DEF d, e, g, q, r, s
<1>2. /\ Len(<<c>>) = 1 /\ Len(<<192 + d, q>>) = 2
      /\ Len(<<224 + e, r, q>>) = 3 /\ Len(<<240 + g, s, r, q>>) = 4
  OBVIOUS
<1> DEFINE u1 == <<c>>
           u2 == <<192 + d, q>>
           u3 == <<224 + e, r, q>>
           u4 == <<240 + g, s, r, q>>
<1>3. /\ Utf8Of(c) = IF c < 128 THEN u1 ELSE IF c < 2048 THEN u2 ELSE IF c < 65536 THEN u3 ELSE u4
      /\ Len(u1) = 1 /\ Len(u2) = 2 /\ Len(u3) = 3 /\ Len(u4) = 4
  BY <1>1, <1>2, SMTT(20)
<1> HIDE DEF u1, u2, u3, u4
<1>4. QED  BY <1>3, SMTT(20)

LEMMA EncodesOne ==
    ASSUME NEW a \in 0 .. 255
    PROVE  Encodes(<<a>>) <=> a < 128 /\ Accepted(a, 0)
<1> DEFINE s == <<a>>
<1>1. Len(s) = 1 /\ s[1] = a /\ a % 256 = a /\ <<256, 32, 16, 8>>[1] = 256
  OBVIOUS
<1>2. a \in Nat /\ (a < 128 \/ ~(a < 128))
  OBVIOUS
<1> HIDE DEF s
<1>3. CodeOf(s) = a
  <2> DEFINE c2 == a * 64 + (s[2] % 64)
             c3 == c2 * 64 + (s[3] % 64)
             c4 == c3 * 64 + (s[4] % 64)
  <2>1. a = s[1] % <<256, 32, 16, 8>>[1]
    BY <1>1
  <2>2. 1 \in 1 .. 4
    OBVIOUS
  <2>3. CodesOf(s, 1, a, c2, c3, c4)
    BY <1>1, <2>1, <2>2, Zenon DEF CodesOf
  <2> HIDE DEF c2, c3, c4
  <2>4. QED  BY <2>3, CodeOfIs, Zenon
<1>4. Encodes(s) <=> Utf8Of(a) = s /\ ~Refused(a)
  BY <1>3, Zenon DEF Encodes
<1>5. a < 128 => Utf8Of(a) = s
  BY <1>2, Utf8One, Zenon DEF s
<1>6. ~(a < 128) => Len(Utf8Of(a)) # 1
  BY <1>2, Utf8Shorter, SMTT(20)
<1>7. Encodes(s) <=> a < 128 /\ ~Refused(a)
  BY <1>1, <1>2, <1>4, <1>5, <1>6, Zenon
<1>8. Accepted(a, 0) <=> ~Refused(a)
  BY DEF Accepted, Minimum
<1>9. QED  BY <1>7, <1>8, Zenon DEF s

LEMMA EncodesTwo ==
    ASSUME NEW a \in 0 .. 255, NEW b \in 0 .. 255
    PROVE  Encodes(<<a, b>>) <=>
              a \in 194 .. 223 /\ b \in 128 .. 191 /\ Accepted((a % 32) * 64 + (b % 64), 1)
<1> DEFINE s == <<a, b>>
           x == a % 32
           y == b % 64
           c == x * 64 + y
           A == a \in 194 .. 223
           B == b \in 128 .. 191
<1>1. Len(s) = 2 /\ s[1] = a /\ s[2] = b /\ <<256, 32, 16, 8>>[2] = 32
  OBVIOUS
<1>2. /\ x \in Nat /\ x < 32 /\ y \in 0 .. 63
      /\ a = 192 + x /\ x >= 2 <=> A
      /\ b = 128 + y <=> B
  OBVIOUS
<1> HIDE DEF s
<1>3. CodeOf(s) = c
  <2> DEFINE c3 == c * 64 + (s[3] % 64)
             c4 == c3 * 64 + (s[4] % 64)
  <2>1. x = s[1] % <<256, 32, 16, 8>>[2] /\ c = x * 64 + (s[2] % 64)
    BY <1>1, Zenon
  <2>2. 2 \in 1 .. 4
    OBVIOUS
  <2>3. CodesOf(s, 2, x, c, c3, c4)
    BY <1>1, <2>1, <2>2, Zenon DEF CodesOf
  <2> HIDE DEF x, c, c3, c4
  <2>4. QED  BY <2>3, CodeOfIs, Zenon
<1> HIDE DEF x, y, A, B
<1>4. Encodes(s) <=> Utf8Of(c) = s /\ ~Refused(c)
  BY <1>3, Zenon DEF Encodes
<1>5. c \in Nat /\ (c < 128 <=> ~(x >= 2))
  BY <1>2
<1>6. c < 128 => Len(Utf8Of(c)) # 2
  <2> HIDE DEF c
  <2>1. QED  BY <1>5, Utf8Shorter, SMTT(20)
<1>7. x >= 2 => Utf8Of(c) = <<192 + x, 128 + y>>
  BY <1>2, Utf8Two, ZenonT(60)
<1>8. <<192 + x, 128 + y>> = <<a, b>> <=> a = 192 + x /\ b = 128 + y
  BY <1>2
<1> HIDE DEF c
<1>9. Utf8Of(c) = s <=> A /\ B
  <2>1. CASE x >= 2
    BY <1>2, <1>7, <1>8, <2>1, Zenon DEF s
  <2>2. CASE ~(x >= 2)
    BY <1>1, <1>2, <1>5, <1>6, <2>2, Zenon
  <2>3. QED  BY <2>1, <2>2, Zenon
<1>10. Encodes(s) <=> A /\ B /\ ~Refused(c)
  BY <1>4, <1>9, Zenon
<1>11. A => (Accepted(c, 1) <=> ~Refused(c))
  BY <1>2, <1>5 DEF Accepted, Minimum
<1>12. Encodes(s) <=> A /\ B /\ Accepted(c, 1)
  BY <1>10, <1>11, Zenon
<1>13. QED  BY <1>12, Zenon DEF s, c, x, y, A, B

LEMMA EncodesThree ==
    ASSUME NEW a \in 0 .. 255, NEW b \in 0 .. 255, NEW d \in 0 .. 255
    PROVE  Encodes(<<a, b, d>>) <=>
              /\ a \in 224 .. 239 /\ b \in 128 .. 191 /\ d \in 128 .. 191
              /\ Accepted(((a % 16) * 64 + (b % 64)) * 64 + (d % 64), 2)
<1> DEFINE s == <<a, b, d>>
           x == a % 16
           y == b % 64
           z == d % 64
           m == x * 64 + y
           c == m * 64 + z
           A == a \in 224 .. 239
           B == b \in 128 .. 191
           D == d \in 128 .. 191
<1>1. Len(s) = 3 /\ s[1] = a /\ s[2] = b /\ s[3] = d /\ <<256, 32, 16, 8>>[3] = 16
  OBVIOUS
<1>2. /\ x \in Nat /\ x < 16 /\ y \in 0 .. 63 /\ z \in 0 .. 63
      /\ a = 224 + x <=> A
      /\ b = 128 + y <=> B
      /\ d = 128 + z <=> D
  <2>1. x \in Nat /\ x < 16 /\ (a = 224 + x <=> A)
    OBVIOUS
  <2>2. y \in 0 .. 63 /\ (b = 128 + y <=> B)
    OBVIOUS
  <2>3. z \in 0 .. 63 /\ (d = 128 + z <=> D)
    OBVIOUS
  <2> HIDE DEF x, y, z, A, B, D
  <2>4. QED  BY <2>1, <2>2, <2>3, Zenon
<1> HIDE DEF s
<1>3. CodeOf(s) = c
  <2> DEFINE c4 == c * 64 + (s[4] % 64)
  <2>1. x = s[1] % <<256, 32, 16, 8>>[3] /\ m = x * 64 + (s[2] % 64) /\ c = m * 64 + (s[3] % 64)
    BY <1>1, Zenon
  <2>2. 3 \in 1 .. 4
    OBVIOUS
  <2>3. CodesOf(s, 3, x, m, c, c4)
    BY <1>1, <2>1, <2>2, Zenon DEF CodesOf
  <2> HIDE DEF x, m, c, c4
  <2>4. QED  BY <2>3, CodeOfIs, Zenon
<1> HIDE DEF x, y, z, A, B, D
<1>4. Encodes(s) <=> Utf8Of(c) = s /\ ~Refused(c)
  BY <1>3, Zenon DEF Encodes
<1>5. m \in Nat
  BY <1>2
<1>6. c \in Nat /\ (c >= 2048 <=> m >= 32) /\ (c < 2048 <=> ~(m >= 32))
  <2> HIDE DEF m
  <2>1. QED  BY <1>2, <1>5
<1>7. c < 2048 => Len(Utf8Of(c)) # 3
  <2> HIDE DEF c
  <2>1. QED  BY <1>6, Utf8Shorter, SMTT(20)
<1>8. m >= 32 => Utf8Of(c) = <<224 + x, 128 + y, 128 + z>>
  <2> SUFFICES ASSUME m >= 32 PROVE Utf8Of(c) = <<224 + x, 128 + y, 128 + z>>
    OBVIOUS
  <2>1. DigitsThree(x, y, z)
    BY <1>2, Zenon DEF DigitsThree
  <2>2. Utf8Of((x * 64 + y) * 64 + z) = <<224 + x, 128 + y, 128 + z>>
    BY <2>1, Utf8Three, ZenonT(60)
  <2>3. QED  BY <2>2, Zenon
<1>9. <<224 + x, 128 + y, 128 + z>> = <<a, b, d>> <=> a = 224 + x /\ b = 128 + y /\ d = 128 + z
  BY <1>2
<1> DEFINE Long == c >= 2048
<1>10. Long <=> m >= 32
  BY <1>6, SMTT(20)
<1>11. m >= 32 \/ c < 2048
  BY <1>6, SMTT(20)
<1> HIDE DEF c, m, Long
<1>12. Utf8Of(c) = s <=> A /\ B /\ D /\ Long
  <2>1. CASE m >= 32
    BY <1>2, <1>8, <1>9, <1>10, <2>1, Zenon DEF s
  <2>2. CASE ~(m >= 32)
    <3>1. Len(Utf8Of(c)) # 3
      BY <1>7, <1>11, <2>2, SMTT(20)
    <3>2. QED  BY <1>1, <1>10, <2>2, <3>1, Zenon
  <2>3. QED  BY <2>1, <2>2, Zenon
<1>13. Encodes(s) <=> A /\ B /\ D /\ Long /\ ~Refused(c)
  BY <1>4, <1>12, Zenon
<1>14. Accepted(c, 2) <=> Long /\ ~Refused(c)
  BY SMTT(20) DEF Accepted, Minimum, Long
<1>15. Encodes(s) <=> A /\ B /\ D /\ Accepted(c, 2)
  BY <1>13, <1>14, Zenon
<1>16. QED  BY <1>15, Zenon DEF s, c, m, x, y, z, A, B, D

LEMMA EncodesFour ==
    ASSUME NEW a \in 0 .. 255, NEW b \in 0 .. 255, NEW d \in 0 .. 255, NEW e \in 0 .. 255
    PROVE  Encodes(<<a, b, d, e>>) <=>
              /\ a \in 240 .. 244 /\ b \in 128 .. 191 /\ d \in 128 .. 191 /\ e \in 128 .. 191
              /\ Accepted((((a % 8) * 64 + (b % 64)) * 64 + (d % 64)) * 64 + (e % 64), 3)
<1> DEFINE s == <<a, b, d, e>>
           x == a % 8
           y == b % 64
           z == d % 64
           w == e % 64
           m == x * 64 + y
           h == m * 64 + z
           c == h * 64 + w
           A == a \in 240 .. 244
           B == b \in 128 .. 191
           D == d \in 128 .. 191
           E == e \in 128 .. 191
<1>1. Len(s) = 4 /\ s[1] = a /\ s[2] = b /\ s[3] = d /\ s[4] = e /\ <<256, 32, 16, 8>>[4] = 8
  OBVIOUS
<1>2. /\ x \in Nat /\ x < 8 /\ y \in 0 .. 63 /\ z \in 0 .. 63 /\ w \in 0 .. 63
      /\ a = 240 + x /\ x <= 4 <=> A
      /\ b = 128 + y <=> B
      /\ d = 128 + z <=> D
      /\ e = 128 + w <=> E
  <2>1. x \in Nat /\ x < 8 /\ (a = 240 + x /\ x <= 4 <=> A)
    OBVIOUS
  <2>2. y \in 0 .. 63 /\ (b = 128 + y <=> B)
    OBVIOUS
  <2>3. z \in 0 .. 63 /\ (d = 128 + z <=> D)
    OBVIOUS
  <2>4. w \in 0 .. 63 /\ (e = 128 + w <=> E)
    OBVIOUS
  <2> HIDE DEF x, y, z, w, A, B, D, E
  <2>5. QED  BY <2>1, <2>2, <2>3, <2>4, Zenon
<1> HIDE DEF s
<1>3. CodeOf(s) = c
  <2>1. /\ x = s[1] % <<256, 32, 16, 8>>[4] /\ m = x * 64 + (s[2] % 64)
        /\ h = m * 64 + (s[3] % 64) /\ c = h * 64 + (s[4] % 64)
    BY <1>1, Zenon
  <2>2. 4 \in 1 .. 4
    OBVIOUS
  <2> HIDE DEF x, m, h, c
  <2>3. CodesOf(s, 4, x, m, h, c)
    BY <1>1, <2>1, <2>2, Zenon DEF CodesOf
  <2>4. QED  BY <2>3, CodeOfIs, Zenon
<1> HIDE DEF x, y, z, w, A, B, D, E
<1>4. Encodes(s) <=> Utf8Of(c) = s /\ ~Refused(c)
  BY <1>3, Zenon DEF Encodes
<1>5. m \in Nat /\ m >= x * 64
  BY <1>2
<1>6. h \in Nat /\ h >= m * 64 /\ (h >= 1024 <=> m >= 16)
  <2> HIDE DEF m
  <2>1. QED  BY <1>2, <1>5
<1>7. c \in Nat /\ c >= h * 64 /\ (c >= 65536 <=> m >= 16)
  <2> HIDE DEF h
  <2>1. QED  BY <1>2, <1>6, SMTT(20)
<1>8. ~Refused(c) => x <= 4
  <2> HIDE DEF c, h, m
  <2>1. ~Refused(c) => c <= 1114111
    BY <1>7, SMTT(20) DEF Refused
  <2>2. QED  BY <1>2, <1>5, <1>6, <1>7, <2>1, SMTT(20)
<1>9. m >= 16 => Utf8Of(c) = <<240 + x, 128 + y, 128 + z, 128 + w>>
  <2> SUFFICES ASSUME m >= 16 PROVE Utf8Of(c) = <<240 + x, 128 + y, 128 + z, 128 + w>>
    OBVIOUS
  <2>1. DigitsFour(x, y, z, w)
    BY <1>2, Zenon DEF DigitsFour
  <2>2. Utf8Of(((x * 64 + y) * 64 + z) * 64 + w) = <<240 + x, 128 + y, 128 + z, 128 + w>>
    BY <2>1, Utf8Four, SMTT(20)
  <2>3. QED  BY <2>2, Zenon
<1>10. <<240 + x, 128 + y, 128 + z, 128 + w>> = <<a, b, d, e>> <=>
          a = 240 + x /\ b = 128 + y /\ d = 128 + z /\ e = 128 + w
  BY <1>2
<1> DEFINE Long == c >= 65536
           Q == Utf8Of(c)
<1> HIDE DEF c, h, m
<1>11. Long <=> m >= 16
  BY <1>7, SMTT(20)
<1>12. ~Long => Len(Q) # 4
  BY <1>7, Utf8Shorter, SMTT(20)
<1> HIDE DEF Long, Q
<1>13. ~Refused(c) => (Q = s <=> A /\ B /\ D /\ E /\ Long)
  <2>1. CASE Long
    BY <1>2, <1>8, <1>9, <1>10, <1>11, <2>1, ZenonT(60) DEF s, Q
  <2>2. CASE ~Long
    BY <1>1, <1>12, <2>2, Zenon
  <2>3. QED  BY <2>1, <2>2, Zenon
<1>14. Encodes(s) <=> A /\ B /\ D /\ E /\ Long /\ ~Refused(c)
  BY <1>4, <1>13, Zenon DEF Q
<1>15. Accepted(c, 3) <=> Long /\ ~Refused(c)
  BY SMTT(20) DEF Accepted, Minimum, Long
<1>16. Encodes(s) <=> A /\ B /\ D /\ E /\ Accepted(c, 3)
  BY <1>14, <1>15, Zenon
<1>17. QED  BY <1>16, Zenon DEF s, c, h, m, x, y, z, w, A, B, D, E

\* What the first byte tells
LEMMA FirstOne ==
    ASSUME NEW a \in 0 .. 255
    PROVE  (Extra(a) = 0 <=> a < 128) /\ (Extra(a) = 0 => FirstBits(a) = a)
<1>1. Extra(a) = 0 <=> a < 128
  BY DEF Extra
<1>2. Extra(a) = 0 => FirstBits(a) = a
  BY DEF FirstBits
<1>3. QED  BY <1>1, <1>2, Zenon

LEMMA FirstTwo ==
    ASSUME NEW a \in 0 .. 255
    PROVE  (Extra(a) = 1 <=> a \in 194 .. 223) /\ (Extra(a) = 1 => FirstBits(a) = a % 32)
<1>1. Extra(a) = 1 <=> a \in 194 .. 223
  BY DEF Extra
<1>2. Extra(a) = 1 => FirstBits(a) = a % 32
  BY DEF FirstBits
<1>3. QED  BY <1>1, <1>2, Zenon

LEMMA FirstThree ==
    ASSUME NEW a \in 0 .. 255
    PROVE  (Extra(a) = 2 <=> a \in 224 .. 239) /\ (Extra(a) = 2 => FirstBits(a) = a % 16)
<1>1. Extra(a) = 2 <=> a \in 224 .. 239
  BY DEF Extra
<1>2. Extra(a) = 2 => FirstBits(a) = a % 16
  BY DEF FirstBits
<1>3. QED  BY <1>1, <1>2, Zenon

LEMMA FirstFour ==
    ASSUME NEW a \in 0 .. 255
    PROVE  (Extra(a) = 3 <=> a \in 240 .. 244) /\ (Extra(a) = 3 => FirstBits(a) = a % 8)
<1>1. Extra(a) = 3 <=> a \in 240 .. 244
  BY DEF Extra
<1>2. Extra(a) = 3 => FirstBits(a) = a % 8
  BY DEF FirstBits
<1>3. QED  BY <1>1, <1>2, Zenon

LEMMA ExtraRange ==
    ASSUME NEW a \in 0 .. 255
    PROVE  Extra(a) \in -1 .. 3
  BY DEF Extra

LEMMA PartElements ==
    ASSUME NEW S, NEW text \in Seq(S), NEW at \in 1 .. Len(text), NEW last \in at .. Len(text)
    PROVE  /\ SubSeq(text, at, last) \in Seq(S) /\ Len(SubSeq(text, at, last)) = last - at + 1
           /\ \A k \in 1 .. last - at + 1 : SubSeq(text, at, last)[k] = text[at + k - 1]
<1>1. at \in 1 .. Len(text) + 1 /\ last \in at - 1 .. Len(text)
  OBVIOUS
<1>2. QED  BY <1>1, SubSeqProperties

\* The bytes of a short part of a text
LEMMA ShortPart ==
    ASSUME NEW text \in Seq(0 .. 255), NEW at \in 1 .. Len(text)
    PROVE  /\ SubSeq(text, at, at) = <<text[at]>>
           /\ at + 1 <= Len(text) => SubSeq(text, at, at + 1) = <<text[at], text[at + 1]>>
           /\ at + 2 <= Len(text) => SubSeq(text, at, at + 2) = <<text[at], text[at + 1], text[at + 2]>>
           /\ at + 3 <= Len(text) =>
                 SubSeq(text, at, at + 3) = <<text[at], text[at + 1], text[at + 2], text[at + 3]>>
<1>1. ASSUME NEW last \in at .. Len(text)
      PROVE  LET s == SubSeq(text, at, last)
             IN  /\ s \in Seq(0 .. 255) /\ Len(s) = last - at + 1
                 /\ \A k \in 1 .. last - at + 1 : s[k] = text[at + k - 1]
  BY PartElements, Zenon
<1>2. SubSeq(text, at, at) = <<text[at]>>
  <2> DEFINE s == SubSeq(text, at, at)
  <2>1. s \in Seq(0 .. 255) /\ Len(s) = 1 /\ s[1] = text[at]
    BY <1>1
  <2> HIDE DEF s
  <2>2. s = <<text[at]>>
    BY <2>1
  <2>3. QED  BY <2>2 DEF s
<1>3. ASSUME at + 1 <= Len(text) PROVE SubSeq(text, at, at + 1) = <<text[at], text[at + 1]>>
  <2> DEFINE s == SubSeq(text, at, at + 1)
  <2>1. s \in Seq(0 .. 255) /\ Len(s) = 2 /\ s[1] = text[at] /\ s[2] = text[at + 1]
    BY <1>1, <1>3
  <2> HIDE DEF s
  <2>2. s = <<text[at], text[at + 1]>>
    BY <2>1
  <2>3. QED  BY <2>2 DEF s
<1>4. ASSUME at + 2 <= Len(text) PROVE SubSeq(text, at, at + 2) = <<text[at], text[at + 1], text[at + 2]>>
  <2> DEFINE s == SubSeq(text, at, at + 2)
  <2>1. /\ s \in Seq(0 .. 255) /\ Len(s) = 3
        /\ s[1] = text[at] /\ s[2] = text[at + 1] /\ s[3] = text[at + 2]
    BY <1>1, <1>4
  <2> HIDE DEF s
  <2>2. s = <<text[at], text[at + 1], text[at + 2]>>
    BY <2>1
  <2>3. QED  BY <2>2 DEF s
<1>5. ASSUME at + 3 <= Len(text)
      PROVE  SubSeq(text, at, at + 3) = <<text[at], text[at + 1], text[at + 2], text[at + 3]>>
  <2> DEFINE s == SubSeq(text, at, at + 3)
  <2>1. /\ s \in Seq(0 .. 255) /\ Len(s) = 4
        /\ s[1] = text[at] /\ s[2] = text[at + 1] /\ s[3] = text[at + 2] /\ s[4] = text[at + 3]
    BY <1>1, <1>5
  <2> HIDE DEF s
  <2>2. s = <<text[at], text[at + 1], text[at + 2], text[at + 3]>>
    BY <2>1
  <2>3. QED  BY <2>2 DEF s
<1>6. QED  BY <1>2, <1>3, <1>4, <1>5, Zenon

\* A character with so many more bytes begins here (emqtt_contract.c:13-34).
Begins(text, at, extra) ==
    /\ at + extra <= Len(text)
    /\ \A j \in at + 1 .. at + extra : text[j] \in 128 .. 191
    /\ Accepted(CodeAt(text, at), extra)

\* What holds of the next bytes, one by one
LEMMA Following ==
    ASSUME NEW text, NEW at \in Nat, NEW X
    PROVE  /\ (\A j \in at + 1 .. at + 1 : text[j] \in X) <=> text[at + 1] \in X
           /\ (\A j \in at + 1 .. at + 2 : text[j] \in X) <=> text[at + 1] \in X /\ text[at + 2] \in X
           /\ (\A j \in at + 1 .. at + 3 : text[j] \in X) <=>
                 text[at + 1] \in X /\ text[at + 2] \in X /\ text[at + 3] \in X
<1>1. \A j : j \in at + 1 .. at + 1 <=> j = at + 1
  OBVIOUS
<1>2. \A j : j \in at + 1 .. at + 2 <=> j = at + 1 \/ j = at + 2
  OBVIOUS
<1>3. \A j : j \in at + 1 .. at + 3 <=> j = at + 1 \/ j = at + 2 \/ j = at + 3
  OBVIOUS
<1>4. QED  BY <1>1, <1>2, <1>3, Zenon

LEMMA BeginsOne ==
    ASSUME NEW text \in Seq(0 .. 255), NEW at \in 1 .. Len(text)
    PROVE  Extra(text[at]) = 0 /\ Begins(text, at, 0) <=>
              at + 0 <= Len(text) /\ Encodes(SubSeq(text, at, at + 0))
<1> DEFINE a == text[at]
           c0 == a
           c1 == c0 * 64 + (text[at + 1] % 64)
           c2 == c1 * 64 + (text[at + 2] % 64)
           c3 == c2 * 64 + (text[at + 3] % 64)
           A == a < 128
<1>1. at \in Nat /\ at + 0 = at /\ at + 0 <= Len(text)
  OBVIOUS
<1>2. a \in 0 .. 255
  BY <1>1, ElementOfSeq, Zenon
<1>3. SubSeq(text, at, at + 0) = <<a>>
  BY ShortPart, SMTT(20)
<1>4. \A j \in at + 1 .. at + 0 : text[j] \in 128 .. 191
  BY <1>1
<1>5. ASSUME Extra(a) = 0, FirstBits(a) = c0 PROVE CodeAt(text, at) = c0
  <2>1. CodesAt(text, at, c0, c1, c2, c3)
    BY <1>5, Zenon DEF CodesAt
  <2> HIDE DEF c0, c1, c2, c3
  <2>2. QED  BY <1>5, <2>1, CodeAtIs, Zenon
<1> HIDE DEF a
<1>6. (Extra(a) = 0 <=> A) /\ (Extra(a) = 0 => FirstBits(a) = c0)
  BY <1>2, FirstOne, Zenon
<1>7. Encodes(<<a>>) <=> A /\ Accepted(c0, 0)
  BY <1>2, EncodesOne, Zenon
<1> HIDE DEF c0, c1, c2, c3, A
<1>8. Extra(a) = 0 /\ Begins(text, at, 0) <=> A /\ Accepted(c0, 0)
  BY <1>1, <1>4, <1>5, <1>6, Zenon DEF Begins
<1>9. QED  BY <1>1, <1>3, <1>7, <1>8, Zenon DEF a

LEMMA BeginsTwo ==
    ASSUME NEW text \in Seq(0 .. 255), NEW at \in 1 .. Len(text)
    PROVE  Extra(text[at]) = 1 /\ Begins(text, at, 1) <=>
              at + 1 <= Len(text) /\ Encodes(SubSeq(text, at, at + 1))
<1> SUFFICES ASSUME at + 1 <= Len(text)
             PROVE  Extra(text[at]) = 1 /\ Begins(text, at, 1) <=> Encodes(SubSeq(text, at, at + 1))
  BY Zenon DEF Begins
<1> DEFINE a == text[at]
           b == text[at + 1]
           c0 == a % 32
           c1 == c0 * 64 + (b % 64)
           c2 == c1 * 64 + (text[at + 2] % 64)
           c3 == c2 * 64 + (text[at + 3] % 64)
           A == a \in 194 .. 223
           B == b \in 128 .. 191
<1>1. at \in Nat /\ at + 1 \in 1 .. Len(text)
  OBVIOUS
<1>2. a \in 0 .. 255 /\ b \in 0 .. 255
  BY <1>1, ElementOfSeq, Zenon
<1>3. SubSeq(text, at, at + 1) = <<a, b>>
  BY ShortPart, SMTT(20)
<1>4. (\A j \in at + 1 .. at + 1 : text[j] \in 128 .. 191) <=> B
  BY <1>1, Following, Zenon
<1>5. ASSUME Extra(a) = 1, FirstBits(a) = c0 PROVE CodeAt(text, at) = c1
  <2>1. CodesAt(text, at, c0, c1, c2, c3)
    BY <1>5, Zenon DEF CodesAt
  <2> HIDE DEF c0, c1, c2, c3
  <2>2. QED  BY <1>5, <2>1, CodeAtIs, Zenon
<1> HIDE DEF a, b
<1>6. (Extra(a) = 1 <=> A) /\ (Extra(a) = 1 => FirstBits(a) = c0)
  BY <1>2, FirstTwo, Zenon
<1>7. Encodes(<<a, b>>) <=> A /\ B /\ Accepted(c1, 1)
  BY <1>2, EncodesTwo, Zenon
<1> HIDE DEF c0, c1, c2, c3, A, B
<1>8. Extra(a) = 1 /\ Begins(text, at, 1) <=> A /\ B /\ Accepted(c1, 1)
  BY <1>4, <1>5, <1>6, Zenon DEF Begins
<1>9. QED  BY <1>3, <1>7, <1>8, Zenon DEF a

LEMMA BeginsThree ==
    ASSUME NEW text \in Seq(0 .. 255), NEW at \in 1 .. Len(text)
    PROVE  Extra(text[at]) = 2 /\ Begins(text, at, 2) <=>
              at + 2 <= Len(text) /\ Encodes(SubSeq(text, at, at + 2))
<1> SUFFICES ASSUME at + 2 <= Len(text)
             PROVE  Extra(text[at]) = 2 /\ Begins(text, at, 2) <=> Encodes(SubSeq(text, at, at + 2))
  BY Zenon DEF Begins
<1> DEFINE a == text[at]
           b == text[at + 1]
           d == text[at + 2]
           c0 == a % 16
           c1 == c0 * 64 + (b % 64)
           c2 == c1 * 64 + (d % 64)
           c3 == c2 * 64 + (text[at + 3] % 64)
           A == a \in 224 .. 239
           B == b \in 128 .. 191
           D == d \in 128 .. 191
<1>1. at \in Nat /\ at + 1 \in 1 .. Len(text) /\ at + 2 \in 1 .. Len(text)
  OBVIOUS
<1>2. a \in 0 .. 255 /\ b \in 0 .. 255 /\ d \in 0 .. 255
  BY <1>1, ElementOfSeq, Zenon
<1>3. SubSeq(text, at, at + 2) = <<a, b, d>>
  BY ShortPart, SMTT(20)
<1>4. (\A j \in at + 1 .. at + 2 : text[j] \in 128 .. 191) <=> B /\ D
  BY <1>1, Following, Zenon
<1>5. ASSUME Extra(a) = 2, FirstBits(a) = c0 PROVE CodeAt(text, at) = c2
  <2>1. CodesAt(text, at, c0, c1, c2, c3)
    BY <1>5, Zenon DEF CodesAt
  <2> HIDE DEF c0, c1, c2, c3
  <2>2. QED  BY <1>5, <2>1, CodeAtIs, Zenon
<1> HIDE DEF a, b, d
<1>6. (Extra(a) = 2 <=> A) /\ (Extra(a) = 2 => FirstBits(a) = c0)
  BY <1>2, FirstThree, Zenon
<1>7. Encodes(<<a, b, d>>) <=> A /\ B /\ D /\ Accepted(c2, 2)
  BY <1>2, EncodesThree, ZenonT(60)
<1> HIDE DEF c0, c1, c2, c3, A, B, D
<1>8. Extra(a) = 2 /\ Begins(text, at, 2) <=> A /\ B /\ D /\ Accepted(c2, 2)
  BY <1>4, <1>5, <1>6, Zenon DEF Begins
<1>9. QED  BY <1>3, <1>7, <1>8, Zenon DEF a

LEMMA BeginsFour ==
    ASSUME NEW text \in Seq(0 .. 255), NEW at \in 1 .. Len(text)
    PROVE  Extra(text[at]) = 3 /\ Begins(text, at, 3) <=>
              at + 3 <= Len(text) /\ Encodes(SubSeq(text, at, at + 3))
<1> SUFFICES ASSUME at + 3 <= Len(text)
             PROVE  Extra(text[at]) = 3 /\ Begins(text, at, 3) <=> Encodes(SubSeq(text, at, at + 3))
  BY Zenon DEF Begins
<1> DEFINE a == text[at]
           b == text[at + 1]
           d == text[at + 2]
           e == text[at + 3]
           c0 == a % 8
           c1 == c0 * 64 + (b % 64)
           c2 == c1 * 64 + (d % 64)
           c3 == c2 * 64 + (e % 64)
           A == a \in 240 .. 244
           B == b \in 128 .. 191
           D == d \in 128 .. 191
           E == e \in 128 .. 191
<1>1. at \in Nat /\ at + 1 \in 1 .. Len(text) /\ at + 2 \in 1 .. Len(text) /\ at + 3 \in 1 .. Len(text)
  OBVIOUS
<1>2. a \in 0 .. 255 /\ b \in 0 .. 255 /\ d \in 0 .. 255 /\ e \in 0 .. 255
  BY <1>1, ElementOfSeq, Zenon
<1>3. SubSeq(text, at, at + 3) = <<a, b, d, e>>
  BY ShortPart, SMTT(20)
<1>4. (\A j \in at + 1 .. at + 3 : text[j] \in 128 .. 191) <=> B /\ D /\ E
  BY <1>1, Following, Zenon
<1>5. ASSUME Extra(a) = 3, FirstBits(a) = c0 PROVE CodeAt(text, at) = c3
  <2>1. CodesAt(text, at, c0, c1, c2, c3)
    BY <1>5, Zenon DEF CodesAt
  <2> HIDE DEF c0, c1, c2, c3
  <2>2. QED  BY <1>5, <2>1, CodeAtIs, Zenon
<1> HIDE DEF a, b, d, e
<1>6. (Extra(a) = 3 <=> A) /\ (Extra(a) = 3 => FirstBits(a) = c0)
  BY <1>2, FirstFour, Zenon
<1>7. Encodes(<<a, b, d, e>>) <=> A /\ B /\ D /\ E /\ Accepted(c3, 3)
  BY <1>2, EncodesFour, ZenonT(60)
<1> HIDE DEF c0, c1, c2, c3, A, B, D, E
<1>8. Extra(a) = 3 /\ Begins(text, at, 3) <=> A /\ B /\ D /\ E /\ Accepted(c3, 3)
  BY <1>4, <1>5, <1>6, Zenon DEF Begins
<1>9. QED  BY <1>3, <1>7, <1>8, Zenon DEF a

-----------------------------------------------------------------------------
(***************************************************************************)
(* utf8 accepts the texts that can be cut into encodings.                  *)
(***************************************************************************)

\* An encoding of k bytes begins here.
Piece(text, at, k) == at + k - 1 <= Len(text) /\ Encodes(SubSeq(text, at, at + k - 1))

Pieces(text) == {p \in (1 .. Len(text)) \X (1 .. 4) : Piece(text, p[1], p[2])}

LEMMA PiecesFit ==
    ASSUME NEW text \in Seq(0 .. 255)
    PROVE  \A at \in 1 .. Len(text), k \in 1 .. 4 : <<at, k>> \in Pieces(text) => at + k <= Len(text) + 1
<1> SUFFICES ASSUME NEW at \in 1 .. Len(text), NEW k \in 1 .. 4, <<at, k>> \in Pieces(text)
             PROVE  at + k <= Len(text) + 1
  BY Zenon
<1>1. Piece(text, at, k)
  BY Zenon DEF Pieces
<1>2. at + k - 1 <= Len(text)
  BY <1>1, Zenon DEF Piece
<1>3. QED  BY <1>2

\* A character that utf8 accepts is such a piece.
LEMMA CharacterIsPiece ==
    ASSUME NEW text \in Seq(0 .. 255), NEW at \in 1 .. Len(text), NEW k \in 1 .. 4
    PROVE  Extra(text[at]) = k - 1 /\ Begins(text, at, k - 1) <=> <<at, k>> \in Pieces(text)
<1>1. <<at, k>> \in Pieces(text) <=> Piece(text, at, k)
  BY Zenon DEF Pieces
<1>2. CASE k = 1
  <2>1. k - 1 = 0 /\ at + k - 1 = at + 0
    BY <1>2
  <2>2. QED  BY <1>1, <2>1, BeginsOne, Zenon DEF Piece
<1>3. CASE k = 2
  <2>1. k - 1 = 1 /\ at + k - 1 = at + 1
    BY <1>3
  <2>2. QED  BY <1>1, <2>1, BeginsTwo, Zenon DEF Piece
<1>4. CASE k = 3
  <2>1. k - 1 = 2 /\ at + k - 1 = at + 2
    BY <1>4
  <2>2. QED  BY <1>1, <2>1, BeginsThree, Zenon DEF Piece
<1>5. CASE k = 4
  <2>1. k - 1 = 3 /\ at + k - 1 = at + 3
    BY <1>5
  <2>2. QED  BY <1>1, <2>1, BeginsFour, Zenon DEF Piece
<1>6. k = 1 \/ k = 2 \/ k = 3 \/ k = 4
  OBVIOUS
<1>7. QED  BY <1>2, <1>3, <1>4, <1>5, <1>6, Zenon

\* What the chain asks of a position
Cut(f, E, n, at) == at > n \/ \E k \in 1 .. 4 : <<at, k>> \in E /\ f[at + k]

LEMMA CharacterCut ==
    ASSUME NEW text \in Seq(0 .. 255), NEW f, NEW at \in 1 .. Len(text)
    PROVE  (LET extra == Extra(text[at])
            IN  /\ extra >= 0 /\ at + extra <= Len(text)
                /\ \A k \in at + 1 .. at + extra : text[k] \in 128 .. 191
                /\ Accepted(CodeAt(text, at), extra)
                /\ f[at + extra + 1])
           <=> Cut(f, Pieces(text), Len(text), at)
<1> DEFINE e == Extra(text[at])
           E == Pieces(text)
<1>1. ~(at > Len(text)) /\ at \in Nat
  OBVIOUS
<1>2. e \in -1 .. 3
  <2>1. text[at] \in 0 .. 255
    BY ElementOfSeq
  <2>2. QED  BY <2>1, ExtraRange, Zenon
<1>3. \A k \in 1 .. 4 : e = k - 1 /\ Begins(text, at, k - 1) <=> <<at, k>> \in E
  BY CharacterIsPiece, Zenon
<1>4. (LET extra == Extra(text[at])
       IN  /\ extra >= 0 /\ at + extra <= Len(text)
           /\ \A k \in at + 1 .. at + extra : text[k] \in 128 .. 191
           /\ Accepted(CodeAt(text, at), extra)
           /\ f[at + extra + 1])
      <=> e >= 0 /\ Begins(text, at, e) /\ f[at + e + 1]
  BY Zenon DEF Begins
<1> HIDE DEF e, E
<1>5. ASSUME e >= 0, Begins(text, at, e), f[at + e + 1]
      PROVE  Cut(f, E, Len(text), at)
  <2> DEFINE k == e + 1
  <2>1. k \in 1 .. 4 /\ e = k - 1 /\ at + k = at + e + 1
    BY <1>1, <1>2, <1>5
  <2> HIDE DEF k
  <2>2. Begins(text, at, k - 1)
    BY <1>5, <2>1, Zenon
  <2>3. <<at, k>> \in E
    BY <1>3, <2>1, <2>2, Zenon
  <2>4. f[at + k]
    BY <1>5, <2>1, Zenon
  <2>5. QED  BY <2>1, <2>3, <2>4, Zenon DEF Cut
<1>6. ASSUME NEW k \in 1 .. 4, <<at, k>> \in E, f[at + k]
      PROVE  e >= 0 /\ Begins(text, at, e) /\ f[at + e + 1]
  <2>1. e = k - 1 /\ Begins(text, at, k - 1)
    BY <1>3, <1>6, Zenon
  <2>2. e >= 0 /\ at + e + 1 = at + k
    BY <1>1, <2>1
  <2>3. QED  BY <1>6, <2>1, <2>2, Zenon
<1>7. Cut(f, E, Len(text), at) <=> e >= 0 /\ Begins(text, at, e) /\ f[at + e + 1]
  BY <1>1, <1>5, <1>6, Zenon DEF Cut
<1>8. QED  BY <1>4, <1>7, Zenon DEF E

LEMMA Utf8IsChain ==
    ASSUME NEW text \in Seq(0 .. 255)
    PROVE  \E from : Chain(from, Pieces(text), Len(text)) /\ (Utf8(text) <=> from[1])
<1> DEFINE E == Pieces(text)
           Char(f, at) ==
             LET extra == Extra(text[at])
             IN  /\ extra >= 0 /\ at + extra <= Len(text)
                 /\ \A k \in at + 1 .. at + extra : text[k] \in 128 .. 191
                 /\ Accepted(CodeAt(text, at), extra)
                 /\ f[at + extra + 1]
           Of(f) == [at \in 1 .. Len(text) + 1 |-> at > Len(text) \/ Char(f, at)]
           Same(f) == [at \in 1 .. Len(text) + 1 |->
                          at > Len(text) \/ \E k \in 1 .. 4 : <<at, k>> \in E /\ f[at + k]]
           from == CHOOSE f : f = Of(f)
<1>1. Utf8(text) <=> from[1]
  BY DEF Utf8
<1>2. Len(text) \in Nat
  OBVIOUS
<1>3. ASSUME NEW f, NEW at \in 1 .. Len(text) PROVE Char(f, at) <=> Cut(f, E, Len(text), at)
  BY CharacterCut, Zenon
<1> HIDE DEF Char
<1>4. ASSUME NEW f PROVE Of(f) = Same(f)
  <2>1. ASSUME NEW at \in 1 .. Len(text) + 1
        PROVE  (at > Len(text) \/ Char(f, at))
                 = (at > Len(text) \/ \E k \in 1 .. 4 : <<at, k>> \in E /\ f[at + k])
    <3> DEFINE A == at > Len(text) \/ Char(f, at)
               B == at > Len(text) \/ \E k \in 1 .. 4 : <<at, k>> \in E /\ f[at + k]
    <3>1. at > Len(text) \/ at \in 1 .. Len(text)
      BY <1>2
    <3>2. A <=> B
      BY <1>3, <3>1, Zenon DEF Cut
    <3>3. CASE A
      <4>1. A = TRUE
        BY <3>3
      <4>2. B = TRUE
        BY <3>2, <3>3
      <4>3. QED  BY <4>1, <4>2, Zenon
    <3>4. CASE ~A
      <4>1. A = FALSE
        BY <3>4
      <4>2. B = FALSE
        BY <3>2, <3>4
      <4>3. QED  BY <4>1, <4>2, Zenon
    <3>5. QED  BY <3>3, <3>4, Zenon
  <2>2. QED  BY <2>1, Zenon
<1>5. \A f : Chain(f, E, Len(text)) <=> f = Same(f)
  BY Zenon DEF Chain
<1>6. \E f : Chain(f, E, Len(text))
  BY <1>2, PiecesFit, ChainExists, Zenon
<1> HIDE DEF Of, Same
<1>7. \E f : f = Of(f)
  BY <1>4, <1>5, <1>6, Zenon
<1>8. from = Of(from)
  BY <1>7, Zenon
<1> HIDE DEF from
<1>9. QED  BY <1>1, <1>4, <1>5, <1>8, Zenon

LEMMA EncodingIsChain ==
    ASSUME NEW text \in Seq(0 .. 255)
    PROVE  \E from : Chain(from, Pieces(text), Len(text)) /\ (ByEncoding(text) <=> from[1])
<1> DEFINE E == Pieces(text)
           Char(f, at) ==
             \E k \in 1 .. 4 : /\ at + k - 1 <= Len(text)
                                /\ Encodes(SubSeq(text, at, at + k - 1))
                                /\ f[at + k]
           Of(f) == [at \in 1 .. Len(text) + 1 |-> at > Len(text) \/ Char(f, at)]
           Same(f) == [at \in 1 .. Len(text) + 1 |->
                          at > Len(text) \/ \E k \in 1 .. 4 : <<at, k>> \in E /\ f[at + k]]
           from == CHOOSE f : f = Of(f)
<1>1. ByEncoding(text) <=> from[1]
  BY DEF ByEncoding
<1>2. Len(text) \in Nat
  OBVIOUS
<1>3. ASSUME NEW f, NEW at \in 1 .. Len(text) PROVE Char(f, at) <=> Cut(f, E, Len(text), at)
  <2>1. ~(at > Len(text))
    BY <1>2
  <2>2. \A k \in 1 .. 4 : <<at, k>> \in E <=> at + k - 1 <= Len(text) /\ Encodes(SubSeq(text, at, at + k - 1))
    BY Zenon DEF Pieces, Piece
  <2> HIDE DEF E
  <2>3. QED  BY <2>1, <2>2, Zenon DEF Cut
<1> HIDE DEF Char
<1>4. ASSUME NEW f PROVE Of(f) = Same(f)
  <2>1. ASSUME NEW at \in 1 .. Len(text) + 1
        PROVE  (at > Len(text) \/ Char(f, at))
                 = (at > Len(text) \/ \E k \in 1 .. 4 : <<at, k>> \in E /\ f[at + k])
    <3> DEFINE A == at > Len(text) \/ Char(f, at)
               B == at > Len(text) \/ \E k \in 1 .. 4 : <<at, k>> \in E /\ f[at + k]
    <3>1. at > Len(text) \/ at \in 1 .. Len(text)
      BY <1>2
    <3>2. A <=> B
      BY <1>3, <3>1, Zenon DEF Cut
    <3>3. CASE A
      <4>1. A = TRUE
        BY <3>3
      <4>2. B = TRUE
        BY <3>2, <3>3
      <4>3. QED  BY <4>1, <4>2, Zenon
    <3>4. CASE ~A
      <4>1. A = FALSE
        BY <3>4
      <4>2. B = FALSE
        BY <3>2, <3>4
      <4>3. QED  BY <4>1, <4>2, Zenon
    <3>5. QED  BY <3>3, <3>4, Zenon
  <2>2. QED  BY <2>1, Zenon
<1>5. \A f : Chain(f, E, Len(text)) <=> f = Same(f)
  BY Zenon DEF Chain
<1>6. \E f : Chain(f, E, Len(text))
  BY <1>2, PiecesFit, ChainExists, Zenon
<1> HIDE DEF Of, Same
<1>7. \E f : f = Of(f)
  BY <1>4, <1>5, <1>6, Zenon
<1>8. from = Of(from)
  BY <1>7, Zenon
<1> HIDE DEF from
<1>9. QED  BY <1>1, <1>4, <1>5, <1>8, Zenon

\* Whatever the bytes of a text, utf8 accepts it just if it is a sequence of
\* shortest encodings of code points that are allowed: no byte is left over, no
\* encoding is longer than needed or cut off, and none of a surrogate, a control
\* character or a noncharacter gets through (emqtt_contract.c:13-34).
THEOREM Utf8IsEncoding ==
    ASSUME NEW text \in Seq(0 .. 255)
    PROVE  Utf8(text) <=> ByEncoding(text)
<1>1. PICK f : Chain(f, Pieces(text), Len(text)) /\ (Utf8(text) <=> f[1])
  BY Utf8IsChain, Zenon
<1>2. PICK g : Chain(g, Pieces(text), Len(text)) /\ (ByEncoding(text) <=> g[1])
  BY EncodingIsChain, Zenon
<1>3. Len(text) \in Nat
  OBVIOUS
<1>4. f[1] <=> g[1]
  BY <1>1, <1>2, <1>3, PiecesFit, ChainUnique, Zenon
<1>5. QED  BY <1>1, <1>2, <1>4, Zenon

\* In particular for the texts TLC enumerates, whatever is composed meanwhile.
THEOREM Utf8AlwaysByEncoding == Spec => []Utf8ByEncoding
<1>1. Utf8Texts \subseteq Seq(0 .. 255)
  BY BoundedTexts DEF Utf8Texts
<1>2. Utf8ByEncoding
  BY <1>1, Utf8IsEncoding, Zenon DEF Utf8ByEncoding
<1>3. QED  BY <1>2, PTL DEF Spec

-----------------------------------------------------------------------------
(***************************************************************************)
(* Length bytes that were not written by fini_message.                     *)
(***************************************************************************)

\* The values of the recursion in ValueOf
ValuesOf(text, n, w1, w2, w3, w4, w5) ==
    /\ n \in 1 .. 5 /\ Len(text) = n /\ \A k \in 1 .. n : text[k] \in 0 .. 255
    /\ w5 = IF n >= 5 THEN text[5] % 128 ELSE 0
    /\ w4 = IF n >= 4 THEN (text[4] % 128) + 128 * w5 ELSE 0
    /\ w3 = IF n >= 3 THEN (text[3] % 128) + 128 * w4 ELSE 0
    /\ w2 = IF n >= 2 THEN (text[2] % 128) + 128 * w3 ELSE 0
    /\ w1 = (text[1] % 128) + 128 * w2

LEMMA ValueOfIs ==
    ASSUME NEW text, NEW n, NEW w1, NEW w2, NEW w3, NEW w4, NEW w5, ValuesOf(text, n, w1, w2, w3, w4, w5)
    PROVE  ValueOf(text) = w1
<1> USE DEF ValuesOf
<1> DEFINE Of(f) == [k \in 1 .. n + 1 |-> IF k > n THEN 0 ELSE (text[k] % 128) + 128 * f[k + 1]]
           At(k) == IF k = 1 THEN w1 ELSE IF k = 2 THEN w2 ELSE IF k = 3 THEN w3
                    ELSE IF k = 4 THEN w4 ELSE IF k = 5 THEN w5 ELSE 0
           F == [k \in 1 .. n + 1 |-> At(k)]
           value == CHOOSE f : f = Of(f)
<1>1. ValueOf(text) = value[1]
  BY DEF ValueOf
<1>2. F = Of(F)
  <2>1. ASSUME NEW k \in 1 .. n + 1
        PROVE  At(k) = IF k > n THEN 0 ELSE (text[k] % 128) + 128 * F[k + 1]
    <3>1. CASE k > n
      <4>1. n = 1 \/ n = 2 \/ n = 3 \/ n = 4 \/ n = 5
        OBVIOUS
      <4>2. QED  BY <3>1, <4>1
    <3>2. CASE k <= n
      <4>1. k + 1 \in 1 .. n + 1 /\ ~(k > n)
        BY <3>2
      <4>2. F[k + 1] = At(k + 1)
        BY <4>1, Zenon
      <4>3. At(k) = (text[k] % 128) + 128 * At(k + 1)
        <5>1. CASE k = 1
          BY <5>1
        <5>2. CASE k = 2
          BY <3>2, <5>2
        <5>3. CASE k = 3
          BY <3>2, <5>3
        <5>4. CASE k = 4
          BY <3>2, <5>4
        <5>5. CASE k = 5
          <6>1. n >= 5 /\ text[5] % 128 \in Int
            <7>1. n >= 5 /\ 5 \in 1 .. n
              BY <3>2, <5>5
            <7>2. text[5] \in 0 .. 255
              BY <7>1, Zenon
            <7> HIDE DEF ValuesOf
            <7>3. QED  BY <7>1, <7>2
          <6>2. w5 = text[5] % 128
            BY <6>1
          <6>3. At(5) = w5 /\ At(6) = 0
            <7> HIDE DEF ValuesOf
            <7>1. QED  OBVIOUS
          <6> DEFINE d == text[5] % 128
          <6>4. d \in Int /\ w5 = d
            BY <6>1, <6>2
          <6> HIDE DEF d, At, ValuesOf
          <6>5. w5 = d + 128 * 0
            BY <6>4
          <6>6. k + 1 = 6
            BY <5>5
          <6>7. QED  BY <5>5, <6>5, <6>6, <6>3, Zenon DEF d
        <5>6. k = 1 \/ k = 2 \/ k = 3 \/ k = 4 \/ k = 5
          BY <3>2
        <5>7. QED  BY <5>1, <5>2, <5>3, <5>4, <5>5, <5>6, Zenon
      <4> HIDE DEF At, F
      <4>4. QED  BY <4>1, <4>2, <4>3
    <3>3. QED  BY <3>1, <3>2
  <2>2. \A k \in 1 .. n + 1 : F[k] = Of(F)[k]
    <3> HIDE DEF At
    <3>1. QED  BY <2>1, Zenon
  <2> HIDE DEF At
  <2>3. QED  BY <2>1, Zenon
<1> HIDE DEF F
<1>3. value = Of(value)
  <2> HIDE DEF Of
  <2>1. QED  BY <1>2, Zenon
<1> HIDE DEF value
<1>4. ASSUME NEW k \in 1 .. n + 1
      PROVE  value[k] = IF k > n THEN 0 ELSE (text[k] % 128) + 128 * value[k + 1]
  BY <1>3, Zenon
<1>5. n >= 5 => value[5] = w5
  <2> SUFFICES ASSUME n = 5 PROVE value[5] = w5
    OBVIOUS
  <2>1. value[6] = 0
    BY <1>4
  <2>2. value[5] = (text[5] % 128) + 128 * value[6] /\ text[5] % 128 \in Int
    BY <1>4
  <2>3. QED  BY <2>1, <2>2
<1>6. n >= 4 => value[4] = w4
  <2> SUFFICES ASSUME n >= 4 PROVE value[4] = w4
    OBVIOUS
  <2>1. value[5] = w5
    BY <1>4, <1>5
  <2>2. value[4] = (text[4] % 128) + 128 * value[5]
    BY <1>4
  <2>3. QED  BY <2>1, <2>2
<1>7. n >= 3 => value[3] = w3
  <2> SUFFICES ASSUME n >= 3 PROVE value[3] = w3
    OBVIOUS
  <2>1. value[4] = w4
    BY <1>4, <1>6
  <2>2. value[3] = (text[3] % 128) + 128 * value[4]
    BY <1>4
  <2>3. QED  BY <2>1, <2>2
<1>8. n >= 2 => value[2] = w2
  <2> SUFFICES ASSUME n >= 2 PROVE value[2] = w2
    OBVIOUS
  <2>1. value[3] = w3
    BY <1>4, <1>7
  <2>2. value[2] = (text[2] % 128) + 128 * value[3]
    BY <1>4
  <2>3. QED  BY <2>1, <2>2
<1>9. value[1] = w1
  <2>1. value[2] = w2
    BY <1>4, <1>8
  <2>2. value[1] = (text[1] % 128) + 128 * value[2]
    BY <1>4
  <2>3. QED  BY <2>1, <2>2
<1>10. QED  BY <1>1, <1>9

\* From k on the text is what fini_message writes for v.
Reads(text, k, v) == v \in Nat \ {0} /\ LengthBytes[v] = SubSeq(text, k, Len(text))

LEMMA LastReads ==
    ASSUME NEW text \in Seq(0 .. 255), text # << >>, text[Len(text)] \in 1 .. 127
    PROVE  Reads(text, Len(text), text[Len(text)] % 128)
<1> DEFINE k == Len(text)
           b == text[k]
<1>1. k \in 1 .. Len(text) /\ b \in 1 .. 127
  OBVIOUS
<1>2. SubSeq(text, k, k) = <<b>>
  BY <1>1, ShortPart
<1> HIDE DEF b
<1>3. b % 128 = b /\ b \in Nat \ {0} /\ b < 128
  BY <1>1
<1>4. LengthBytes[b] = <<b>>
  BY <1>3, LengthBytesEquation DEF StepBytes
<1>5. QED  BY <1>2, <1>3, <1>4 DEF Reads, b

LEMMA StepReads ==
    ASSUME NEW text \in Seq(0 .. 255), NEW k \in 1 .. Len(text) - 1, Continued(text[k]),
           NEW v, Reads(text, k + 1, v)
    PROVE  Reads(text, k, (text[k] % 128) + 128 * v)
<1> DEFINE b == text[k]
           n == (b % 128) + 128 * v
           t == SubSeq(text, k + 1, Len(text))
           s == SubSeq(text, k, Len(text))
<1>1. /\ Len(text) \in Nat /\ k \in 1 .. Len(text) /\ Len(text) \in k .. Len(text)
      /\ k + 1 \in 1 .. Len(text) /\ Len(text) \in k + 1 .. Len(text)
  OBVIOUS
<1>2. b \in 0 .. 255 /\ b >= 128
  <2>1. b \in 0 .. 255
    BY <1>1, ElementOfSeq, Zenon
  <2>2. b >= 128
    BY DEF Continued
  <2>3. QED  BY <2>1, <2>2
<1>3. v \in Nat \ {0} /\ LengthBytes[v] = t
  BY DEF Reads
<1> HIDE DEF b
<1>4. n \in Nat \ {0} /\ ~(n < 128) /\ n \div 128 = v /\ 128 + (n % 128) = b
  BY <1>2, <1>3
<1> HIDE DEF n
<1>5. LengthBytes[n] = <<b>> \o t
  BY <1>3, <1>4, LengthBytesEquation DEF StepBytes
<1>6. /\ s \in Seq(0 .. 255) /\ Len(s) = Len(text) - k + 1
      /\ \A j \in 1 .. Len(text) - k + 1 : s[j] = text[k + j - 1]
  BY <1>1, PartElements, Zenon
<1>7. /\ t \in Seq(0 .. 255) /\ Len(t) = Len(text) - (k + 1) + 1
      /\ \A j \in 1 .. Len(text) - (k + 1) + 1 : t[j] = text[(k + 1) + j - 1]
  BY <1>1, PartElements, Zenon
<1>8. s = <<b>> \o t
  <2> HIDE DEF s, t
  <2>1. s[1] = b
    BY <1>1, <1>6 DEF b
  <2>2. ASSUME NEW j \in 2 .. Len(s) PROVE s[j] = t[j - 1]
    <3>1. /\ j \in 1 .. Len(text) - k + 1 /\ j - 1 \in 1 .. Len(text) - (k + 1) + 1
          /\ (k + 1) + (j - 1) - 1 = k + j - 1
      BY <1>1, <1>6
    <3>2. QED  BY <1>6, <1>7, <3>1
  <2>3. Len(s) = 1 + Len(t)
    BY <1>1, <1>6, <1>7
  <2>4. QED  BY <1>2, <1>6, <1>7, <2>1, <2>2, <2>3
<1>9. QED  BY <1>4, <1>5, <1>8, Zenon DEF Reads, n, b

LEMMA LowBits ==
    ASSUME NEW b \in 0 .. 255
    PROVE  /\ b % 128 \in 0 .. 127 /\ b % 128 \in Int
           /\ ~Continued(b) => b = b % 128
           /\ Continued(b) => b = 128 + (b % 128)
  BY DEF Continued

\* Length bytes without superfluous ones are what fini_message writes.
LEMMA WrittenBack ==
    ASSUME NEW text \in Seq(0 .. 255), NEW n, NEW w1, NEW w2, NEW w3, NEW w4, NEW w5,
           ValuesOf(text, n, w1, w2, w3, w4, w5),
           text[n] \in 1 .. 127, \A k \in 1 .. n - 1 : Continued(text[k])
    PROVE  LengthBytes[w1] = text
<1>1. n \in 1 .. 5 /\ n = Len(text) /\ text # << >>
  BY DEF ValuesOf
<1>2. \A k \in 1 .. n : text[k] % 128 \in Int
  <2>1. \A k \in 1 .. n : text[k] \in 0 .. 255
    BY <1>1, ElementOfSeq, ZenonT(60)
  <2>2. QED  BY <2>1, LowBits, ZenonT(60)
<1> DEFINE d(k) == text[k] % 128
<1>3. Reads(text, n, d(n))
  BY <1>1, LastReads, Zenon
<1>4. ASSUME NEW k \in 1 .. n - 1, NEW v, Reads(text, k + 1, v) PROVE Reads(text, k, d(k) + 128 * v)
  BY <1>1, <1>4, StepReads, Zenon
<1>5. /\ \A k \in 1 .. n : d(k) \in Int
      /\ w5 = IF n >= 5 THEN d(5) ELSE 0
      /\ w4 = IF n >= 4 THEN d(4) + 128 * w5 ELSE 0
      /\ w3 = IF n >= 3 THEN d(3) + 128 * w4 ELSE 0
      /\ w2 = IF n >= 2 THEN d(2) + 128 * w3 ELSE 0
      /\ w1 = d(1) + 128 * w2
  BY <1>2, Zenon DEF ValuesOf
<1> HIDE DEF d
<1>6. n = 5 => Reads(text, 5, w5)
  BY <1>3, <1>5
<1>7. n >= 4 => Reads(text, 4, w4)
  <2>1. CASE n = 4
    BY <1>3, <1>5, <2>1
  <2>2. CASE n > 4
    <3>1. n = 5 /\ 4 \in 1 .. n - 1 /\ 4 + 1 = 5 /\ n >= 4
      BY <1>1, <2>2
    <3>2. w4 = d(4) + 128 * w5
      BY <1>5, <3>1, Zenon
    <3>3. QED  BY <1>4, <1>6, <3>1, <3>2, Zenon
  <2>3. QED  BY <1>1, <2>1, <2>2
<1>8. n >= 3 => Reads(text, 3, w3)
  <2>1. CASE n = 3
    BY <1>3, <1>5, <2>1
  <2>2. CASE n > 3
    <3>1. n >= 4 /\ 3 \in 1 .. n - 1 /\ 3 + 1 = 4 /\ n >= 3
      BY <1>1, <2>2
    <3>2. w3 = d(3) + 128 * w4
      BY <1>5, <3>1, Zenon
    <3>3. QED  BY <1>4, <1>7, <3>1, <3>2, Zenon
  <2>3. QED  BY <1>1, <2>1, <2>2
<1>9. n >= 2 => Reads(text, 2, w2)
  <2>1. CASE n = 2
    BY <1>3, <1>5, <2>1
  <2>2. CASE n > 2
    <3>1. n >= 3 /\ 2 \in 1 .. n - 1 /\ 2 + 1 = 3 /\ n >= 2
      BY <1>1, <2>2
    <3>2. w2 = d(2) + 128 * w3
      BY <1>5, <3>1, ZenonT(60)
    <3>3. QED  BY <1>4, <1>8, <3>1, <3>2, Zenon
  <2>3. QED  BY <1>1, <2>1, <2>2
<1>10. Reads(text, 1, w1)
  <2>1. CASE n = 1
    BY <1>3, <1>5, <2>1
  <2>2. CASE n > 1
    <3>1. n >= 2 /\ 1 \in 1 .. n - 1 /\ 1 + 1 = 2 /\ n >= 1
      BY <1>1, <2>2
    <3>2. w1 = d(1) + 128 * w2
      BY <1>5, <3>1, Zenon
    <3>3. QED  BY <1>4, <1>9, <3>1, <3>2, Zenon
  <2>3. QED  BY <1>1, <2>1, <2>2
<1>11. SubSeq(text, 1, Len(text)) = text
  OBVIOUS
<1>12. QED  BY <1>10, <1>11, Zenon DEF Reads

\* What was read is what the bytes stand for, also where some of them are superfluous.
LEMMA ReadWhole ==
    ASSUME NEW text \in Seq(0 .. 255), NEW n, NEW w1, NEW w2, NEW w3, NEW w4, NEW w5,
           ValuesOf(text, n, w1, w2, w3, w4, w5), n <= 4,
           ~Continued(text[n]), \A k \in 1 .. n - 1 : Continued(text[k])
    PROVE  \E x, y, z, c : w1 = Value(x, y, z, c) /\ Digits(text, n, x, y, z, c)
<1> DEFINE d(k) == text[k] % 128
           x == d(1)
           y == IF n >= 2 THEN d(2) ELSE 0
           z == IF n >= 3 THEN d(3) ELSE 0
           c == IF n >= 4 THEN d(4) ELSE 0
<1>1. n \in 1 .. 5 /\ Len(text) = n /\ \A k \in 1 .. n : text[k] \in 0 .. 255
  BY Zenon DEF ValuesOf
<1>2. n \in 1 .. 4 /\ n \in 1 .. n /\ ~(n >= 5) /\ \A k \in 1 .. n - 1 : k \in 1 .. n
  BY <1>1
<1>3. \A k \in 1 .. n : d(k) \in 0 .. 127
  BY <1>1, LowBits, Zenon
<1>4. /\ w5 = IF n >= 5 THEN d(5) ELSE 0
      /\ w4 = IF n >= 4 THEN d(4) + 128 * w5 ELSE 0
      /\ w3 = IF n >= 3 THEN d(3) + 128 * w4 ELSE 0
      /\ w2 = IF n >= 2 THEN d(2) + 128 * w3 ELSE 0
      /\ w1 = d(1) + 128 * w2
  BY Zenon DEF ValuesOf
<1>5. text[n] = d(n) /\ \A k \in 1 .. n - 1 : text[k] = 128 + d(k)
  BY <1>1, <1>2, LowBits, Zenon
<1> HIDE DEF d
<1>6. x \in 0 .. 127 /\ y \in 0 .. 127 /\ z \in 0 .. 127 /\ c \in 0 .. 127
  BY <1>2, <1>3
<1>7. w1 = Value(x, y, z, c)
  <2>1. w5 = 0
    BY <1>2, <1>4, Zenon
  <2>2. w4 = c
    <3>1. CASE n >= 4
      <4>1. d(4) \in Int
        <5>1. c = d(4)
          BY <3>1, Zenon
        <5> HIDE DEF c
        <5>2. c \in Int
          BY <1>6
        <5>3. QED  BY <5>1, <5>2, Zenon
      <4>2. w4 = d(4) + 128 * 0
        BY <1>4, <2>1, <3>1, Zenon
      <4>3. QED  BY <3>1, <4>1, <4>2
    <3>2. CASE ~(n >= 4)
      BY <1>4, <3>2, Zenon
    <3>3. QED  BY <3>1, <3>2
  <2>3. w3 = z + 128 * c
    <3>1. CASE n >= 3
      BY <1>4, <2>2, <3>1, Zenon
    <3>2. CASE ~(n >= 3)
      <4>1. w3 = 0 /\ z = 0 /\ c = 0
        BY <1>2, <1>4, <3>2
      <4>2. QED  BY <4>1
    <3>3. QED  BY <3>1, <3>2
  <2>4. w2 = y + 128 * (z + 128 * c)
    <3>1. CASE n >= 2
      BY <1>4, <2>3, <3>1, ZenonT(60)
    <3>2. CASE ~(n >= 2)
      <4>1. w2 = 0 /\ y = 0 /\ z = 0 /\ c = 0
        BY <1>2, <1>4, <3>2
      <4>2. QED  BY <4>1
    <3>3. QED  BY <3>1, <3>2
  <2> HIDE DEF y, z, c
  <2>5. QED  BY <1>4, <2>4, Zenon DEF Value
<1>8. Digits(text, n, x, y, z, c)
  <2>1. CASE n = 1
    <3>1. text[1] = x /\ y = 0 /\ z = 0 /\ c = 0
      BY <1>5, <2>1
    <3> HIDE DEF x, y, z, c
    <3>2. QED  BY <1>1, <1>6, <2>1, <3>1 DEF Digits
  <2>2. CASE n = 2
    <3>1. text[1] = 128 + x /\ text[2] = y /\ z = 0 /\ c = 0
      BY <1>5, <2>2
    <3> HIDE DEF x, y, z, c
    <3>2. QED  BY <1>1, <1>6, <2>2, <3>1 DEF Digits
  <2>3. CASE n = 3
    <3>1. text[1] = 128 + x /\ text[2] = 128 + y /\ text[3] = z /\ c = 0
      BY <1>5, <2>3
    <3> HIDE DEF x, y, z, c
    <3>2. QED  BY <1>1, <1>6, <2>3, <3>1 DEF Digits
  <2>4. CASE n = 4
    <3>1. text[1] = 128 + x /\ text[2] = 128 + y /\ text[3] = 128 + z /\ text[4] = c
      BY <1>5, <2>4
    <3> HIDE DEF x, y, z, c
    <3>2. QED  BY <1>1, <1>6, <2>4, <3>1 DEF Digits
  <2>5. QED  BY <1>2, <2>1, <2>2, <2>3, <2>4
<1> HIDE DEF x, y, z, c
<1>9. QED  BY <1>7, <1>8, Zenon

LEMMA ZeroWritten == LengthBytes[0] = <<0>>
<1>1. LengthBytes[0] = StepBytes(LengthBytes, 0)
  BY LengthBytesEquation
<1>2. QED  BY <1>1 DEF StepBytes

LEMMA BytesAreNumbers ==
    ASSUME NEW text \in Seq(0 .. 255)
    PROVE  text \in Seq(Nat)
<1>1. Len(text) \in Nat /\ text \in [1 .. Len(text) -> 0 .. 255]
  BY LenProperties, Zenon
<1> DEFINE n == Len(text)
           B == 0 .. 255
<1>2. B \subseteq Nat /\ n \in Nat /\ text \in [1 .. n -> B]
  BY <1>1
<1> HIDE DEF n, B
<1>3. text \in [1 .. n -> Nat]
  BY <1>2, Zenon
<1>4. QED  BY <1>2, <1>3, SeqDef

LEMMA FiveBytes ==
    ASSUME NEW text \in Seq(0 .. 255), text # << >>, Len(text) <= 5
    PROVE  Len(text) \in 1 .. 5
<1> DEFINE n == Len(text)
<1>1. n \in Nat
  BY LenProperties, Zenon
<1>2. n # 0
  BY EmptySeq, Zenon
<1>3. n <= 5
  OBVIOUS
<1> HIDE DEF n
<1>4. n \in 1 .. 5
  BY <1>1, <1>2, <1>3
<1>5. QED  BY <1>4, Zenon DEF n

\* mqtt_get_total_length reads a length of up to four bytes to its end and no
\* further, whatever stands before and behind, also where fini_message would have
\* written fewer; of the lengths without superfluous bytes fini_message writes just
\* these, and refuses just those of five (lib/mqtt_msg.c:84-102, 120-141).
THEOREM LengthsRoundTrip ==
    ASSUME NEW text \in Seq(0 .. 255), Len(text) \in 1 .. 5,
           \A k \in DOMAIN text : Continued(text[k]) <=> k < Len(text),
           NEW first \in Nat, NEW next \in Seq(Nat)
    PROVE  /\ Len(text) <= 4 =>
                 LET bytes == <<first>> \o text \o next
                 IN  /\ FixedLength(bytes) = 1 + Len(text)
                     /\ TotalLength(bytes) = 1 + Len(text) + ValueOf(text)
           /\ Len(text) = 1 \/ text[Len(text)] # 0 =>
                 /\ LengthBytes[ValueOf(text)] = text
                 /\ Encodable(ValueOf(text)) <=> Len(text) <= 4
<1> DEFINE n == Len(text)
           w5 == IF n >= 5 THEN text[5] % 128 ELSE 0
           w4 == IF n >= 4 THEN (text[4] % 128) + 128 * w5 ELSE 0
           w3 == IF n >= 3 THEN (text[3] % 128) + 128 * w4 ELSE 0
           w2 == IF n >= 2 THEN (text[2] % 128) + 128 * w3 ELSE 0
           w1 == (text[1] % 128) + 128 * w2
<1>1. n \in 1 .. 5 /\ \A k \in 1 .. n : text[k] \in 0 .. 255
  BY ElementOfSeq, Zenon
<1>2. /\ n \in 1 .. n /\ DOMAIN text = 1 .. n /\ ~(n < n)
      /\ \A k \in 1 .. n - 1 : k \in 1 .. n /\ k < n
  BY <1>1
<1>3. ~Continued(text[n]) /\ \A k \in 1 .. n - 1 : Continued(text[k])
  BY <1>2, Zenon
<1>4. ValuesOf(text, n, w1, w2, w3, w4, w5)
  BY <1>1, Zenon DEF ValuesOf
<1> HIDE DEF w1, w2, w3, w4, w5
<1>5. ValueOf(text) = w1
  BY <1>4, ValueOfIs, Zenon
<1>6. ASSUME n <= 4
      PROVE  LET bytes == <<first>> \o text \o next
             IN  FixedLength(bytes) = 1 + n /\ TotalLength(bytes) = 1 + n + w1
  <2> DEFINE bytes == (<<first>> \o text) \o next
  <2>1. PICK x, y, z, c : w1 = Value(x, y, z, c) /\ Digits(text, n, x, y, z, c)
    BY <1>3, <1>4, <1>6, ReadWhole, Zenon
  <2>2. text \in Seq(Nat)
    BY BytesAreNumbers, Zenon
  <2>3. bytes \in Seq(Nat) /\ Within(bytes, text)
    BY <2>2, Between, Zenon
  <2> HIDE DEF bytes
  <2>4. FixedLength(bytes) = 1 + n /\ TotalLength(bytes) = Value(x, y, z, c) + FixedLength(bytes)
    BY <2>1, <2>3, DigitsRead, Zenon
  <2>5. w1 \in Int
    BY <2>1 DEF Digits, Value
  <2>6. TotalLength(bytes) = w1 + (1 + n)
    BY <2>1, <2>4, Zenon
  <2> DEFINE sum == TotalLength(bytes)
  <2>7. sum = w1 + (1 + n) /\ n \in Int
    BY <1>1, <2>6
  <2> HIDE DEF sum, n
  <2>8. sum = 1 + n + w1
    BY <2>5, <2>7
  <2>9. QED  BY <2>4, <2>8, Zenon DEF bytes, sum
<1>7. ASSUME n = 1 \/ text[n] # 0
      PROVE  LengthBytes[w1] = text
  <2>1. text[n] \in 0 .. 127
    <3> DEFINE b == text[n]
    <3>1. b \in 0 .. 255 /\ ~Continued(b)
      BY <1>1, <1>2, <1>3, Zenon
    <3> HIDE DEF b
    <3>2. b \in 0 .. 127
      BY <3>1 DEF Continued
    <3>3. QED  BY <3>2, Zenon DEF b
  <2>2. CASE text[n] # 0
    <3>1. text[n] \in 1 .. 127
      BY <2>1, <2>2
    <3>2. QED  BY <1>3, <1>4, <3>1, WrittenBack, Zenon
  <2>3. CASE text[n] = 0
    <3>1. n = 1 /\ text[1] = 0
      BY <1>7, <2>3
    <3>2. w2 = 0 /\ w1 = 0
      BY <3>1 DEF w1, w2
    <3>3. text = <<0>>
      BY <3>1
    <3>4. QED  BY <3>2, <3>3, ZeroWritten, Zenon
  <2>4. QED  BY <2>2, <2>3
<1>8. ASSUME LengthBytes[w1] = text PROVE Encodable(w1) <=> n <= 4
  <2>1. Encodable(w1) <=> n + 1 <= 5
    BY <1>8, Zenon DEF Encodable, MAX_FIXED_HEADER_SIZE
  <2> HIDE DEF n
  <2>2. QED  BY <1>1, <2>1
<1>9. QED  BY <1>5, <1>6, <1>7, <1>8, Zenon

\* In particular for the texts TLC enumerates.
THEOREM LengthsAlwaysRoundTrip == Spec => []RoundTrip
<1>1. \A text \in LengthTexts : text \in Seq(0 .. 255) /\ Len(text) <= 5
  <2> DEFINE S == {0, 1, 127, 128, 129, 255}
  <2> SUFFICES ASSUME NEW text \in BoundedSeq(S, 5) PROVE text \in Seq(0 .. 255) /\ Len(text) <= 5
    BY Zenon DEF LengthTexts
  <2>1. S \subseteq 0 .. 255 /\ 5 \in Nat
    OBVIOUS
  <2>2. text \in Seq(0 .. 255)
    BY <2>1, BoundedTexts, ZenonT(60)
  <2> HIDE DEF S
  <2>3. PICK m \in 0 .. 5 : text \in [1 .. m -> S]
    BY DEF BoundedSeq, SeqOf
  <2>4. Len(text) = m
    BY <2>2, <2>3
  <2>5. QED  BY <2>2, <2>3, <2>4
<1>2. RoundTrip
  <2> SUFFICES ASSUME NEW text \in LengthTexts, Complete(text)
               PROVE  /\ Len(text) <= 4 =>
                            \A next \in {<< >>, <<0>>, <<255>>} :
                                LET bytes == <<16 * PUBLISH>> \o text \o next
                                IN  /\ FixedLength(bytes) = 1 + Len(text)
                                    /\ TotalLength(bytes) = 1 + Len(text) + ValueOf(text)
                      /\ Len(text) = 1 \/ text[Len(text)] # 0 =>
                            /\ LengthBytes[ValueOf(text)] = text
                            /\ Encodable(ValueOf(text)) <=> Len(text) <= 4
    BY Zenon DEF RoundTrip
  <2>1. text \in Seq(0 .. 255) /\ Len(text) \in 1 .. 5
    <3>1. text # << >> /\ text \in Seq(0 .. 255) /\ Len(text) <= 5
      BY <1>1, Zenon DEF Complete
    <3>2. QED  BY <3>1, FiveBytes, Zenon
  <2>2. \A k \in DOMAIN text : Continued(text[k]) <=> k < Len(text)
    BY Zenon DEF Complete
  <2> DEFINE first == 16 * PUBLISH
  <2>3. first \in Nat
    BY DEF PUBLISH
  <2>4. << >> \in Seq(Nat) /\ <<0>> \in Seq(Nat) /\ <<255>> \in Seq(Nat)
    OBVIOUS
  <2>5. \A next \in {<< >>, <<0>>, <<255>>} : next \in Seq(Nat)
    BY <2>4, Zenon
  <2> HIDE DEF first
  <2>6. Len(text) <= 4 => \A next \in {<< >>, <<0>>, <<255>>} :
           LET bytes == <<first>> \o text \o next
           IN  /\ FixedLength(bytes) = 1 + Len(text)
               /\ TotalLength(bytes) = 1 + Len(text) + ValueOf(text)
    BY <2>1, <2>2, <2>3, <2>5, LengthsRoundTrip, Zenon
  <2>7. Len(text) = 1 \/ text[Len(text)] # 0 =>
           /\ LengthBytes[ValueOf(text)] = text
           /\ Encodable(ValueOf(text)) <=> Len(text) <= 4
    BY <2>1, <2>2, <2>3, <2>4, LengthsRoundTrip, Zenon
  <2>8. QED  BY <2>6, <2>7, Zenon DEF first
<1>3. QED  BY <1>2, PTL

-----------------------------------------------------------------------------
(***************************************************************************)
(* The user name and the password of a URI.                                *)
(***************************************************************************)

\* What the loop makes of the rest of a text, if f is what it makes of later ones
Decoding(uri, f, i) ==
    IF i > Len(uri) THEN [valid |-> TRUE, text |-> << >>]
    ELSE IF ~Legal(uri, i) THEN Invalid
    ELSE LET rest == f[After(uri, i)]
         IN  IF rest.valid THEN [rest EXCEPT !.text = <<CharAt(uri, i)>> \o @] ELSE Invalid

\* f is this at every position from k on.
Decoded(uri, f, k) == f = [i \in Nat |-> f[i]] /\ \A i \in Nat : i >= k => f[i] = Decoding(uri, f, i)

LEMMA LoopGoesOn ==
    ASSUME NEW uri, NEW i \in Nat
    PROVE  After(uri, i) \in Nat /\ After(uri, i) > i
BY DEF After

LEMMA DecodingLooksAhead ==
    ASSUME NEW uri, NEW f, NEW g, NEW i \in Nat, f[After(uri, i)] = g[After(uri, i)]
    PROVE  Decoding(uri, f, i) = Decoding(uri, g, i)
BY Zenon DEF Decoding

LEMMA DecodedFrom ==
    ASSUME NEW uri, Len(uri) \in Nat, NEW k \in Nat, NEW f, Decoded(uri, f, k + 1)
    PROVE  \E g : Decoded(uri, g, k)
<1> DEFINE d == Decoding(uri, f, k)
           g == [i \in Nat |-> IF i = k THEN d ELSE f[i]]
<1> HIDE DEF d
<1>1. \A i \in Nat : g[i] = IF i = k THEN d ELSE f[i]
  OBVIOUS
<1>2. g = [i \in Nat |-> g[i]]
  OBVIOUS
<1> HIDE DEF g
<1>3. ASSUME NEW i \in Nat, i >= k PROVE g[i] = Decoding(uri, g, i)
  <2>1. After(uri, i) \in Nat /\ After(uri, i) > i
    BY LoopGoesOn
  <2>2. g[After(uri, i)] = f[After(uri, i)]
    BY <1>1, <1>3, <2>1
  <2>3. Decoding(uri, g, i) = Decoding(uri, f, i)
    BY <2>2, DecodingLooksAhead
  <2>4. CASE i = k
    BY <1>1, <2>3, <2>4 DEF d
  <2>5. CASE i # k
    <3>1. i >= k + 1
      BY <1>3, <2>5
    <3>2. f[i] = Decoding(uri, f, i)
      BY <3>1, Zenon DEF Decoded
    <3>3. QED  BY <1>1, <2>3, <2>5, <3>2
  <2>6. QED  BY <2>4, <2>5
<1>4. QED  BY <1>2, <1>3, Zenon DEF Decoded

LEMMA DecodedExists ==
    ASSUME NEW uri, Len(uri) \in Nat
    PROVE  \E f : Decoded(uri, f, 0)
<1> DEFINE S == {k \in Nat : \E f : Decoded(uri, f, k)}
<1>1. Len(uri) + 1 \in S
  <2> DEFINE e == [valid |-> TRUE, text |-> << >>]
             f == [i \in Nat |-> e]
  <2>1. \A i \in Nat : i >= Len(uri) + 1 => Decoding(uri, f, i) = e
    <3>1. \A i \in Nat : i >= Len(uri) + 1 => i > Len(uri)
      OBVIOUS
    <3>2. QED  BY <3>1, Zenon DEF Decoding
  <2> HIDE DEF e
  <2>2. \A i \in Nat : f[i] = e
    OBVIOUS
  <2>3. f = [i \in Nat |-> f[i]]
    OBVIOUS
  <2> HIDE DEF f
  <2>4. Decoded(uri, f, Len(uri) + 1)
    BY <2>1, <2>2, <2>3, Zenon DEF Decoded
  <2>5. QED  BY <2>4
<1>2. PICK k \in S : \A j \in S : k <= j
  <2>1. S \in SUBSET Nat
    OBVIOUS
  <2> HIDE DEF S
  <2>2. QED  BY <1>1, <2>1, LeastLength
<1>3. ASSUME k # 0 PROVE FALSE
  <2>1. k - 1 \in Nat /\ (k - 1) + 1 = k /\ ~(k <= k - 1)
    BY <1>3
  <2>2. PICK f : Decoded(uri, f, k)
    OBVIOUS
  <2>3. \E g : Decoded(uri, g, k - 1)
    BY <2>1, <2>2, DecodedFrom
  <2>4. QED  BY <1>2, <2>1, <2>3
<1>4. QED  BY <1>3

\* The decoding is such a function.
LEMMA DecodePercentIs ==
    ASSUME NEW uri, Len(uri) \in Nat
    PROVE  \E f : DecodePercent(uri) = f[1] /\ Decoded(uri, f, 0)
<1> DEFINE Of(f) == [i \in Nat |->
                        IF i > Len(uri) THEN [valid |-> TRUE, text |-> << >>]
                        ELSE IF ~Legal(uri, i) THEN Invalid
                        ELSE LET rest == f[After(uri, i)]
                             IN  IF rest.valid THEN [rest EXCEPT !.text = <<CharAt(uri, i)>> \o @] ELSE Invalid]
           from == CHOOSE f : f = Of(f)
<1>1. DecodePercent(uri) = from[1]
  BY Zenon DEF DecodePercent
<1>2. PICK g : Decoded(uri, g, 0)
  BY DecodedExists, Zenon
<1>3. g = Of(g)
  <2>1. \A i \in Nat : i >= 0
    OBVIOUS
  <2>2. \A i \in Nat : g[i] = Decoding(uri, g, i)
    BY <1>2, <2>1, Zenon DEF Decoded
  <2>3. [i \in Nat |-> g[i]] = [i \in Nat |-> Decoding(uri, g, i)]
    BY <2>2, Zenon
  <2>4. g = [i \in Nat |-> Decoding(uri, g, i)]
    BY <1>2, <2>3, Zenon DEF Decoded
  <2>5. QED  BY <2>4, Zenon DEF Decoding
<1>4. from = Of(from)
  <2> HIDE DEF Of
  <2>1. QED  BY <1>3, Zenon
<1> HIDE DEF from
<1>5. from = [i \in Nat |-> Decoding(uri, from, i)]
  BY <1>4, Zenon DEF Decoding
<1>6. Decoded(uri, from, 0)
  <2> DEFINE D(i) == Decoding(uri, from, i)
  <2> HIDE DEF D
  <2>1. from = [i \in Nat |-> D(i)]
    BY <1>5 DEF D
  <2>2. \A i \in Nat : from[i] = D(i)
    BY <2>1, Zenon
  <2>3. from = [i \in Nat |-> from[i]]
    BY <2>1, Zenon
  <2>4. QED  BY <2>2, <2>3, Zenon DEF Decoded, D
<1>7. QED  BY <1>1, <1>6, Zenon

\* The loop ends well.
Taken(text) == [valid |-> TRUE, text |-> text]

LEMMA TextReplaced ==
    ASSUME NEW v, NEW s, NEW t
    PROVE  [[valid |-> v, text |-> t] EXCEPT !.text = s] = [valid |-> v, text |-> s]
OBVIOUS

LEMMA DecodedSteps ==
    ASSUME NEW uri, Len(uri) \in Nat, NEW f, Decoded(uri, f, 0), NEW i \in Nat
    PROVE  /\ i > Len(uri) => f[i] = Taken(<< >>)
           /\ ~(i > Len(uri)) /\ ~Legal(uri, i) => f[i] = Invalid
           /\ ~(i > Len(uri)) /\ Legal(uri, i) =>
                 /\ f[After(uri, i)] = Invalid => f[i] = Invalid
                 /\ \A t : f[After(uri, i)] = Taken(t) => f[i] = Taken(<<CharAt(uri, i)>> \o t)
<1>1. i >= 0
  OBVIOUS
<1>2. f[i] = Decoding(uri, f, i)
  BY <1>1, Zenon DEF Decoded
<1>3. i > Len(uri) => f[i] = Taken(<< >>)
  BY <1>2, Zenon DEF Decoding, Taken
<1>4. ~(i > Len(uri)) /\ ~Legal(uri, i) => f[i] = Invalid
  BY <1>2, Zenon DEF Decoding
<1>5. ASSUME ~(i > Len(uri)), Legal(uri, i)
      PROVE  f[i] = LET rest == f[After(uri, i)]
                    IN  IF rest.valid THEN [rest EXCEPT !.text = <<CharAt(uri, i)>> \o @] ELSE Invalid
  BY <1>2, <1>5, Zenon DEF Decoding
<1>6. ~Invalid.valid
  BY DEF Invalid
<1>7. ASSUME ~(i > Len(uri)), Legal(uri, i), f[After(uri, i)] = Invalid PROVE f[i] = Invalid
  BY <1>5, <1>6, <1>7, Zenon
<1>8. ASSUME ~(i > Len(uri)), Legal(uri, i), NEW t, f[After(uri, i)] = Taken(t)
      PROVE  f[i] = Taken(<<CharAt(uri, i)>> \o t)
  <2> DEFINE s == <<CharAt(uri, i)>> \o t
  <2> HIDE DEF s
  <2>1. Taken(t).valid /\ Taken(t).text = t
    BY DEF Taken
  <2>2. [Taken(t) EXCEPT !.text = s] = Taken(s)
    BY TextReplaced, Zenon DEF Taken
  <2>3. f[i] = [Taken(t) EXCEPT !.text = s]
    BY <1>5, <1>8, <2>1, Zenon DEF s
  <2>4. QED  BY <2>2, <2>3, Zenon DEF s
<1>9. QED  BY <1>3, <1>4, <1>7, <1>8, Zenon

\* Every percent sign from i on has its two digits.
AllLegal(uri, i) == \A k \in i .. Len(uri) : Legal(uri, k)

\* An escape that is legal hides no percent sign.
LEMMA LegalGoesOn ==
    ASSUME NEW uri, Len(uri) \in Nat, NEW i \in Nat, i <= Len(uri), Legal(uri, i)
    PROVE  AllLegal(uri, i) <=> AllLegal(uri, After(uri, i))
<1>1. CASE uri[i] # Percent
  <2>1. After(uri, i) = i + 1
    BY <1>1 DEF After
  <2>2. \A k \in i .. Len(uri) : k = i \/ k \in i + 1 .. Len(uri)
    OBVIOUS
  <2>3. \A k \in i + 1 .. Len(uri) : k \in i .. Len(uri)
    OBVIOUS
  <2>4. QED  BY <2>1, <2>2, <2>3, Zenon DEF AllLegal
<1>2. CASE uri[i] = Percent
  <2>1. After(uri, i) = i + 3
    BY <1>2 DEF After
  <2>2. \A k \in i .. Len(uri) : k = i \/ k = i + 1 \/ k = i + 2 \/ k \in i + 3 .. Len(uri)
    OBVIOUS
  <2>3. \A k \in i + 3 .. Len(uri) : k \in i .. Len(uri)
    OBVIOUS
  <2>4. uri[i + 1] # Percent /\ uri[i + 2] # Percent
    <3>1. {uri[i + 1], uri[i + 2]} \subseteq HexDigits
      BY <1>2, Zenon DEF Legal
    <3>2. Percent \notin HexDigits
      BY DEF Percent, HexDigits
    <3>3. QED  BY <3>1, <3>2
  <2>5. Legal(uri, i + 1) /\ Legal(uri, i + 2)
    BY <2>4, Zenon DEF Legal
  <2>6. QED  BY <2>1, <2>2, <2>3, <2>5, Zenon DEF AllLegal
<1>3. QED  BY <1>1, <1>2

\* The loop from i on ends well just if it should.
Judged(uri, f, i) ==
    \/ AllLegal(uri, i) /\ \E t : f[i] = Taken(t)
    \/ ~AllLegal(uri, i) /\ f[i] = Invalid

LEMMA DecodedJudges ==
    ASSUME NEW uri, Len(uri) \in Nat, NEW f, Decoded(uri, f, 0), NEW j \in Nat
    PROVE  Judged(uri, f, j)
<1> DEFINE n == Len(uri)
           S == {m \in 0 .. n : ~Judged(uri, f, n - m)}
<1>1. ASSUME NEW i \in Nat, i > n PROVE Judged(uri, f, i)
  <2>1. f[i] = Taken(<< >>)
    BY <1>1, DecodedSteps, Zenon DEF n
  <2>2. i .. n = {}
    BY <1>1
  <2>3. QED  BY <2>1, <2>2, Zenon DEF Judged, AllLegal, n
<1>2. ASSUME NEW i \in Nat, ~(i > n), Judged(uri, f, After(uri, i)) PROVE Judged(uri, f, i)
  <2>1. i <= n /\ i \in i .. Len(uri)
    BY <1>2
  <2>2. CASE ~Legal(uri, i)
    <3>1. f[i] = Invalid
      BY <1>2, <2>2, DecodedSteps, Zenon DEF n
    <3>2. QED  BY <2>1, <2>2, <3>1, Zenon DEF Judged, AllLegal
  <2>3. CASE Legal(uri, i)
    <3>1. AllLegal(uri, i) <=> AllLegal(uri, After(uri, i))
      BY <2>1, <2>3, LegalGoesOn, Zenon DEF n
    <3>2. /\ f[After(uri, i)] = Invalid => f[i] = Invalid
          /\ \A t : f[After(uri, i)] = Taken(t) => f[i] = Taken(<<CharAt(uri, i)>> \o t)
      BY <1>2, <2>3, DecodedSteps, Zenon DEF n
    <3>3. QED  BY <1>2, <3>1, <3>2, Zenon DEF Judged
  <2>4. QED  BY <2>2, <2>3
<1>3. S = {}
  <2> SUFFICES ASSUME S # {} PROVE FALSE
    OBVIOUS
  <2>1. S \in SUBSET Nat
    OBVIOUS
  <2>2. PICK m \in S : \A k \in S : m <= k
    <3> HIDE DEF S
    <3>1. QED  BY <2>1, LeastLength
  <2>3. m \in 0 .. n /\ ~Judged(uri, f, n - m)
    OBVIOUS
  <2> DEFINE i == n - m
             a == After(uri, i)
  <2>4. i \in Nat /\ ~(i > n) /\ n - i = m
    BY <2>3
  <2>5. a \in Nat /\ a > i
    BY <2>4, LoopGoesOn, Zenon
  <2>6. ~Judged(uri, f, a)
    BY <1>2, <2>3, <2>4, Zenon
  <2>7. ~(a > n)
    BY <1>1, <2>5, <2>6, Zenon
  <2> HIDE DEF a, i
  <2>8. n - a \in 0 .. n /\ n - (n - a) = a /\ ~(m <= n - a)
    BY <2>3, <2>4, <2>5, <2>7
  <2>9. n - a \in S
    BY <2>6, <2>8
  <2>10. QED  BY <2>2, <2>8, <2>9
<1>4. CASE j > n
  BY <1>1, <1>4
<1>5. CASE ~(j > n)
  <2>1. n - j \in 0 .. n /\ n - (n - j) = j
    BY <1>5
  <2>2. QED  BY <1>3, <2>1
<1>6. QED  BY <1>4, <1>5

\* A text is decoded if each of its percent signs has its two digits.
LEMMA DecodePercentJudges ==
    ASSUME NEW uri, Len(uri) \in Nat
    PROVE  DecodePercent(uri).valid <=> AllLegal(uri, 1)
<1>1. PICK f : DecodePercent(uri) = f[1] /\ Decoded(uri, f, 0)
  BY DecodePercentIs, Zenon
<1>2. 1 \in Nat
  OBVIOUS
<1>3. Judged(uri, f, 1)
  BY <1>1, <1>2, DecodedJudges, Zenon
<1>4. ~Invalid.valid /\ \A t : Taken(t).valid
  BY DEF Invalid, Taken
<1>5. QED  BY <1>1, <1>3, <1>4, Zenon DEF Judged

\* What Escaped makes of a character
EscapeOf(char) == CASE char = Percent -> <<Percent, 50, 53>>
                    [] char = Colon   -> <<Percent, 51, 65>>
                    [] OTHER          -> <<char>>

\* The characters a name may have, and those of an escaped one
NameChars  == 1 .. 255
PlainChars == (1 .. 255) \ {Colon}

LEMMA EscapeForm ==
    ASSUME NEW char \in NameChars
    PROVE  /\ EscapeOf(char) \in Seq(PlainChars)
           /\ char = Percent => EscapeOf(char) = <<Percent, 50, 53>>
           /\ char = Colon => EscapeOf(char) = <<Percent, 51, 65>>
           /\ char \notin {Percent, Colon} => EscapeOf(char) = <<char>>
<1>1. CASE char = Percent
  <2>1. EscapeOf(char) = <<Percent, 50, 53>>
    BY <1>1 DEF EscapeOf, Percent, Colon
  <2>2. <<Percent, 50, 53>> \in Seq(PlainChars)
    BY DEF PlainChars, Percent, Colon
  <2>3. char # Colon
    BY <1>1 DEF Percent, Colon
  <2>4. QED  BY <1>1, <2>1, <2>2, <2>3, Zenon
<1>2. CASE char = Colon
  <2>1. EscapeOf(char) = <<Percent, 51, 65>>
    BY <1>2 DEF EscapeOf, Percent, Colon
  <2>2. <<Percent, 51, 65>> \in Seq(PlainChars)
    BY DEF PlainChars, Percent, Colon
  <2>3. char # Percent
    BY <1>2 DEF Percent, Colon
  <2>4. QED  BY <1>2, <2>1, <2>2, <2>3, Zenon
<1>3. CASE char \notin {Percent, Colon}
  <2>1. EscapeOf(char) = <<char>>
    BY <1>3 DEF EscapeOf
  <2>2. <<char>> \in Seq(PlainChars)
    BY <1>3 DEF PlainChars, NameChars
  <2>3. QED  BY <1>3, <2>1, <2>2
<1>4. QED  BY <1>1, <1>2, <1>3

\* g holds the first k steps of the concatenation.
Joined(g, p, n, k) ==
    /\ g = [i \in 1 .. n |-> g[i]]
    /\ \A i \in 1 .. k : g[i] = IF i = 1 THEN p[i] ELSE g[i - 1] \o p[i]

LEMMA JoinedOneMore ==
    ASSUME NEW p, NEW n \in Nat, NEW k \in Nat, k + 1 <= n, NEW g, Joined(g, p, n, k)
    PROVE  \E h : Joined(h, p, n, k + 1)
<1> DEFINE d == IF k + 1 = 1 THEN p[k + 1] ELSE g[k] \o p[k + 1]
           h == [i \in 1 .. n |-> IF i = k + 1 THEN d ELSE g[i]]
<1>1. k + 1 # 1 => k \in 1 .. n /\ k # k + 1
  OBVIOUS
<1>2. \A i \in 1 .. k + 1 : i \in 1 .. n /\ (i # k + 1 => i \in 1 .. k)
                            /\ (i # 1 => i - 1 \in 1 .. n /\ i - 1 # k + 1)
  OBVIOUS
<1>3. (k + 1) - 1 = k
  OBVIOUS
<1>4. \A i \in 1 .. n : h[i] = IF i = k + 1 THEN d ELSE g[i]
  BY Zenon
<1>5. h = [i \in 1 .. n |-> h[i]]
  BY Zenon
<1> HIDE DEF h
<1>6. ASSUME NEW i \in 1 .. k + 1 PROVE h[i] = IF i = 1 THEN p[i] ELSE h[i - 1] \o p[i]
  <2>1. CASE i = k + 1
    BY <1>1, <1>2, <1>3, <1>4, <2>1, Zenon
  <2>2. CASE i # k + 1
    <3>1. g[i] = IF i = 1 THEN p[i] ELSE g[i - 1] \o p[i]
      BY <1>2, <2>2, Zenon DEF Joined
    <3>2. QED  BY <1>2, <1>4, <2>2, <3>1, Zenon
  <2>3. QED  BY <2>1, <2>2
<1>7. QED  BY <1>5, <1>6, Zenon DEF Joined

LEMMA JoinedExists ==
    ASSUME NEW p, NEW n \in Nat
    PROVE  \E g : Joined(g, p, n, n)
<1> DEFINE S == {k \in 0 .. n : ~\E g : Joined(g, p, n, k)}
<1>1. S = {}
  <2> SUFFICES ASSUME S # {} PROVE FALSE
    OBVIOUS
  <2>1. PICK k \in S : \A j \in S : k <= j
    <3>1. S \in SUBSET Nat
      OBVIOUS
    <3> HIDE DEF S
    <3>2. QED  BY <3>1, LeastLength
  <2>2. k \in 0 .. n /\ ~\E g : Joined(g, p, n, k)
    OBVIOUS
  <2>3. k # 0
    <3> DEFINE g == [i \in 1 .. n |-> p]
    <3>1. g = [i \in 1 .. n |-> g[i]]
      OBVIOUS
    <3>2. 1 .. 0 = {}
      OBVIOUS
    <3> HIDE DEF g
    <3>3. Joined(g, p, n, 0)
      BY <3>1, <3>2, Zenon DEF Joined
    <3>4. QED  BY <2>2, <3>3, Zenon
  <2>4. /\ k - 1 \in Nat /\ (k - 1) + 1 = k /\ (k - 1) + 1 <= n
        /\ k - 1 \in 0 .. n /\ ~(k <= k - 1)
    BY <2>2, <2>3
  <2>5. \E g : Joined(g, p, n, k - 1)
    BY <2>1, <2>4, Zenon
  <2>6. \E g : Joined(g, p, n, (k - 1) + 1)
    BY <2>4, <2>5, JoinedOneMore, Zenon
  <2>7. QED  BY <2>2, <2>4, <2>6, Zenon
<1>2. n \in 0 .. n
  OBVIOUS
<1>3. QED  BY <1>1, <1>2, Zenon

\* FlattenSeq appends the parts one by one.
LEMMA FlattenIs ==
    ASSUME NEW p, Len(p) \in Nat, Len(p) # 0
    PROVE  \E g : Joined(g, p, Len(p), Len(p)) /\ FlattenSeq(p) = g[Len(p)]
<1> DEFINE n == Len(p)
           Of(f) == [i \in 1 .. Len(p) |-> IF i = 1 THEN p[i] ELSE f[i - 1] \o p[i]]
           flatten == CHOOSE f : f = Of(f)
<1>1. FlattenSeq(p) = flatten[n]
  BY Zenon DEF FlattenSeq
<1>2. PICK g : Joined(g, p, n, n)
  BY JoinedExists, Zenon
<1>3. g = Of(g)
  BY <1>2, Zenon DEF Joined
<1>4. flatten = Of(flatten)
  <2> HIDE DEF Of
  <2>1. QED  BY <1>3, Zenon
<1> HIDE DEF flatten
<1>5. \A i \in 1 .. n : flatten[i] = IF i = 1 THEN p[i] ELSE flatten[i - 1] \o p[i]
  BY <1>4, Zenon
<1>6. flatten = [i \in 1 .. n |-> flatten[i]]
  <2> DEFINE B(i) == IF i = 1 THEN p[i] ELSE flatten[i - 1] \o p[i]
  <2>1. flatten = [i \in 1 .. n |-> B(i)]
    BY <1>4, Zenon
  <2> HIDE DEF B
  <2>2. QED  BY <2>1, Zenon
<1>7. QED  BY <1>1, <1>5, <1>6, Zenon DEF Joined

\* e[k] is what the first k characters of a name are escaped into.
Escaping(e, name) ==
    /\ e[0] = << >>
    /\ \A k \in 1 .. Len(name) : e[k] = e[k - 1] \o EscapeOf(name[k])
    /\ Escaped(name) = e[Len(name)]

LEMMA EscapingExists ==
    ASSUME NEW name \in Seq(NameChars)
    PROVE  \E e : Escaping(e, name)
<1> DEFINE n == Len(name)
           p == [k \in DOMAIN name |-> EscapeOf(name[k])]
<1>1. n \in Nat /\ DOMAIN name = 1 .. n
  BY LenProperties, Zenon
<1>2. Escaped(name) = FlattenSeq(p)
  BY Zenon DEF Escaped, EscapeOf
<1>3. Len(p) = n /\ \A k \in 1 .. n : p[k] = EscapeOf(name[k])
  <2> DEFINE E(k) == EscapeOf(name[k])
  <2>1. p = [k \in 1 .. n |-> E(k)]
    BY <1>1, Zenon
  <2> HIDE DEF E, p, n
  <2>2. Len(p) = n /\ \A k \in 1 .. n : p[k] = E(k)
    BY <1>1, <2>1
  <2>3. QED  BY <2>2 DEF E
<1>4. CASE n = 0
  <2>1. 1 .. n = {} /\ Len(name) = 0
    BY <1>4
  <2>2. p = << >>
    <3>1. p = [k \in 1 .. n |-> EscapeOf(name[k])]
      BY <1>1, Zenon
    <3> DEFINE E(k) == EscapeOf(name[k])
    <3>2. p = [k \in 1 .. 0 |-> E(k)]
      BY <1>4, <3>1, Zenon
    <3> HIDE DEF E, p
    <3>3. QED  BY <3>2
  <2>3. FlattenSeq(p) = p
    BY <1>3, <1>4, Zenon DEF FlattenSeq
  <2> DEFINE e == [k \in {0} |-> << >>]
  <2>4. e[0] = << >>
    OBVIOUS
  <2> HIDE DEF e, p
  <2>5. Escaping(e, name)
    BY <1>2, <2>1, <2>2, <2>3, <2>4, Zenon DEF Escaping, n
  <2>6. QED  BY <2>5, Zenon
<1>5. CASE n # 0
  <2> HIDE DEF p
  <2>1. PICK g : Joined(g, p, n, n) /\ FlattenSeq(p) = g[n]
    BY <1>1, <1>3, <1>5, FlattenIs, Zenon
  <2> DEFINE e == [k \in 0 .. n |-> IF k = 0 THEN << >> ELSE g[k]]
  <2>2. /\ e[0] = << >>
        /\ \A k \in 1 .. n : e[k] = g[k] /\ (k # 1 => e[k - 1] = g[k - 1])
        /\ e[1 - 1] = << >>
        /\ n \in 1 .. n
    BY <1>1, <1>5
  <2> HIDE DEF e
  <2>3. ASSUME NEW k \in 1 .. n PROVE e[k] = e[k - 1] \o EscapeOf(name[k])
    <3>1. g[k] = IF k = 1 THEN p[k] ELSE g[k - 1] \o p[k]
      BY <2>1, Zenon DEF Joined
    <3>2. p[k] = EscapeOf(name[k])
      BY <1>3, Zenon
    <3>3. name[k] \in NameChars
      BY ElementOfSeq, Zenon DEF n
    <3>4. EscapeOf(name[k]) \in Seq(PlainChars)
      BY <3>3, EscapeForm, Zenon
    <3>5. << >> \o EscapeOf(name[k]) = EscapeOf(name[k])
      BY <3>4, ConcatEmptySeq, Zenon
    <3>6. QED  BY <2>2, <3>1, <3>2, <3>5, Zenon
  <2>4. Escaping(e, name)
    BY <1>2, <2>1, <2>2, <2>3, Zenon DEF Escaping, n
  <2>5. QED  BY <2>4, Zenon
<1>6. QED  BY <1>4, <1>5

\* What is escaped has no colon.
LEMMA EscapingPlain ==
    ASSUME NEW name \in Seq(NameChars), NEW e, Escaping(e, name)
    PROVE  \A k \in 0 .. Len(name) : e[k] \in Seq(PlainChars)
<1> DEFINE n == Len(name)
           S == {k \in 0 .. n : e[k] \notin Seq(PlainChars)}
<1>1. n \in Nat
  BY LenProperties, Zenon
<1>2. S = {}
  <2> SUFFICES ASSUME S # {} PROVE FALSE
    OBVIOUS
  <2>1. PICK k \in S : \A j \in S : k <= j
    <3>1. S \in SUBSET Nat
      BY <1>1
    <3> HIDE DEF S
    <3>2. QED  BY <3>1, LeastLength
  <2>2. k \in 0 .. n /\ e[k] \notin Seq(PlainChars)
    OBVIOUS
  <2>3. k # 0
    BY <2>2, EmptySeq, Zenon DEF Escaping
  <2>4. k \in 1 .. n /\ k - 1 \in 0 .. n /\ ~(k <= k - 1)
    BY <1>1, <2>2, <2>3
  <2>5. e[k - 1] \in Seq(PlainChars)
    BY <2>1, <2>4, Zenon
  <2>6. name[k] \in NameChars
    BY <2>4, ElementOfSeq, Zenon DEF n
  <2>7. EscapeOf(name[k]) \in Seq(PlainChars)
    BY <2>6, EscapeForm, Zenon
  <2>8. e[k] = e[k - 1] \o EscapeOf(name[k])
    BY <2>4, Zenon DEF Escaping, n
  <2>9. QED  BY <2>2, <2>5, <2>7, <2>8, ConcatProperties, Zenon
<1>3. QED  BY <1>2, Zenon DEF n

\* At the place of an escaped character the loop takes the character, and goes
\* on behind it.
LEMMA EscapeDecoded ==
    ASSUME NEW char \in NameChars, NEW s \in Seq(PlainChars), NEW t \in Seq(PlainChars), NEW uri,
           uri = s \o (EscapeOf(char) \o t)
    PROVE  LET i == Len(s) + 1
           IN  /\ i \in Nat /\ Len(uri) \in Nat /\ ~(i > Len(uri))
               /\ Legal(uri, i) /\ CharAt(uri, i) = char
               /\ After(uri, i) = Len(s \o EscapeOf(char)) + 1
<1> DEFINE x == EscapeOf(char)
           i == Len(s) + 1
<1>1. x \in Seq(PlainChars)
  BY EscapeForm, Zenon
<1>2. x \o t \in Seq(PlainChars)
  BY <1>1, ConcatProperties, Zenon
<1>3. /\ Len(uri) = Len(s) + (Len(x) + Len(t)) /\ Len(s \o x) = Len(s) + Len(x)
      /\ Len(s) \in Nat /\ Len(x) \in Nat /\ Len(t) \in Nat
  <2>1. Len(x \o t) = Len(x) + Len(t) /\ Len(s \o x) = Len(s) + Len(x)
    BY <1>1, ConcatProperties, Zenon
  <2>2. Len(uri) = Len(s) + Len(x \o t)
    BY <1>2, ConcatProperties, Zenon
  <2>3. Len(s) \in Nat /\ Len(x) \in Nat /\ Len(t) \in Nat
    BY <1>1, LenProperties, Zenon
  <2>4. QED  BY <2>1, <2>2, <2>3, Zenon
<1>4. \A k \in 1 .. Len(x) : uri[Len(s) + k] = x[k]
  <2> SUFFICES ASSUME NEW k \in 1 .. Len(x) PROVE uri[Len(s) + k] = x[k]
    OBVIOUS
  <2>1. /\ Len(s) + k \in 1 .. Len(s) + (Len(x) + Len(t)) /\ ~(Len(s) + k <= Len(s))
        /\ (Len(s) + k) - Len(s) = k /\ k \in 1 .. Len(x) + Len(t) /\ k <= Len(x)
    BY <1>3
  <2>2. Len(x \o t) = Len(x) + Len(t) /\ (x \o t)[k] = x[k]
    BY <1>1, <2>1, ConcatProperties, Zenon
  <2>3. uri[Len(s) + k] = (x \o t)[(Len(s) + k) - Len(s)]
    BY <1>2, <2>1, <2>2, ConcatProperties, Zenon
  <2>4. QED  BY <2>1, <2>2, <2>3, Zenon
<1> HIDE DEF x
<1>5. ASSUME NEW a, NEW b, x = <<Percent, a, b>>, {a, b} \subseteq HexDigits, 16 * HexValue(a) + HexValue(b) = char
      PROVE  Legal(uri, i) /\ CharAt(uri, i) = char /\ After(uri, i) = i + 3 /\ Len(x) = 3
  <2>1. Len(x) = 3 /\ x[1] = Percent /\ x[2] = a /\ x[3] = b
    BY <1>5
  <2>2. uri[i] = Percent /\ uri[i + 1] = a /\ uri[i + 2] = b /\ i + 2 <= Len(uri)
    <3>1. 1 \in 1 .. Len(x) /\ 2 \in 1 .. Len(x) /\ 3 \in 1 .. Len(x)
      BY <2>1
    <3>2. Len(s) + 2 = i + 1 /\ Len(s) + 3 = i + 2 /\ i + 2 <= Len(uri)
      BY <1>3, <2>1
    <3>3. uri[Len(s) + 1] = x[1] /\ uri[Len(s) + 2] = x[2] /\ uri[Len(s) + 3] = x[3]
      BY <1>4, <3>1, Zenon
    <3>4. QED  BY <2>1, <3>2, <3>3, Zenon
  <2>3. Legal(uri, i)
    BY <1>5, <2>2, Zenon DEF Legal
  <2>4. CharAt(uri, i) = char
    BY <1>5, <2>2, Zenon DEF CharAt
  <2>5. After(uri, i) = i + 3
    BY <2>2, Zenon DEF After
  <2>6. QED  BY <2>1, <2>3, <2>4, <2>5
<1>6. Legal(uri, i) /\ CharAt(uri, i) = char /\ After(uri, i) = i + Len(x) /\ Len(x) >= 1
  <2>1. CASE char = Percent
    <3>1. x = <<Percent, 50, 53>>
      BY <2>1, EscapeForm, Zenon DEF x
    <3>2. {50, 53} \subseteq HexDigits /\ 16 * HexValue(50) + HexValue(53) = char
      BY <2>1 DEF HexDigits, HexValue, Percent
    <3>3. QED  BY <1>5, <3>1, <3>2
  <2>2. CASE char = Colon
    <3>1. x = <<Percent, 51, 65>>
      BY <2>2, EscapeForm, Zenon DEF x
    <3>2. {51, 65} \subseteq HexDigits /\ 16 * HexValue(51) + HexValue(65) = char
      BY <2>2 DEF HexDigits, HexValue, Colon
    <3>3. QED  BY <1>5, <3>1, <3>2
  <2>3. CASE char \notin {Percent, Colon}
    <3>1. x = <<char>>
      BY <2>3, EscapeForm, Zenon DEF x
    <3>2. Len(x) = 1 /\ x[1] = char /\ 1 \in 1 .. Len(x)
      BY <3>1
    <3>3. uri[i] = char /\ char # Percent
      BY <1>4, <2>3, <3>2, Zenon
    <3>4. Legal(uri, i) /\ CharAt(uri, i) = char /\ After(uri, i) = i + 1
      BY <3>3, Zenon DEF Legal, CharAt, After
    <3>5. QED  BY <3>2, <3>4
  <2>4. QED  BY <2>1, <2>2, <2>3
<1>7. /\ i \in Nat /\ Len(uri) \in Nat /\ ~(i > Len(uri))
      /\ i + Len(x) = Len(s \o x) + 1
  BY <1>3, <1>6
<1>8. QED  BY <1>6, <1>7, Zenon DEF x

\* Behind the first k characters the loop takes the others.
Returned(e, f, name, k) ==
    \E t \in Seq(PlainChars) :
        /\ Escaped(name) = e[k] \o t
        /\ f[Len(e[k]) + 1] = Taken(SubSeq(name, k + 1, Len(name)))

LEMMA ReturnedOneMore ==
    ASSUME NEW name \in Seq(NameChars), NEW e, Escaping(e, name), NEW f, Decoded(Escaped(name), f, 0),
           NEW k \in 1 .. Len(name), Returned(e, f, name, k)
    PROVE  Returned(e, f, name, k - 1)
<1> DEFINE n == Len(name)
           x == EscapeOf(name[k])
           s == e[k - 1]
           E == Escaped(name)
<1>1. n \in Nat /\ k - 1 \in 0 .. n /\ (k - 1) + 1 = k /\ n \in k .. n
  BY LenProperties
<1>2. name[k] \in NameChars
  BY ElementOfSeq, Zenon
<1>3. s \in Seq(PlainChars) /\ x \in Seq(PlainChars)
  BY <1>1, <1>2, EscapingPlain, EscapeForm, Zenon
<1>4. e[k] = s \o x
  BY Zenon DEF Escaping
<1>5. PICK t \in Seq(PlainChars) : E = e[k] \o t /\ f[Len(e[k]) + 1] = Taken(SubSeq(name, k + 1, n))
  BY Zenon DEF Returned
<1>6. E = s \o (x \o t)
  <2>1. (s \o x) \o t = s \o (x \o t)
    <3>1. \A p, q, r \in Seq(PlainChars) : (p \o q) \o r = p \o (q \o r)
      BY ConcatAssociative, SMTT(40)
    <3>2. s \in Seq(PlainChars) /\ x \in Seq(PlainChars) /\ t \in Seq(PlainChars)
      BY <1>3
    <3> HIDE DEF s, x
    <3>3. QED  BY <3>1, <3>2, Zenon
  <2>2. QED  BY <1>4, <1>5, <2>1, Zenon
<1>7. /\ Len(s) + 1 \in Nat /\ Len(E) \in Nat /\ ~(Len(s) + 1 > Len(E))
      /\ Legal(E, Len(s) + 1) /\ CharAt(E, Len(s) + 1) = name[k]
      /\ After(E, Len(s) + 1) = Len(e[k]) + 1
  <2>1. E = s \o (EscapeOf(name[k]) \o t) /\ e[k] = s \o EscapeOf(name[k])
    BY <1>4, <1>6
  <2>2. s \in Seq(PlainChars) /\ t \in Seq(PlainChars)
    BY <1>3
  <2> HIDE DEF E, s
  <2>3. LET i == Len(s) + 1
        IN  /\ i \in Nat /\ Len(E) \in Nat /\ ~(i > Len(E))
            /\ Legal(E, i) /\ CharAt(E, i) = name[k]
            /\ After(E, i) = Len(s \o EscapeOf(name[k])) + 1
    BY <1>2, <2>1, <2>2, EscapeDecoded, Zenon
  <2>4. QED  BY <2>1, <2>3, Zenon
<1>8. f[Len(s) + 1] = Taken(<<name[k]>> \o SubSeq(name, k + 1, n))
  <2>1. Decoded(E, f, 0)
    OBVIOUS
  <2> DEFINE i == Len(s) + 1
             rest == SubSeq(name, k + 1, n)
  <2>2. i \in Nat /\ Len(E) \in Nat /\ ~(i > Len(E)) /\ Legal(E, i)
    BY <1>7
  <2>3. f[After(E, i)] = Taken(rest) /\ CharAt(E, i) = name[k]
    BY <1>5, <1>7, Zenon
  <2> HIDE DEF E, i, rest
  <2>4. \A r : f[After(E, i)] = Taken(r) => f[i] = Taken(<<CharAt(E, i)>> \o r)
    BY <2>1, <2>2, DecodedSteps, Zenon
  <2>5. f[i] = Taken(<<name[k]>> \o rest)
    BY <2>3, <2>4, Zenon
  <2>6. QED  BY <2>5 DEF i, rest
<1>9. SubSeq(name, k, n) = <<name[k]>> \o SubSeq(name, k + 1, n)
  BY <1>1, SubSeqRecursiveFirst, Zenon
<1>10. x \o t \in Seq(PlainChars)
  BY <1>3, ConcatProperties, Zenon
<1>11. QED  BY <1>1, <1>6, <1>8, <1>9, <1>10, Zenon DEF Returned

LEMMA EscapedDecoded ==
    ASSUME NEW name \in Seq(NameChars)
    PROVE  Escaped(name) \in Seq(PlainChars) /\ DecodePercent(Escaped(name)) = Taken(name)
<1> DEFINE n == Len(name)
           E == Escaped(name)
<1>1. PICK e : Escaping(e, name)
  BY EscapingExists, Zenon
<1>2. n \in Nat /\ n \in 0 .. n /\ 0 \in 0 .. n
  BY LenProperties
<1>3. E = e[n] /\ E \in Seq(PlainChars)
  BY <1>1, <1>2, EscapingPlain, Zenon DEF Escaping
<1>4. Len(E) \in Nat
  BY <1>3, LenProperties, Zenon
<1>5. PICK f : DecodePercent(E) = f[1] /\ Decoded(E, f, 0)
  BY <1>4, DecodePercentIs, Zenon
<1>6. Returned(e, f, name, n)
  <2>1. << >> \in Seq(PlainChars) /\ E = e[n] \o << >>
    BY <1>3, EmptySeq, ConcatEmptySeq, Zenon
  <2>2. Len(E) + 1 \in Nat /\ Len(E) + 1 > Len(E)
    BY <1>4
  <2>3. f[Len(E) + 1] = Taken(<< >>)
    BY <1>4, <1>5, <2>2, DecodedSteps, Zenon
  <2>4. SubSeq(name, n + 1, n) = << >>
    <3>1. n + 1 \in Int /\ n \in Int /\ n < n + 1
      BY <1>2
    <3>2. QED  BY <3>1, SubSeqEmpty, Zenon
  <2>5. QED  BY <1>3, <2>1, <2>3, <2>4, Zenon DEF Returned
<1> DEFINE S == {k \in 0 .. n : Returned(e, f, name, k)}
<1>7. PICK k \in S : \A j \in S : k <= j
  <2>1. S \in SUBSET Nat /\ S # {}
    BY <1>2, <1>6
  <2> HIDE DEF S
  <2>2. QED  BY <2>1, LeastLength
<1>8. k = 0
  <2> SUFFICES ASSUME k # 0 PROVE FALSE
    OBVIOUS
  <2>1. k \in 1 .. n /\ k - 1 \in 0 .. n /\ ~(k <= k - 1)
    BY <1>2
  <2>2. Returned(e, f, name, k - 1)
    BY <1>1, <1>5, <2>1, ReturnedOneMore, Zenon
  <2>3. QED  BY <1>7, <2>1, <2>2
<1>9. Returned(e, f, name, 0)
  BY <1>8
<1>10. Len(e[0]) + 1 = 1 /\ 0 + 1 = 1
  <2>1. e[0] = << >>
    BY <1>1, Zenon DEF Escaping
  <2>2. QED  BY <2>1
<1>11. f[1] = Taken(SubSeq(name, 1, n))
  BY <1>9, <1>10, Zenon DEF Returned
<1>12. SubSeq(name, 1, n) = name
  BY SubSeqFull, Zenon
<1>13. QED  BY <1>3, <1>5, <1>11, <1>12, Zenon

\* Nothing of a name is lost to a terminating zero.
LEMMA NameUpToNul ==
    ASSUME NEW name \in Seq(NameChars)
    PROVE  UpToNul(name) = name
<1>1. DOMAIN name = 1 .. Len(name)
  BY LenProperties, Zenon
<1>2. 0 \notin NameChars
  BY DEF NameChars
<1>3. {k \in DOMAIN name : name[k] = 0} = {}
  BY <1>1, <1>2, ElementOfSeq, Zenon
<1>4. QED  BY <1>3, SubSeqFull, Zenon DEF UpToNul

Colons(info) == {k \in DOMAIN info : info[k] = Colon}

\* A text without a colon is all user name.
LEMMA NoColon ==
    ASSUME NEW a \in Seq(PlainChars)
    PROVE  /\ Colons(a) = {}
           /\ SubSeq(a, 1, (Len(a) + 1) - 1) = a
           /\ SubSeq(a, (Len(a) + 1) + 1, Len(a)) = << >>
<1>1. DOMAIN a = 1 .. Len(a) /\ Len(a) \in Nat
  BY LenProperties, Zenon
<1>2. Colons(a) = {}
  <2>1. Colon \notin PlainChars
    BY DEF PlainChars
  <2>2. QED  BY <1>1, <2>1, ElementOfSeq, Zenon DEF Colons
<1>3. (Len(a) + 1) - 1 = Len(a) /\ (Len(a) + 1) + 1 \in Int /\ Len(a) \in Int /\ Len(a) < (Len(a) + 1) + 1
  BY <1>1
<1>4. QED  BY <1>2, <1>3, SubSeqFull, SubSeqEmpty, Zenon

LEMMA SeqWidens ==
    ASSUME NEW S, NEW T, S \subseteq T, NEW s \in Seq(S)
    PROVE  s \in Seq(T)
<1>1. PICK m \in Nat : s \in [1 .. m -> S]
  BY SeqDef
<1>2. s \in [1 .. m -> T]
  BY <1>1
<1>3. QED  BY <1>1, <1>2, SeqDef

LEMMA CutText ==
    ASSUME NEW S, NEW text \in Seq(S), NEW at \in 1 .. Len(text) + 1, NEW last \in at - 1 .. Len(text)
    PROVE  /\ SubSeq(text, at, last) \in Seq(S) /\ Len(SubSeq(text, at, last)) = last - at + 1
           /\ \A k \in 1 .. last - at + 1 : SubSeq(text, at, last)[k] = text[at + k - 1]
BY SubSeqProperties

UserInfo(a, b) == a \o <<Colon>> \o b

\* A text is split at its first colon.
LEMMA FirstColon ==
    ASSUME NEW a \in Seq(PlainChars), NEW b \in Seq(0 .. 255)
    PROVE  /\ Colons(UserInfo(a, b)) # {} /\ Min(Colons(UserInfo(a, b))) = Len(a) + 1
           /\ SubSeq(UserInfo(a, b), 1, (Len(a) + 1) - 1) = a
           /\ SubSeq(UserInfo(a, b), (Len(a) + 1) + 1, Len(UserInfo(a, b))) = b
<1> DEFINE info == UserInfo(a, b)
           n == Len(a)
           C == 0 .. 255
           colons == {k \in DOMAIN info : info[k] = Colon}
<1>1. a \in Seq(C) /\ <<Colon>> \in Seq(C) /\ b \in Seq(C)
  <2>1. PlainChars \subseteq C /\ Colon \in C
    BY DEF PlainChars, Colon
  <2>2. a \in Seq(C)
    BY <2>1, SeqWidens, ZenonT(60)
  <2>3. <<Colon>> \in Seq(C)
    BY <2>1
  <2>4. QED  BY <2>2, <2>3
<1>2. Len(a) \in Nat /\ Len(b) \in Nat /\ Len(<<Colon>>) = 1
  BY LenProperties
<1>3. /\ a \o <<Colon>> \in Seq(C) /\ Len(a \o <<Colon>>) = n + 1
      /\ (a \o <<Colon>>)[n + 1] = Colon
      /\ \A k \in 1 .. n : (a \o <<Colon>>)[k] = a[k]
  BY <1>1, <1>2
<1>4. /\ info \in Seq(C) /\ Len(info) = n + 1 + Len(b) /\ DOMAIN info = 1 .. n + 1 + Len(b)
      /\ info[n + 1] = Colon
      /\ \A k \in 1 .. n : info[k] = a[k]
      /\ \A k \in 1 .. Len(b) : info[n + 1 + k] = b[k]
  <2> DEFINE c == a \o <<Colon>>
  <2>1. c \in Seq(C) /\ Len(c) = n + 1 /\ info = c \o b
    BY <1>3 DEF UserInfo
  <2> HIDE DEF c, info, n
  <2>2. /\ info \in Seq(C) /\ Len(info) = n + 1 + Len(b)
        /\ \A k \in 1 .. n + 1 + Len(b) : info[k] = IF k <= n + 1 THEN c[k] ELSE b[k - (n + 1)]
    <3>1. /\ c \o b \in Seq(C) /\ Len(c \o b) = Len(c) + Len(b)
          /\ \A k \in 1 .. Len(c) + Len(b) : (c \o b)[k] = IF k <= Len(c) THEN c[k] ELSE b[k - Len(c)]
      <4>1. c \in Seq(C) /\ b \in Seq(C)
        BY <1>1, <2>1
      <4> HIDE DEF C
      <4>2. QED  BY <4>1, ConcatProperties, ZenonT(60)
    <3>2. QED  BY <2>1, <3>1, Zenon
  <2>3. DOMAIN info = 1 .. n + 1 + Len(b)
    BY <2>2, LenProperties
  <2>4. c[n + 1] = Colon /\ \A k \in 1 .. n : c[k] = a[k]
    BY <1>3 DEF c
  <2>5. /\ info[n + 1] = c[n + 1] /\ \A k \in 1 .. n : info[k] = c[k]
        /\ \A k \in 1 .. Len(b) : info[n + 1 + k] = b[k]
    <3>1. n \in Nat
      BY <1>2 DEF n
    <3>2. QED  BY <1>2, <2>2, <3>1
  <2>6. QED  BY <2>2, <2>3, <2>4, <2>5
<1>5. \A k \in 1 .. n : a[k] # Colon
  <2>1. Colon \notin PlainChars
    BY DEF PlainChars
  <2>2. QED  BY <2>1, ElementOfSeq, Zenon DEF n
<1>6. n + 1 \in colons /\ \A k \in colons : n + 1 <= k
  <2>1. n + 1 \in colons
    BY <1>2, <1>4
  <2>2. ASSUME NEW k \in colons PROVE n + 1 <= k
    <3>1. k \in 1 .. n + 1 + Len(b) /\ info[k] = Colon
      BY <1>4
    <3>2. k \notin 1 .. n
      BY <1>4, <1>5, <3>1, Zenon
    <3>3. QED  BY <1>2, <3>1, <3>2
  <2>3. QED  BY <2>1, <2>2
<1>7. Min(colons) = n + 1
  <2>1. Min(colons) \in colons /\ \A y \in colons : Min(colons) <= y
    <3> HIDE DEF colons
    <3>1. QED  BY <1>6, Zenon DEF Min
  <2>2. colons \subseteq Int
    BY <1>2, <1>4
  <2> DEFINE m == Min(colons)
  <2>3. m \in Int /\ m <= n + 1 /\ n + 1 <= m
    <3> HIDE DEF colons
    <3>1. QED  BY <1>6, <2>1, <2>2
  <2> HIDE DEF m
  <2>4. m = n + 1
    BY <1>2, <2>3
  <2>5. QED  BY <2>4 DEF m
<1>8. SubSeq(info, 1, (n + 1) - 1) = a
  <2>1. (n + 1) - 1 = n
    BY <1>2
  <2>2. SubSeq(info, 1, n) = a
    BY <1>1, <1>2, <1>4
  <2>3. QED  BY <2>1, <2>2
<1>9. SubSeq(info, (n + 1) + 1, Len(info)) = b
  <2> DEFINE from == (n + 1) + 1
             to == Len(info)
             s == SubSeq(info, from, to)
  <2>1. from \in 1 .. Len(info) + 1 /\ to \in from - 1 .. Len(info)
    BY <1>2, <1>4
  <2>2. /\ s \in Seq(C) /\ Len(s) = to - from + 1
        /\ \A k \in 1 .. to - from + 1 : s[k] = info[from + k - 1]
    <3>1. \A c \in Seq(C) : \A i \in 1 .. Len(c) + 1 : \A j \in i - 1 .. Len(c) :
             /\ SubSeq(c, i, j) \in Seq(C) /\ Len(SubSeq(c, i, j)) = j - i + 1
             /\ \A k \in 1 .. j - i + 1 : SubSeq(c, i, j)[k] = c[i + k - 1]
      BY CutText, Zenon
    <3>2. info \in Seq(C)
      BY <1>4
    <3> HIDE DEF from, to, C
    <3>3. QED  BY <2>1, <3>1, <3>2, Zenon
  <2>3. Len(s) = Len(b) /\ to - from + 1 = Len(b) /\ \A k \in 1 .. Len(b) : from + k - 1 = n + 1 + k
    BY <1>2, <1>4, <2>2
  <2> HIDE DEF s, from, to
  <2>4. \A k \in 1 .. Len(s) : s[k] = b[k]
    BY <1>4, <2>2, <2>3
  <2>5. s = b
    BY <1>1, <2>2, <2>3, <2>4, SeqEqual
  <2>6. QED  BY <2>5 DEF s, from, to
<1>10. QED  BY <1>6, <1>7, <1>8, <1>9, Zenon DEF Colons

LEMMA Answers ==
    ASSUME NEW a, NEW b, NEW c
    PROVE  <<a, b>> \o << >> = <<a, b>> /\ <<a, b>> \o <<c>> = <<a, b, c>>
<1> DEFINE S == {a, b, c}
           u == <<a, b>>
           v == u \o <<c>>
           w == <<a, b, c>>
<1>1. /\ u \in Seq(S) /\ Len(u) = 2 /\ u[1] = a /\ u[2] = b
      /\ <<c>> \in Seq(S) /\ Len(<<c>>) = 1 /\ <<c>>[1] = c
      /\ w \in Seq(S) /\ Len(w) = 3 /\ w[1] = a /\ w[2] = b /\ w[3] = c
  OBVIOUS
<1> HIDE DEF u, w
<1>2. u \o << >> = u
  BY <1>1, ConcatEmptySeq, Zenon
<1>3. /\ v \in Seq(S) /\ Len(v) = Len(u) + Len(<<c>>)
      /\ \A i \in 1 .. Len(u) + Len(<<c>>) : v[i] = IF i <= Len(u) THEN u[i] ELSE <<c>>[i - Len(u)]
  BY <1>1, ConcatProperties, ZenonT(60)
<1>4. /\ Len(v) = Len(w)
      /\ \A i \in 1 .. Len(v) : v[i] = w[i]
  <2> HIDE DEF v, S
  <2>1. Len(v) = 3 /\ v[1] = a /\ v[2] = b /\ v[3] = c
    BY <1>1, <1>3
  <2>2. \A i \in 1 .. 3 : i = 1 \/ i = 2 \/ i = 3
    OBVIOUS
  <2>3. QED  BY <1>1, <2>1, <2>2
<1>5. v = w
  <2> HIDE DEF v, S
  <2>1. QED  BY <1>1, <1>3, <1>4, SeqEqual
<1>6. QED  BY <1>2, <1>5 DEF u, v, w

\* The user info as set_uri sees it, split at c
Split(info, c) ==
    c = IF Colons(info) = {} THEN Len(info) + 1 ELSE Min(Colons(info))

LEMMA CredentialsOf ==
    ASSUME NEW info, NEW c, Split(info, c), NEW a, NEW b,
           a = DecodePercent(SubSeq(info, 1, c - 1)), b = DecodePercent(SubSeq(info, c + 1, Len(info)))
    PROVE  /\ ~a.valid \/ ~b.valid => Credentials(info) = <<FALSE>>
           /\ a.valid /\ b.valid /\ Colons(info) = {} => Credentials(info) = <<TRUE, UpToNul(a.text)>>
           /\ a.valid /\ b.valid /\ Colons(info) # {} =>
                 Credentials(info) = <<TRUE, UpToNul(a.text), UpToNul(b.text)>>
<1> DEFINE colons == Colons(info)
           split == IF colons = {} THEN Len(info) + 1 ELSE Min(colons)
<1>1. c = split
  BY Zenon DEF Split
<1>2. Credentials(info) =
        IF ~DecodePercent(SubSeq(info, 1, split - 1)).valid \/ ~DecodePercent(SubSeq(info, split + 1, Len(info))).valid
        THEN <<FALSE>>
        ELSE <<TRUE, UpToNul(DecodePercent(SubSeq(info, 1, split - 1)).text)>>
             \o (IF colons = {} THEN << >>
                 ELSE <<UpToNul(DecodePercent(SubSeq(info, split + 1, Len(info))).text)>>)
  BY Zenon DEF Credentials, Colons
<1> HIDE DEF split, colons
<1>3. Credentials(info) =
        IF ~a.valid \/ ~b.valid THEN <<FALSE>>
        ELSE <<TRUE, UpToNul(a.text)>> \o (IF colons = {} THEN << >> ELSE <<UpToNul(b.text)>>)
  BY <1>1, <1>2, Zenon
<1>4. /\ <<TRUE, UpToNul(a.text)>> \o << >> = <<TRUE, UpToNul(a.text)>>
      /\ <<TRUE, UpToNul(a.text)>> \o <<UpToNul(b.text)>> = <<TRUE, UpToNul(a.text), UpToNul(b.text)>>
  BY Answers, Zenon
<1>5. QED  BY <1>3, <1>4, Zenon DEF colons

\* Any user name and password come back from the URI they were escaped into, colons
\* and percent signs included, also if there is no password (mqtt_client.c:1190-1213,
\* lib/mqtt_utils/mqtt_utils.c:34-50).
THEOREM CredentialsReturn ==
    ASSUME NEW user \in Seq(1 .. 255), NEW pass \in Seq(1 .. 255)
    PROVE  /\ Credentials(Escaped(user) \o <<Colon>> \o Escaped(pass)) = <<TRUE, user, pass>>
           /\ Credentials(Escaped(user)) = <<TRUE, user>>
<1> DEFINE u == Escaped(user)
           v == Escaped(pass)
           uri == UserInfo(u, v)
<1>1. user \in Seq(NameChars) /\ pass \in Seq(NameChars)
  BY Zenon DEF NameChars
<1>2. /\ u \in Seq(PlainChars) /\ DecodePercent(u) = Taken(user)
      /\ v \in Seq(PlainChars) /\ DecodePercent(v) = Taken(pass)
  BY <1>1, EscapedDecoded, Zenon
<1>3. UpToNul(user) = user /\ UpToNul(pass) = pass
  BY <1>1, NameUpToNul, Zenon
<1>4. \A t : Taken(t).valid /\ Taken(t).text = t
  BY DEF Taken
<1> HIDE DEF u, v
<1>5. v \in Seq(0 .. 255)
  <2>1. PlainChars \subseteq 0 .. 255
    BY DEF PlainChars
  <2>2. \A q \in Seq(PlainChars) : q \in Seq(0 .. 255)
    BY <2>1, SeqWidens, ZenonT(60)
  <2>3. QED  BY <1>2, <2>2, Zenon
<1>6. Credentials(uri) = <<TRUE, user, pass>>
  <2> DEFINE m == Len(u) + 1
  <2>1. /\ Colons(uri) # {} /\ Min(Colons(uri)) = m
        /\ SubSeq(uri, 1, m - 1) = u /\ SubSeq(uri, m + 1, Len(uri)) = v
    <3>1. \A p \in Seq(PlainChars), q \in Seq(0 .. 255) :
             /\ Colons(UserInfo(p, q)) # {} /\ Min(Colons(UserInfo(p, q))) = Len(p) + 1
             /\ SubSeq(UserInfo(p, q), 1, (Len(p) + 1) - 1) = p
             /\ SubSeq(UserInfo(p, q), (Len(p) + 1) + 1, Len(UserInfo(p, q))) = q
      BY FirstColon, Zenon
    <3>2. u \in Seq(PlainChars)
      BY <1>2
    <3>3. QED  BY <1>5, <3>1, <3>2, Zenon
  <2> HIDE DEF m, uri
  <2>2. Split(uri, m)
    BY <2>1, Zenon DEF Split
  <2>3. Taken(user) = DecodePercent(SubSeq(uri, 1, m - 1)) /\ Taken(pass) = DecodePercent(SubSeq(uri, m + 1, Len(uri)))
    BY <1>2, <2>1, Zenon
  <2>4. Taken(user).valid /\ Taken(pass).valid /\ Taken(user).text = user /\ Taken(pass).text = pass
    BY <1>4, Zenon
  <2>5. Credentials(uri) = <<TRUE, UpToNul(Taken(user).text), UpToNul(Taken(pass).text)>>
    BY <2>1, <2>2, <2>3, <2>4, CredentialsOf, Zenon
  <2>6. QED  BY <1>3, <2>4, <2>5, Zenon
<1>7. Credentials(u) = <<TRUE, user>>
  <2> DEFINE m == Len(u) + 1
             e == DecodePercent(<< >>)
  <2>1. /\ Colons(u) = {}
        /\ SubSeq(u, 1, m - 1) = u /\ SubSeq(u, m + 1, Len(u)) = << >>
    BY <1>2, NoColon, Zenon
  <2>2. e.valid
    <3>1. Len(<< >>) = 0 /\ 0 \in Nat /\ 1 .. 0 = {}
      OBVIOUS
    <3>2. AllLegal(<< >>, 1)
      BY <3>1, Zenon DEF AllLegal
    <3>3. QED  BY <3>1, <3>2, DecodePercentJudges, Zenon
  <2> HIDE DEF m, e
  <2>3. Split(u, m)
    BY <2>1, Zenon DEF Split, m
  <2>4. Taken(user) = DecodePercent(SubSeq(u, 1, m - 1)) /\ e = DecodePercent(SubSeq(u, m + 1, Len(u)))
    BY <1>2, <2>1, Zenon DEF e
  <2>5. Taken(user).valid /\ Taken(user).text = user
    BY <1>4, Zenon
  <2>6. Credentials(u) = <<TRUE, UpToNul(Taken(user).text)>>
    BY <2>1, <2>2, <2>3, <2>4, <2>5, CredentialsOf, Zenon
  <2>7. QED  BY <1>3, <2>5, <2>6, Zenon
<1>8. QED  BY <1>6, <1>7, Zenon DEF u, v, UserInfo

\* Where a text is split, and its two sides
Sides(text, c, a, b) ==
    /\ c \in 1 .. Len(text) + 1 /\ (c <= Len(text) => text[c] = Colon)
    /\ Len(a) = c - 1 /\ \A k \in 1 .. c - 1 : a[k] = text[k]
    /\ Len(b) = (IF c <= Len(text) THEN Len(text) - c ELSE 0) /\ \A k \in 1 .. Len(b) : b[k] = text[c + k]

LEMMA SidesOf ==
    ASSUME NEW text \in Seq(0 .. 255), NEW c, Split(text, c)
    PROVE  Sides(text, c, SubSeq(text, 1, c - 1), SubSeq(text, c + 1, Len(text)))
<1> DEFINE n == Len(text)
           C == 0 .. 255
           a == SubSeq(text, 1, c - 1)
           b == SubSeq(text, c + 1, Len(text))
           colons == Colons(text)
<1>1. n \in Nat /\ DOMAIN text = 1 .. n
  BY LenProperties
<1>2. c \in 1 .. n + 1 /\ (c <= n => text[c] = Colon)
  <2>1. c = IF colons = {} THEN n + 1 ELSE Min(colons)
    BY Zenon DEF Split
  <2>2. colons \subseteq 1 .. n /\ \A k \in colons : text[k] = Colon
    BY <1>1 DEF Colons
  <2> HIDE DEF colons, n
  <2>3. CASE colons = {}
    <3>1. c = n + 1
      BY <2>1, <2>3
    <3>2. QED  BY <1>1, <3>1
  <2>4. CASE colons # {}
    <3>1. colons \in SUBSET Nat
      BY <1>1, <2>2
    <3>2. \E m \in colons : \A k \in colons : m <= k
      BY <2>4, <3>1, LeastLength, Zenon
    <3>3. Min(colons) \in colons
      BY <3>2, Zenon DEF Min
    <3>4. c \in 1 .. n /\ text[c] = Colon
      BY <2>1, <2>2, <2>4, <3>3, Zenon
    <3>5. QED  BY <1>1, <3>4
  <2>5. QED  BY <2>3, <2>4
<1>3. Len(a) = c - 1 /\ \A k \in 1 .. c - 1 : a[k] = text[k]
  <2>1. 1 \in 1 .. Len(text) + 1 /\ c - 1 \in 1 - 1 .. Len(text)
    BY <1>1, <1>2
  <2>2. Len(a) = c - 1 - 1 + 1 /\ \A k \in 1 .. c - 1 - 1 + 1 : a[k] = text[1 + k - 1]
    BY <2>1, CutText, ZenonT(60)
  <2>3. c \in Int /\ c - 1 - 1 + 1 = c - 1 /\ \A k \in 1 .. c - 1 : 1 + k - 1 = k
    BY <1>2
  <2> HIDE DEF a
  <2>4. QED  BY <2>2, <2>3
<1>4. Len(b) = (IF c <= n THEN n - c ELSE 0) /\ \A k \in 1 .. Len(b) : b[k] = text[c + k]
  <2>1. CASE c <= n
    <3>1. c + 1 \in 1 .. Len(text) + 1 /\ Len(text) \in (c + 1) - 1 .. Len(text)
      BY <1>1, <1>2, <2>1
    <3>2. Len(b) = n - (c + 1) + 1 /\ \A k \in 1 .. n - (c + 1) + 1 : b[k] = text[c + 1 + k - 1]
      BY <3>1, CutText, ZenonT(60)
    <3>3. n - (c + 1) + 1 = n - c /\ \A k \in 1 .. n - c : c + 1 + k - 1 = c + k
      BY <1>1, <1>2
    <3> HIDE DEF b, n
    <3>4. QED  BY <2>1, <3>2, <3>3
  <2>2. CASE ~(c <= n)
    <3>1. c + 1 \in Int /\ Len(text) \in Int /\ Len(text) < c + 1
      BY <1>1, <1>2, <2>2
    <3>2. b = << >>
      BY <3>1, SubSeqEmpty, Zenon
    <3>3. Len(b) = 0 /\ 1 .. 0 = {}
      <4> HIDE DEF b
      <4>1. QED  BY <3>2
    <3>4. QED  BY <2>2, <3>3, Zenon
  <2>3. QED  BY <2>1, <2>2
<1>5. QED  BY <1>2, <1>3, <1>4, Zenon DEF Sides

\* No escape reaches across a colon.
LEMMA LegalBySides ==
    ASSUME NEW text, Len(text) \in Nat, NEW c, NEW a, NEW b, Sides(text, c, a, b)
    PROVE  AllLegal(text, 1) <=> AllLegal(a, 1) /\ AllLegal(b, 1)
<1> DEFINE n == Len(text)
<1>1. Colon \notin HexDigits /\ Colon # Percent
  BY DEF Colon, Percent, HexDigits
<1>2. /\ c \in 1 .. n + 1 /\ (c <= n => text[c] = Colon)
      /\ Len(a) = c - 1 /\ \A k \in 1 .. c - 1 : a[k] = text[k]
      /\ Len(b) = (IF c <= n THEN n - c ELSE 0) /\ \A k \in 1 .. Len(b) : b[k] = text[c + k]
  BY Zenon DEF Sides
<1>3. n \in Nat /\ c \in Nat /\ Len(a) \in Nat /\ Len(b) \in Nat
  BY <1>2
<1> HIDE DEF n
<1>4. ASSUME NEW i \in 1 .. Len(a) PROVE Legal(text, i) <=> Legal(a, i)
  <2>1. i \in 1 .. c - 1 /\ i <= c - 1 /\ a[i] = text[i]
    BY <1>2, <1>3
  <2>2. CASE i + 2 <= c - 1
    <3>1. i + 1 \in 1 .. c - 1 /\ i + 2 \in 1 .. c - 1 /\ i + 2 <= n /\ i + 2 <= Len(a)
      BY <1>2, <1>3, <2>1, <2>2
    <3>2. a[i + 1] = text[i + 1] /\ a[i + 2] = text[i + 2]
      BY <1>2, <3>1, Zenon
    <3>3. QED  BY <2>1, <3>1, <3>2, Zenon DEF Legal, n
  <2>3. CASE ~(i + 2 <= c - 1)
    <3>1. ~(i + 2 <= Len(a))
      BY <1>2, <2>3, Zenon
    <3>2. i + 2 <= n => c <= n /\ (c = i + 1 \/ c = i + 2)
      BY <1>3, <2>1, <2>3
    <3>3. i + 2 <= n => text[i + 1] = Colon \/ text[i + 2] = Colon
      BY <1>2, <3>2, Zenon
    <3>4. ~(i + 2 <= n /\ {text[i + 1], text[i + 2]} \subseteq HexDigits)
      BY <1>1, <3>3
    <3>5. QED  BY <2>1, <3>1, <3>4, Zenon DEF Legal, n
  <2>4. QED  BY <2>2, <2>3
<1>5. ASSUME NEW i \in 1 .. Len(b) PROVE Legal(text, c + i) <=> Legal(b, i)
  <2>1. b[i] = text[c + i] /\ c <= n /\ Len(b) = n - c
    BY <1>2, <1>3
  <2>2. (c + i) + 2 <= n <=> i + 2 <= Len(b)
    BY <1>3, <2>1
  <2>3. i + 2 <= Len(b) => b[i + 1] = text[c + i + 1] /\ b[i + 2] = text[c + i + 2]
    <3>1. /\ c + (i + 1) = c + i + 1 /\ c + (i + 2) = c + i + 2
          /\ i + 2 <= Len(b) => i + 1 \in 1 .. Len(b) /\ i + 2 \in 1 .. Len(b)
      BY <1>3
    <3>2. \A k \in 1 .. Len(b) : b[k] = text[c + k]
      BY <1>2
    <3>3. ASSUME i + 2 <= Len(b) PROVE b[i + 1] = text[c + (i + 1)] /\ b[i + 2] = text[c + (i + 2)]
      BY <3>1, <3>2, <3>3, Zenon
    <3>4. QED  BY <3>1, <3>3, Zenon
  <2>4. QED  BY <2>1, <2>2, <2>3, Zenon DEF Legal, n
<1>6. c <= n => Legal(text, c)
  BY <1>1, <1>2, Zenon DEF Legal
<1>7. \A i \in 1 .. n : i \in 1 .. Len(a) \/ (i = c /\ c <= n) \/ (i - c \in 1 .. Len(b) /\ c + (i - c) = i)
  BY <1>2, <1>3
<1>8. \A i \in 1 .. Len(a) : i \in 1 .. n
  BY <1>2, <1>3
<1>9. \A i \in 1 .. Len(b) : c + i \in 1 .. n
  BY <1>2, <1>3
<1>10. ASSUME AllLegal(text, 1) PROVE AllLegal(a, 1) /\ AllLegal(b, 1)
  BY <1>4, <1>5, <1>8, <1>9, <1>10, Zenon DEF AllLegal, n
<1>11. ASSUME AllLegal(a, 1), AllLegal(b, 1) PROVE AllLegal(text, 1)
  <2> SUFFICES ASSUME NEW i \in 1 .. n PROVE Legal(text, i)
    BY Zenon DEF AllLegal, n
  <2>1. CASE i \in 1 .. Len(a)
    BY <1>4, <1>11, <2>1, Zenon DEF AllLegal
  <2>2. CASE i = c /\ c <= n
    BY <1>6, <2>2, Zenon
  <2>3. CASE i - c \in 1 .. Len(b) /\ c + (i - c) = i
    <3>1. Legal(b, i - c)
      BY <1>11, <2>3, Zenon DEF AllLegal
    <3>2. Legal(text, c + (i - c))
      BY <1>5, <2>3, <3>1, Zenon
    <3>3. QED  BY <2>3, <3>2, Zenon
  <2>4. QED  BY <1>7, <2>1, <2>2, <2>3, Zenon
<1>12. QED  BY <1>10, <1>11

LEMMA FirstOfAnswer ==
    ASSUME NEW p, NEW q, NEW r
    PROVE  <<p>>[1] = p /\ <<p, q>>[1] = p /\ <<p, q, r>>[1] = p
OBVIOUS

\* A user info is refused just if one of its percent signs is not followed by two
\* digits, whatever its bytes and wherever its colons are (mqtt_client.c:1190-1213,
\* lib/mqtt_utils/mqtt_utils.c:34-50).
THEOREM CredentialsRefused ==
    ASSUME NEW text \in Seq(0 .. 255)
    PROVE  Credentials(text)[1] <=>
               \A i \in DOMAIN text : text[i] = Percent =>
                   i + 2 <= Len(text) /\ {text[i + 1], text[i + 2]} \subseteq HexDigits
<1> DEFINE m == IF Colons(text) = {} THEN Len(text) + 1 ELSE Min(Colons(text))
           u == SubSeq(text, 1, m - 1)
           v == SubSeq(text, m + 1, Len(text))
           d == DecodePercent(u)
           e == DecodePercent(v)
<1>1. Len(text) \in Nat /\ DOMAIN text = 1 .. Len(text)
  BY LenProperties, Zenon
<1>2. Split(text, m)
  BY Zenon DEF Split
<1> HIDE DEF m
<1>3. Sides(text, m, u, v)
  BY <1>2, SidesOf, Zenon
<1>4. AllLegal(text, 1) <=> AllLegal(u, 1) /\ AllLegal(v, 1)
  <2> HIDE DEF u, v
  <2>1. QED  BY <1>1, <1>3, LegalBySides, Zenon
<1>5. Len(u) \in Nat /\ Len(v) \in Nat
  <2> HIDE DEF u, v
  <2>1. m \in 1 .. Len(text) + 1 /\ Len(u) = m - 1 /\ Len(v) = IF m <= Len(text) THEN Len(text) - m ELSE 0
    BY <1>3, Zenon DEF Sides
  <2> DEFINE n == Len(text)
             x == Len(u)
             y == Len(v)
  <2>2. m \in 1 .. n + 1 /\ x = m - 1 /\ y = (IF m <= n THEN n - m ELSE 0) /\ n \in Nat
    BY <1>1, <2>1, Zenon
  <2> HIDE DEF n, x, y
  <2>3. x \in Nat /\ y \in Nat
    BY <2>2
  <2>4. QED  BY <2>3 DEF x, y
<1>6. (d.valid <=> AllLegal(u, 1)) /\ (e.valid <=> AllLegal(v, 1))
  BY <1>5, DecodePercentJudges, Zenon
<1>7. /\ ~d.valid \/ ~e.valid => Credentials(text) = <<FALSE>>
      /\ d.valid /\ e.valid /\ Colons(text) = {} => Credentials(text) = <<TRUE, UpToNul(d.text)>>
      /\ d.valid /\ e.valid /\ Colons(text) # {} =>
            Credentials(text) = <<TRUE, UpToNul(d.text), UpToNul(e.text)>>
  BY <1>2, CredentialsOf, Zenon
<1>8. /\ <<FALSE>>[1] = FALSE /\ <<TRUE, UpToNul(d.text)>>[1] = TRUE
      /\ <<TRUE, UpToNul(d.text), UpToNul(e.text)>>[1] = TRUE
  BY FirstOfAnswer, Zenon
<1> HIDE DEF d, e
<1>9. Credentials(text)[1] <=> d.valid /\ e.valid
  BY <1>7, <1>8, Zenon
<1>10. AllLegal(text, 1) <=> \A i \in DOMAIN text : text[i] = Percent =>
          i + 2 <= Len(text) /\ {text[i + 1], text[i + 2]} \subseteq HexDigits
  BY <1>1, Zenon DEF AllLegal, Legal
<1>11. QED  BY <1>4, <1>6, <1>9, <1>10, Zenon

\* In particular for the texts TLC enumerates.
THEOREM CredentialsAlwaysKept == Spec => []CredentialsKept
<1>1. {Percent, Colon, 51, 97} \subseteq 1 .. 255 /\ {Percent, Colon, 51, 65, 103} \subseteq 0 .. 255 /\ 3 \in Nat /\ 5 \in Nat
  BY DEF Percent, Colon
<1>2. \A name \in NameTexts : name \in Seq(1 .. 255)
  BY <1>1, BoundedTexts, Zenon DEF NameTexts
<1>3. \A text \in UriTexts : text \in Seq(0 .. 255)
  BY <1>1, BoundedTexts, Zenon DEF UriTexts
<1>4. \A user, pass \in NameTexts :
         /\ Credentials(Escaped(user) \o <<Colon>> \o Escaped(pass)) = <<TRUE, user, pass>>
         /\ Credentials(Escaped(user)) = <<TRUE, user>>
  BY <1>2, CredentialsReturn, Zenon
<1>5. \A text \in UriTexts :
         Credentials(text)[1] <=>
             \A i \in DOMAIN text : text[i] = Percent =>
                 i + 2 <= Len(text) /\ {text[i + 1], text[i + 2]} \subseteq HexDigits
  BY <1>3, CredentialsRefused, Zenon
<1>6. CredentialsKept
  BY <1>4, <1>5, Zenon DEF CredentialsKept
<1>7. QED  BY <1>6, PTL
=============================================================================
