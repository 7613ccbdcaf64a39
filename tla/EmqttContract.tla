--------------------------- MODULE EmqttContract ---------------------------
(***************************************************************************)
(* The tests emqtt_contract.c makes on what the application hands in: the  *)
(* UTF-8 of its texts, its topics and filters, and the host name.  A text  *)
(* is a sequence of bytes.                                                 *)
(***************************************************************************)
EXTENDS Integers, Sequences

CONSTANTS
    TopicMax,  \* EMQTT_TOPIC_MAX
    HostSize,  \* sizeof hostname
    LabelMax   \* 63, the longest label of a host name

ASSUME LimitsAssumption == {TopicMax, HostSize, LabelMax} \subseteq Nat \ {0}

Slash == 47
Plus  == 43
Hash  == 35
Dash  == 45
Dot   == 46

-----------------------------------------------------------------------------
(***************************************************************************)
(* utf8                                                                    *)
(***************************************************************************)

\* How many bytes follow the first one, and the bits it carries; -1 for a byte
\* that starts nothing.
Extra(first) == CASE first < 128         -> 0
                  [] first \in 194 .. 223 -> 1
                  [] first \in 224 .. 239 -> 2
                  [] first \in 240 .. 244 -> 3
                  [] OTHER                -> -1

FirstBits(first) == CASE Extra(first) = 0 -> first
                      [] Extra(first) = 1 -> first % 32
                      [] Extra(first) = 2 -> first % 16
                      [] Extra(first) = 3 -> first % 8

Minimum(extra) == CASE extra = 0 -> 0 [] extra = 1 -> 128 [] extra = 2 -> 2048 [] extra = 3 -> 65536

\* Control characters, surrogates and noncharacters are refused.
Refused(code) ==
    \/ code > 1114111 \/ code \in 55296 .. 57343
    \/ code < 32 \/ code \in 127 .. 159
    \/ code \in 64976 .. 65007 \/ code % 65536 >= 65534

MutOverlong(code, extra) == ~Refused(code)

Accepted(code, extra) == code >= Minimum(extra) /\ ~Refused(code)

\* The code point of the sequence that starts here.
CodeAt(text, at) ==
    LET code[k \in 0 .. 3] == IF k = 0 THEN FirstBits(text[at])
                              ELSE code[k - 1] * 64 + (text[at + k] % 64)
    IN  code[Extra(text[at])]

Utf8(text) ==
    LET from[at \in 1 .. Len(text) + 1] ==
            \/ at > Len(text)
            \/ LET extra == Extra(text[at])
               IN  /\ extra >= 0 /\ at + extra <= Len(text)
                   /\ \A k \in at + 1 .. at + extra : text[k] \in 128 .. 191
                   /\ Accepted(CodeAt(text, at), extra)
                   /\ from[at + extra + 1]
    IN  from[1]

-----------------------------------------------------------------------------
(***************************************************************************)
(* emqtt_topic_valid                                                       *)
(***************************************************************************)
MutHashAnywhere(topic, i) == i = Len(topic)

\* A wildcard in a filter: # alone at the end, + alone in its level.
HashPlaced(topic, i) == i = Len(topic) /\ (i > 1 => topic[i - 1] = Slash)

PlusPlaced(topic, i) == /\ i > 1 => topic[i - 1] = Slash
                        /\ i < Len(topic) => topic[i + 1] = Slash

TopicValid(topic, filter) ==
    /\ Len(topic) \in 1 .. TopicMax
    /\ Utf8(topic)
    /\ \A i \in DOMAIN topic :
          /\ topic[i] = Hash => filter /\ HashPlaced(topic, i)
          /\ topic[i] = Plus => filter /\ PlusPlaced(topic, i)

-----------------------------------------------------------------------------
(***************************************************************************)
(* The host name, in emqtt_config_valid                                    *)
(***************************************************************************)
Alphanumeric == (48 .. 57) \cup (65 .. 90) \cup (97 .. 122)

\* How long the label is that ends here, this character included.
LabelLength(host, i) ==
    LET length[k \in 0 .. i] == IF k = 0 \/ host[k] = Dot THEN 0 ELSE length[k - 1] + 1
    IN  length[i]

MutDashEnds(host, i) == LabelLength(host, i - 1) > 0 /\ i # Len(host)

DotPlaced(host, i) == LabelLength(host, i - 1) > 0 /\ host[i - 1] # Dash /\ i # Len(host)

CharacterPlaced(host, i) ==
    /\ host[i] \in Alphanumeric \/ (host[i] = Dash /\ LabelLength(host, i - 1) > 0)
    /\ LabelLength(host, i) <= LabelMax
    /\ ~(i = Len(host) /\ host[i] = Dash)

HostValid(host) ==
    /\ Len(host) \in 1 .. HostSize - 1
    /\ \A i \in DOMAIN host : IF host[i] = Dot THEN DotPlaced(host, i) ELSE CharacterPlaced(host, i)
=============================================================================
