------------------------------ MODULE MCTexts ------------------------------
(***************************************************************************)
(* What the tests of EmqttContract, the length bytes of MqttCodec and the  *)
(* decoding of MqttUri are meant to say, for every text over a small       *)
(* alphabet.  None of it depends on the state: it is asked before anything *)
(* is composed.                                                            *)
(***************************************************************************)
EXTENDS MqttCompose, EmqttContract, MqttUri, SequencesExt

\* Wildcards and separators, the characters of host names, the bytes at the
\* borders of what UTF-8 allows, the extreme digits to the base 128, and what
\* matters in a user info.
TopicTexts  == BoundedSeq({Slash, Plus, Hash, 97}, TopicMax + 1)
HostTexts   == BoundedSeq({Dash, Dot, 97}, HostSize)
Utf8Texts   == BoundedSeq({31, 32, 127, 128, 143, 144, 159, 160, 183, 190, 191, 193, 194, 223,
                           224, 237, 239, 240, 244, 245}, 4)
LengthTexts == BoundedSeq({0, 1, 127, 128, 129, 255}, 5)
UriTexts    == BoundedSeq({Percent, Colon, 51, 65, 103}, 5)
NameTexts   == BoundedSeq({Percent, Colon, 51, 97}, 3)

-----------------------------------------------------------------------------
\* The parts of a text between two separators, as <<first, last>>.
Parts(text, separator) ==
    {p \in (1 .. Len(text) + 1) \X (0 .. Len(text)) :
        /\ p[1] <= p[2] + 1
        /\ \A k \in p[1] .. p[2] : text[k] # separator
        /\ p[1] = 1 \/ text[p[1] - 1] = separator
        /\ p[2] = Len(text) \/ text[p[2] + 1] = separator}

\* A topic has no wildcard; in a filter a level is a text without wildcards, +,
\* or # if it is the last (emqtt_contract.c:36-45).
ByLevels(text, filter) ==
    /\ Len(text) \in 1 .. TopicMax
    /\ \A p \in Parts(text, Slash) :
          \/ \A k \in p[1] .. p[2] : text[k] \notin {Plus, Hash}
          \/ filter /\ p[1] = p[2] /\ (text[p[1]] = Plus \/ p[2] = Len(text))

TopicByLevels ==
    calls = 0 => \A text \in TopicTexts, filter \in BOOLEAN :
        TopicValid(text, filter) <=> ByLevels(text, filter)

\* A host name is labels between dots: none is empty, too long, or begins or
\* ends with a dash (emqtt_contract.c:52-65).
ByLabels(text) ==
    /\ Len(text) \in 1 .. HostSize - 1
    /\ \A p \in Parts(text, Dot) : /\ p[2] - p[1] + 1 \in 1 .. LabelMax
                                   /\ Dash \notin {text[p[1]], text[p[2]]}

HostByLabels == calls = 0 => \A text \in HostTexts : HostValid(text) <=> ByLabels(text)

\* Topics and host names are accepted by their parts, not by the characters that
\* happen to stand next to each other (emqtt_contract.c:36-65).
NamesByParts == TopicByLevels /\ HostByLabels

\* The encoding of a code point
Utf8Of(code) ==
    LET tail(unit) == 128 + ((code \div unit) % 64)
    IN  IF code < 128 THEN <<code>>
        ELSE IF code < 2048 THEN <<192 + code \div 64, tail(1)>>
        ELSE IF code < 65536 THEN <<224 + code \div 4096, tail(64), tail(1)>>
        ELSE <<240 + code \div 262144, tail(4096), tail(64), tail(1)>>

\* The code point these bytes would encode: one to four of them, of which the
\* first carries 8, 5, 4 or 3 bits
CodeOf(bytes) ==
    LET code[k \in 1 .. Len(bytes)] ==
            IF k = 1 THEN bytes[1] % <<256, 32, 16, 8>>[Len(bytes)]
            ELSE code[k - 1] * 64 + (bytes[k] % 64)
    IN  code[Len(bytes)]

\* These bytes are the encoding of an acceptable code point.
Encodes(bytes) == Utf8Of(CodeOf(bytes)) = bytes /\ ~Refused(CodeOf(bytes))

\* The text can be cut into such encodings.
ByEncoding(text) ==
    LET from[at \in 1 .. Len(text) + 1] ==
            \/ at > Len(text)
            \/ \E k \in 1 .. 4 : /\ at + k - 1 <= Len(text)
                                /\ Encodes(SubSeq(text, at, at + k - 1))
                                /\ from[at + k]
    IN  from[1]

\* utf8 accepts the concatenations of encodings of acceptable code points: no
\* overlong, cut or stray byte (emqtt_contract.c:13-34).
Utf8ByEncoding == calls = 0 => \A text \in Utf8Texts : Utf8(text) <=> ByEncoding(text)

-----------------------------------------------------------------------------
\* The number a text of length bytes stands for, least significant first.
ValueOf(text) ==
    LET value[k \in 1 .. Len(text) + 1] ==
            IF k > Len(text) THEN 0 ELSE (text[k] % 128) + 128 * value[k + 1]
    IN  value[1]

\* All but the last byte tell that more follow.  A fifth byte is 1: more would
\* not fit TLC's integers.
Complete(text) == /\ text # << >>
                  /\ \A k \in DOMAIN text : Continued(text[k]) <=> k < Len(text)
                  /\ Len(text) = 5 => text[5] = 1

\* mqtt_get_total_length reads a length of up to four bytes to its end and no
\* further, whatever follows; fini_message writes the shortest form of it, and
\* refuses just the numbers that take five (lib/mqtt_msg.c:84-102, 120-141).
RoundTrip ==
    calls = 0 => \A text \in {t \in LengthTexts : Complete(t)} :
        /\ Len(text) <= 4 =>
              \A next \in {<< >>, <<0>>, <<255>>} :
                  LET bytes == <<16 * PUBLISH>> \o text \o next
                  IN  /\ FixedLength(bytes) = 1 + Len(text)
                      /\ TotalLength(bytes) = 1 + Len(text) + ValueOf(text)
        /\ Len(text) = 1 \/ text[Len(text)] # 0 =>
              /\ LengthBytes[ValueOf(text)] = text
              /\ Encodable(ValueOf(text)) <=> Len(text) <= 4

-----------------------------------------------------------------------------
\* A name as it is written into a URI
Escaped(name) ==
    FlattenSeq([k \in DOMAIN name |-> CASE name[k] = Percent -> <<Percent, 50, 53>>
                                        [] name[k] = Colon   -> <<Percent, 51, 65>>
                                        [] OTHER             -> <<name[k]>>])

\* Any user name and password come back from the URI they were escaped into,
\* colons and percent signs included; a user info is refused just if one of its
\* percent signs is not followed by two digits (mqtt_client.c:1190-1213,
\* lib/mqtt_utils/mqtt_utils.c:34-50).
CredentialsKept ==
    calls = 0 =>
        /\ \A user, pass \in NameTexts :
              /\ Credentials(Escaped(user) \o <<Colon>> \o Escaped(pass)) = <<TRUE, user, pass>>
              /\ Credentials(Escaped(user)) = <<TRUE, user>>
        /\ \A text \in UriTexts :
              Credentials(text)[1] <=>
                  \A i \in DOMAIN text : text[i] = Percent =>
                      i + 2 <= Len(text) /\ {text[i + 1], text[i + 2]} \subseteq HexDigits
=============================================================================
