------------------------------ MODULE MqttUri ------------------------------
(***************************************************************************)
(* The percent decoding lib/mqtt_utils/mqtt_utils.c applies to the user    *)
(* name and the password of a URI.  A text is a sequence of characters.    *)
(***************************************************************************)
EXTENDS Integers, Sequences, FiniteSets, FiniteSetsExt

Percent == 37

\* isxdigit, and what strtol makes of a digit
HexDigits == (48 .. 57) \cup (65 .. 70) \cup (97 .. 102)

HexValue(char) == CASE char \in 48 .. 57 -> char - 48
                    [] char \in 65 .. 70 -> char - 55
                    [] char \in 97 .. 102 -> char - 87

MutDigitLeft(uri, i) == i + IF uri[i] = Percent THEN 2 ELSE 1

\* Where the loop goes on
After(uri, i) == i + IF uri[i] = Percent THEN 3 ELSE 1

CharAt(uri, i) ==
    IF uri[i] = Percent THEN 16 * HexValue(uri[i + 1]) + HexValue(uri[i + 2]) ELSE uri[i]

Legal(uri, i) ==
    uri[i] = Percent => i + 2 <= Len(uri) /\ {uri[i + 1], uri[i + 2]} \subseteq HexDigits

Invalid == [valid |-> FALSE]

\* esp_mqtt_decode_percent_encoded_string: the text, which overwrites the
\* encoded one from its start, or -1
DecodePercent(uri) ==
    LET from[i \in Nat] ==
            IF i > Len(uri) THEN [valid |-> TRUE, text |-> << >>]
            ELSE IF ~Legal(uri, i) THEN Invalid
            ELSE LET rest == from[After(uri, i)]
                 IN  IF rest.valid THEN [rest EXCEPT !.text = <<CharAt(uri, i)>> \o @] ELSE Invalid
    IN  from[1]

-----------------------------------------------------------------------------
Colon == 58

\* strdup copies up to a character that decodes to 0.
UpToNul(text) ==
    LET nuls == {k \in DOMAIN text : text[k] = 0}
    IN  SubSeq(text, 1, IF nuls = {} THEN Len(text) ELSE Min(nuls) - 1)

\* esp_mqtt_client_set_uri on a non-empty user info: split at the first colon,
\* then decoded; <<FALSE>> if the URI is refused, else the user name and, if
\* there is a colon, the password.
Credentials(info) ==
    LET colons == {k \in DOMAIN info : info[k] = Colon}
        split  == IF colons = {} THEN Len(info) + 1 ELSE Min(colons)
        user   == DecodePercent(SubSeq(info, 1, split - 1))
        pass   == DecodePercent(SubSeq(info, split + 1, Len(info)))
    IN  IF ~user.valid \/ ~pass.valid THEN <<FALSE>>
        ELSE <<TRUE, UpToNul(user.text)>> \o (IF colons = {} THEN << >> ELSE <<UpToNul(pass.text)>>)
=============================================================================
