----------------------------- MODULE MqttCodec -----------------------------
(***************************************************************************)
(* The framing of lib/mqtt_msg.c: the fixed header fini_message writes and *)
(* mqtt_get_total_length reads, and the parts of an MQTT 3.1.1 PUBLISH.    *)
(* A packet is a sequence of bytes, a byte a number below 256; positions   *)
(* are those of TLA+ sequences, one more than those of the code.           *)
(***************************************************************************)
EXTENDS Integers, Sequences, FiniteSets, FiniteSetsExt

MAX_FIXED_HEADER_SIZE == 5

PUBLISH == 3

-----------------------------------------------------------------------------
(***************************************************************************)
(* What the client writes.                                                 *)
(***************************************************************************)

\* The length bytes, least significant first; the top bit tells that more follow.
LengthBytes[length \in Nat] ==
    IF length < 128 THEN <<length>> ELSE <<128 + (length % 128)>> \o LengthBytes[length \div 128]

MutFiveBytes(length) == Len(LengthBytes[length]) <= MAX_FIXED_HEADER_SIZE

\* fini_message refuses a length that takes more than four bytes: one of 256 MB or
\* more, whose fifth byte it has then written behind its array of four.
Encodable(length) == Len(LengthBytes[length]) + 1 <= MAX_FIXED_HEADER_SIZE

\* append_message_id and the length of append_string
TwoBytes(n) == <<n \div 256, n % 256>>

-----------------------------------------------------------------------------
(***************************************************************************)
(* What the client reads.                                                  *)
(***************************************************************************)
Continued(byte) == byte >= 128

Type(b) == b[1] \div 16
Qos(b)  == (b[1] \div 2) % 4
Dup(b)  == (b[1] \div 8) % 2

\* mqtt_has_valid_msg_hdr
ValidHeader(b) ==
    LET flags == b[1] % 16
    IN  \/ Type(b) \in {1, 2, 4, 5, 7, 9, 11, 12, 13, 14} /\ flags = 0
        \/ Type(b) \in {6, 8, 10} /\ flags = 2
        \/ Type(b) = PUBLISH /\ Qos(b) < 3 /\ (Qos(b) > 0 \/ Dup(b) = 0)

\* mqtt_get_total_length: the size of the fixed header, as far as it is there
FixedLength(b) ==
    LET ends == {k \in 2 .. Min({5, Len(b)}) : ~Continued(b[k])}
    IN  IF ends = {} THEN Min({5, Len(b)}) ELSE Min(ends)

\* and of the packet: at most four digits to the base 128, the least significant
\* first
TotalLength(b) ==
    LET digit(k) == IF k <= FixedLength(b) THEN b[k] % 128 ELSE 0
    IN  digit(2) + 128 * (digit(3) + 128 * (digit(4) + 128 * digit(5))) + FixedLength(b)

\* The topic length of a PUBLISH, and where its topic ends.
TopicLength(b) == b[FixedLength(b) + 1] * 256 + b[FixedLength(b) + 2]
TopicEnd(b)    == FixedLength(b) + 2 + TopicLength(b)

\* mqtt_get_publish_topic finds none
NoTopic(b) == FixedLength(b) + 2 >= Len(b) \/ TopicEnd(b) > Len(b)
Topic(b)   == SubSeq(b, FixedLength(b) + 3, TopicEnd(b))

\* mqtt_get_publish_data: where the payload starts; what of it has been read
\* together with the header, nothing if the header is not followed by a byte.
DataStart(b) == TopicEnd(b) + (IF Qos(b) > 0 THEN 2 ELSE 0) + 1

MutIdInData(b) == SubSeq(b, TopicEnd(b) + 1, Min({TotalLength(b), Len(b)}))

Data(b) == IF DataStart(b) > Len(b) THEN << >>
           ELSE SubSeq(b, DataStart(b), Min({TotalLength(b), Len(b)}))
=============================================================================
