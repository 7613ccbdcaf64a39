------------------------------ MODULE Mqtt5Msg ------------------------------
(***************************************************************************)
(* The packets of MQTT 5 (lib/mqtt5_msg.c): what the client writes, and    *)
(* what it reads from the properties of a CONNACK, a PUBLISH and the       *)
(* acknowledgements.  Texts and packets are sequences of bytes.  A         *)
(* property is a record of its identifier and its value: a number, a text  *)
(* or, for a user property, a pair of texts.  Offsets are those of the     *)
(* code, so the byte at an offset is at the next position of the sequence. *)
(***************************************************************************)
EXTENDS MqttCodec, SequencesExt

CONSTANT StringMax  \* MQTT5_MAX_PROPERTY_STRING_LEN

ASSUME StringAssumption == StringMax \in Nat

-----------------------------------------------------------------------------
(***************************************************************************)
(* mqtt_properties_type, by the shape of the values.                       *)
(***************************************************************************)
PAYLOAD_FORMAT_INDICATOR == 1
MESSAGE_EXPIRY_INTERVAL  == 2
CONTENT_TYPE             == 3
RESPONSE_TOPIC           == 8
CORRELATION_DATA         == 9
SUBSCRIBE_IDENTIFIER     == 11
SESSION_EXPIRY_INTERVAL  == 17
REQUEST_PROBLEM_INFO     == 23
WILL_DELAY_INTERVAL      == 24
REQUEST_RESP_INFO        == 25
REASON_STRING            == 31
RECEIVE_MAXIMUM          == 33
TOPIC_ALIAS_MAXIMIM      == 34
TOPIC_ALIAS              == 35
USER_PROPERTY            == 38
MAXIMUM_PACKET_SIZE      == 39

Width(id) ==
    CASE id \in {PAYLOAD_FORMAT_INDICATOR, REQUEST_PROBLEM_INFO, REQUEST_RESP_INFO, 36, 37, 40, 41, 42} -> 1
      [] id \in {19, RECEIVE_MAXIMUM, TOPIC_ALIAS_MAXIMIM, TOPIC_ALIAS} -> 2
      [] id \in {MESSAGE_EXPIRY_INTERVAL, SESSION_EXPIRY_INTERVAL, WILL_DELAY_INTERVAL,
                 MAXIMUM_PACKET_SIZE} -> 4

TextIds == {CONTENT_TYPE, RESPONSE_TOPIC, CORRELATION_DATA, 18, 21, 22, 26, 28, REASON_STRING}

\* The cases of the three reading loops, and among them those that take a value
\* without asking whether the block holds it.
PublishReads    == {1, 2, 3, 8, 9, 11, 31, 35, 38}
PublishUnasked  == {CORRELATION_DATA, CONTENT_TYPE}
ConnackReads    == {17, 18, 19, 21, 22, 26, 28, 31, 33, 34, 36, 37, 38, 39, 40, 41, 42}
ConnackUnasked  == {RECEIVE_MAXIMUM, MAXIMUM_PACKET_SIZE, TOPIC_ALIAS_MAXIMIM}
AckReads        == {REASON_STRING, USER_PROPERTY}

-----------------------------------------------------------------------------
(***************************************************************************)
(* What the client writes.                                                 *)
(***************************************************************************)
BigEndian(n, width) == [k \in 1 .. width |-> (n \div 256 ^ (width - k)) % 256]

TextBytes(text) == TwoBytes(Len(text)) \o text

\* append_property, twice for a user property; that there is room is a matter of
\* MqttCompose
PropertyBytes(p) ==
    <<p.id>> \o CASE p.id = SUBSCRIBE_IDENTIFIER -> LengthBytes[p.value]
                  [] p.id = USER_PROPERTY -> TextBytes(p.value[1]) \o TextBytes(p.value[2])
                  [] p.id \in TextIds -> TextBytes(p.value)
                  [] OTHER -> BigEndian(p.value, Width(p.id))

Properties(list) == FlattenSeq([k \in DOMAIN list |-> PropertyBytes(list[k])])

MutMovedUpwards(b, at) ==
    LET n     == Len(b) - at
        bytes == LengthBytes[n]
        moved[i \in 0 .. n] ==
            IF i = 0 THEN b \o [k \in 1 .. Len(bytes) - 1 |-> 0]
            ELSE LET prev == moved[i - 1]
                 IN  [prev EXCEPT ![at + i + Len(bytes) - 1] = prev[at + i]]
    IN  [k \in DOMAIN moved[n] |-> IF k \in at .. at + Len(bytes) - 1 THEN bytes[k - at + 1]
                                   ELSE moved[n][k]]

\* update_property_len_value: the byte kept free at this position becomes the
\* length of what follows it.  If that takes more bytes the block is moved up,
\* last byte first.
PropertyLengthSet(b, at) ==
    LET n     == Len(b) - at
        bytes == LengthBytes[n]
        moved[i \in 0 .. n] ==
            IF i = 0 THEN b \o [k \in 1 .. Len(bytes) - 1 |-> 0]
            ELSE LET from == at + n + 1 - i
                     prev == moved[i - 1]
                 IN  [prev EXCEPT ![from + Len(bytes) - 1] = prev[from]]
    IN  [k \in DOMAIN moved[n] |-> IF k \in at .. at + Len(bytes) - 1 THEN bytes[k - at + 1]
                                   ELSE moved[n][k]]

\* A packet up to its properties, and these
WithProperties(before, list) ==
    PropertyLengthSet(before \o <<0>> \o Properties(list), Len(before) + 1)

\* The properties a configuration gives, in the order they are written: a
\* number or correlation data that is zero or empty is left out.
Given(order, config) ==
    LET present(id) == \/ id \in TextIds /\ (id = CORRELATION_DATA => config[id] # << >>)
                       \/ id \notin TextIds /\ config[id] # 0
        written == SelectSeq(order, LAMBDA id : id \in DOMAIN config /\ present(id))
    IN  [k \in DOMAIN written |-> [id |-> written[k], value |-> config[written[k]]]]

UserProperties(users) == [k \in DOMAIN users |-> [id |-> USER_PROPERTY, value |-> users[k]]]

\* fail_message: a message of no bytes
Failed == << >>

\* fini_message
Finished(type, flags, body) == <<16 * type + flags>> \o LengthBytes[Len(body)] \o body

Flag(condition, bit) == IF condition THEN bit ELSE 0

MutPasswordAlone(info) ==
    Flag(info.clean, 2) + (IF info.will THEN 4 + Flag(info.willRetain, 32) + 8 * (info.willQos % 4) ELSE 0)
    + Flag(info.username # << >>, 128) + Flag(info.password # << >>, 64)

\* The flags of mqtt5_msg_connect; a password brings a user name with it.
ConnectFlags(info) ==
    Flag(info.clean, 2) + (IF info.will THEN 4 + Flag(info.willRetain, 32) + 8 * (info.willQos % 4) ELSE 0)
    + Flag(info.username # << >> \/ info.password # << >>, 128) + Flag(info.password # << >>, 64)

ConnectProperties(config, users) ==
    Given(<<SESSION_EXPIRY_INTERVAL, MAXIMUM_PACKET_SIZE, RECEIVE_MAXIMUM, TOPIC_ALIAS_MAXIMIM,
            REQUEST_RESP_INFO, REQUEST_PROBLEM_INFO>>, config) \o UserProperties(users)

WillProperties(config, users) ==
    Given(<<WILL_DELAY_INTERVAL, PAYLOAD_FORMAT_INDICATOR, MESSAGE_EXPIRY_INTERVAL, CONTENT_TYPE,
            RESPONSE_TOPIC, CORRELATION_DATA>>, config) \o UserProperties(users)

\* mqtt5_msg_connect
ConnectMessage(info, properties, willProperties) ==
    LET opening == <<0, 4, 77, 81, 84, 84, 5, ConnectFlags(info)>> \o TwoBytes(info.keepalive)
        named   == WithProperties(opening, properties) \o TextBytes(info.clientId)
        willed  == IF ~info.will THEN named
                   ELSE WithProperties(named, willProperties)
                        \o TextBytes(info.willTopic) \o TextBytes(info.willMessage)
        user    == IF info.username = << >> /\ info.password = << >> THEN << >>
                   ELSE TextBytes(info.username)
    IN  Finished(1, 0, willed \o user \o IF info.password = << >> THEN << >> ELSE TextBytes(info.password))

\* The response topic mqtt5_msg_publish makes of the configured one and the
\* broker's response information: snprintf has room for all but the last
\* character, and the terminator is sent.
JoinedTopic(topic, information) ==
    IF information = << >> THEN topic ELSE Front(topic \o <<47>> \o information) \o <<0>>

PublishProperties(config, users, information) ==
    LET joined == IF RESPONSE_TOPIC \notin DOMAIN config THEN config
                  ELSE [config EXCEPT ![RESPONSE_TOPIC] = JoinedTopic(@, information)]
    IN  Given(<<PAYLOAD_FORMAT_INDICATOR, MESSAGE_EXPIRY_INTERVAL, TOPIC_ALIAS, RESPONSE_TOPIC,
                CORRELATION_DATA>>, joined)
        \o UserProperties(users) \o Given(<<CONTENT_TYPE>>, joined)

\* mqtt5_msg_publish refuses a message with neither topic nor alias.
Addressed(topic, properties) ==
    topic # << >> \/ \E k \in DOMAIN properties : properties[k].id = TOPIC_ALIAS

MutIdBehindProperties(topic, qos, retain, id, properties, data) ==
    Finished(PUBLISH, 2 * qos + retain,
             WithProperties(TextBytes(topic), properties) \o (IF qos > 0 THEN TwoBytes(id) ELSE << >>) \o data)

\* mqtt5_msg_publish
PublishPacket(topic, qos, retain, id, properties, data) ==
    IF ~Addressed(topic, properties) THEN Failed
    ELSE Finished(PUBLISH, 2 * qos + retain,
             WithProperties(TextBytes(topic) \o (IF qos > 0 THEN TwoBytes(id) ELSE << >>), properties) \o data)

\* The filter of a shared subscription, $share/<name>/<filter>
SharedFilter(property, filter) ==
    IF property.shared THEN <<36, 115, 104, 97, 114, 101, 47>> \o property.name \o <<47>> \o filter
    ELSE filter

MutOptionsOverlap(property, qos) ==
    8 * property.retainHandle + 4 * property.noLocal + 8 * property.retainAsPublished + (qos % 4)

SubscribeOptions(property, qos) ==
    Flag(property.retainHandle \in 1 .. 2, 16 * property.retainHandle) + 4 * property.noLocal + 8 * property.retainAsPublished + (qos % 4)

\* mqtt5_msg_subscribe; a topic is a filter and a QoS
SubscribeMessage(id, property, topics) ==
    IF \E k \in DOMAIN topics : topics[k].filter = << >> THEN Failed
    ELSE Finished(8, 2, WithProperties(TwoBytes(id), Given(<<SUBSCRIBE_IDENTIFIER>>, property.config)
                                                     \o UserProperties(property.users))
                   \o FlattenSeq([k \in DOMAIN topics |->
                          TextBytes(SharedFilter(property, topics[k].filter))
                          \o <<SubscribeOptions(property, topics[k].qos)>>]))

\* mqtt5_msg_unsubscribe
UnsubscribeMessage(id, property, filter) ==
    IF filter = << >> THEN Failed
    ELSE Finished(10, 2, WithProperties(TwoBytes(id), UserProperties(property.users))
                         \o TextBytes(SharedFilter(property, filter)))

\* mqtt5_msg_puback, _pubrec, _pubrel and _pubcomp
AckMessage(type, id) ==
    Finished(type, IF type = 6 THEN 2 ELSE 0, WithProperties(TwoBytes(id) \o <<0>>, << >>))

\* mqtt5_msg_disconnect
DisconnectMessage(reason, config, users) ==
    Finished(14, 0, WithProperties(<<reason>>, Given(<<SESSION_EXPIRY_INTERVAL>>, config)
                                               \o UserProperties(users)))

-----------------------------------------------------------------------------
(***************************************************************************)
(* What the client reads.  A read behind the bytes there are is not an     *)
(* error in the code, and its outcome is not known: "beyond".              *)
(***************************************************************************)

\* get_variable_len: the number and the bytes it takes, none if it does not end
\* within four.
VariableLen(b, offset, end) ==
    LET taken[k \in 1 .. 5] ==
            CASE k = 5 \/ offset + k > end -> k - 1
              [] OTHER -> IF Continued(b[offset + k]) THEN taken[k + 1] ELSE k
        upTo[k \in 0 .. 4] == IF k = 0 THEN 0 ELSE upTo[k - 1] + (b[offset + k] % 128) * 128 ^ (k - 1)
    IN  IF taken[1] = 4 /\ Continued(b[offset + 4]) THEN [value |-> 0, bytes |-> 0]
        ELSE [value |-> upTo[taken[1]], bytes |-> taken[1]]

\* mqtt5_property_has_bytes
HasBytes(offset, needed, end) == offset <= end /\ needed <= end - offset

Number(b, offset, width) ==
    LET upTo[k \in 0 .. width] == IF k = 0 THEN 0 ELSE 256 * upTo[k - 1] + b[offset + k]
    IN  upTo[width]

Rejected == [verdict |-> "refused"]
Beyond  == [verdict |-> "beyond"]
Taken(value, next) == [verdict |-> "taken", value |-> value, next |-> next]

MutTextUnasked(b, offset, end, asked) ==
    IF asked /\ ~HasBytes(offset, 2, end) THEN Rejected
    ELSE IF offset + 2 > Len(b) THEN Beyond
    ELSE LET size == Number(b, offset, 2)
         IN  IF asked /\ size > StringMax THEN Rejected
             ELSE IF offset + 2 + size > Len(b) THEN Beyond
             ELSE Taken(SubSeq(b, offset + 3, offset + 2 + size), offset + 2 + size)

\* A text, with the questions the code asks about its length and its bytes
ReadText(b, offset, end, asked) ==
    IF asked /\ ~HasBytes(offset, 2, end) THEN Rejected
    ELSE IF offset + 2 > Len(b) THEN Beyond
    ELSE LET size == Number(b, offset, 2)
         IN  IF asked /\ (size > StringMax \/ ~HasBytes(offset + 2, size, end)) THEN Rejected
             ELSE IF offset + 2 + size > Len(b) THEN Beyond
             ELSE Taken(SubSeq(b, offset + 3, offset + 2 + size), offset + 2 + size)

\* The value of a property: one case of the loops
ReadValue(b, offset, end, id, asked) ==
    CASE id = SUBSCRIBE_IDENTIFIER ->
           LET read == VariableLen(b, offset, end)
           IN  IF Len(b) < Min({end, offset + 4}) THEN Beyond
               ELSE IF HasBytes(offset, read.bytes, end) THEN Taken(read.value, offset + read.bytes)
               ELSE Rejected
      [] id = USER_PROPERTY ->
           LET key == ReadText(b, offset, end, asked)
               val == ReadText(b, key.next, end, asked)
           IN  IF key.verdict # "taken" THEN key
               ELSE IF val.verdict # "taken" THEN val
               ELSE Taken(<<key.value, val.value>>, val.next)
      [] id \in TextIds -> ReadText(b, offset, end, asked)
      [] OTHER ->
           IF asked /\ ~HasBytes(offset, Width(id), end) THEN Rejected
           ELSE IF offset + Width(id) > Len(b) THEN Beyond
           ELSE Taken(Number(b, offset, Width(id)), offset + Width(id))

\* The loop over the properties that begin at an offset.  What is read before a
\* refusal has been stored.  There is memory for every text.
ReadProperties(b, start, end, known, unasked) ==
    LET from[offset \in Nat] ==
            IF offset >= end THEN [verdict |-> "taken", list |-> << >>, next |-> offset]
            ELSE IF offset >= Len(b) THEN [verdict |-> "beyond", list |-> << >>]
            ELSE LET id   == b[offset + 1]
                     read == ReadValue(b, offset + 1, end, id, id \notin unasked)
                 IN  IF id \notin known THEN [verdict |-> "refused", list |-> << >>]
                     ELSE IF read.verdict # "taken" THEN [verdict |-> read.verdict, list |-> << >>]
                     ELSE LET rest == from[read.next]
                          IN  [rest EXCEPT !.list = <<[id |-> id, value |-> read.value]>> \o @]
    IN  from[start]

\* The size of a fixed header, as get_variable_len reads it; the packet's end
HeaderLen(b)  == 1 + VariableLen(b, 1, Len(b)).bytes
PacketEnd(b)  == HeaderLen(b) + VariableLen(b, 1, Len(b)).value

\* mqtt5_get_id
MessageId(b) ==
    LET topicLen == Number(b, HeaderLen(b), 2)
        behind   == HeaderLen(b) + 2 + topicLen
    IN  IF HeaderLen(b) + 2 > Len(b) THEN 0
        ELSE IF Type(b) = PUBLISH
        THEN IF behind + 2 > Len(b) \/ Qos(b) = 0 THEN 0 ELSE Number(b, behind, 2)
        ELSE IF Type(b) \in 4 .. 11 THEN Number(b, HeaderLen(b), 2) ELSE 0

\* mqtt5_get_publish_property_payload: what has been read of a PUBLISH
ReadPublish(b) ==
    LET topicEnd == HeaderLen(b) + 2 + Number(b, HeaderLen(b), 2)
        offset   == topicEnd + (IF Qos(b) > 0 THEN 2 ELSE 0)
        length   == VariableLen(b, offset, Len(b))
        start    == offset + length.bytes
        read     == ReadProperties(b, start, start + (length.value % 65536), PublishReads, PublishUnasked)
    IN  IF HeaderLen(b) + 2 > Len(b) THEN Beyond
        ELSE IF topicEnd >= Len(b) \/ offset >= Len(b) \/ read.verdict = "refused" THEN Rejected
        ELSE IF read.verdict = "beyond" THEN Beyond
        ELSE [verdict |-> "taken", topic |-> SubSeq(b, HeaderLen(b) + 3, topicEnd), list |-> read.list,
              data |-> SubSeq(b, read.next + 1, Min({PacketEnd(b), Len(b)}))]

\* mqtt5_msg_parse_connack_property
ReadConnack(b) ==
    LET offset == HeaderLen(b) + 2
        length == VariableLen(b, offset, Len(b))
        start  == offset + length.bytes
    IN  IF PacketEnd(b) > Len(b) THEN Rejected
        ELSE IF offset > Len(b) THEN Beyond
        ELSE IF length.value > Len(b) - start THEN Rejected
        ELSE LET read == ReadProperties(b, start, start + length.value, ConnackReads, ConnackUnasked)
             IN  [verdict |-> read.verdict, list |-> read.list,
                  session |-> b[offset - 1] % 2, reason |-> b[offset]]

\* mqtt5_msg_get_user_property: all of the user properties, or none
ReadUsers(b, start, length) ==
    LET read == ReadProperties(b, start, start + length, AckReads, {})
    IN  IF read.verdict # "taken" THEN << >>
        ELSE SelectSeq(read.list, LAMBDA p : p.id = USER_PROPERTY)

\* mqtt5_get_suback_data: the codes behind the properties
SubackData(b) ==
    LET offset == HeaderLen(b) + 2
        length == VariableLen(b, offset, PacketEnd(b))
        codes  == offset + length.bytes + length.value
        none   == [codes |-> << >>, users |-> << >>]
    IN  IF PacketEnd(b) > Len(b) \/ offset >= PacketEnd(b) \/ codes >= PacketEnd(b) THEN none
        ELSE [codes |-> SubSeq(b, codes + 1, PacketEnd(b)),
              users |-> ReadUsers(b, offset + length.bytes, length.value)]

\* mqtt5_get_puback_data: the reason code, and the user properties if there are
AckData(b) ==
    LET offset == HeaderLen(b) + 2
        length == VariableLen(b, offset + 1, PacketEnd(b))
        start  == offset + 1 + length.bytes
    IN  IF offset >= PacketEnd(b) THEN [code |-> << >>, users |-> << >>]
        ELSE IF offset + 1 >= PacketEnd(b) THEN [code |-> <<b[offset + 1]>>, users |-> << >>]
        ELSE IF length.value > PacketEnd(b) - start THEN [code |-> << >>, users |-> << >>]
        ELSE [code |-> <<b[offset + 1]>>, users |-> ReadUsers(b, start, length.value)]

MutNoShortForm(b) ==
    LET offset == HeaderLen(b) + (IF Type(b) = 14 THEN 0 ELSE 2)
        length == VariableLen(b, offset, Len(b))
        at     == IF Type(b) \in {9, 11} THEN offset + length.bytes + length.value ELSE offset
    IN  IF at >= Len(b) THEN -1 ELSE b[at + 1]

\* mqtt5_msg_get_reason_code; -1 if there is none
ReasonCode(b) ==
    LET offset == HeaderLen(b) + (IF Type(b) = 14 THEN 0 ELSE 2)
        length == VariableLen(b, offset, Len(b))
        at     == IF Type(b) \in {9, 11} THEN offset + length.bytes + length.value ELSE offset
    IN  IF Type(b) \in 4 .. 7 /\ VariableLen(b, 1, Len(b)).value = 2 THEN 0
        ELSE IF Type(b) \notin {4, 5, 6, 7, 9, 11, 14} \/ at >= Len(b) THEN -1
        ELSE b[at + 1]
=============================================================================
