---------------------------- MODULE MCMqtt5Msg ----------------------------
(***************************************************************************)
(* What Mqtt5Msg writes, read the way the other side of the connection     *)
(* reads it, and what it makes of packets a broker writes.  None of it     *)
(* depends on the state: it is asked before anything is composed.  A       *)
(* packet is named by a quantifier over its singleton, so that TLC         *)
(* computes it once.                                                       *)
(***************************************************************************)
EXTENDS MqttCompose, Mqtt5Msg

CONSTANT NoText   \* what cannot be read

Long(n) == [k \in 1 .. n |-> 97]

UserLists == <<<< >>, <<<< <<107>>, <<118>> >>, << <<107>>, << >> >>>>>>
Users     == Range(UserLists)

\* The properties at an offset, as another implementation reads them: the
\* list and where it ends
AllIds == PublishReads \cup ConnackReads \cup {23, 24, 25}

Block(b, at) ==
    LET length == VariableLen(b, at, Len(b))
        start  == at + length.bytes
    IN  ReadProperties(b, start, start + length.value, AllIds, AllIds)

\* A sequence of texts and property blocks; what cannot be read is NoText.
Fields(b, start, kinds) ==
    LET read[k \in 0 .. Len(kinds)] ==
            IF k = 0 THEN [values |-> << >>, next |-> start]
            ELSE LET prev  == read[k - 1]
                     text  == ReadText(b, prev.next, Len(b), FALSE)
                     block == Block(b, prev.next)
                 IN  CASE kinds[k] = "text" /\ text.verdict = "taken" ->
                            [values |-> Append(prev.values, text.value), next |-> text.next]
                       [] kinds[k] = "block" /\ block.verdict = "taken" ->
                            [values |-> Append(prev.values, block.list), next |-> block.next]
                       [] OTHER -> [values |-> Append(prev.values, NoText), next |-> Len(b)]
    IN  read[Len(kinds)]

-----------------------------------------------------------------------------
\* The length of a block is put in front of it in place: nothing of the packet
\* is lost when the length takes a second byte (lib/mqtt5_msg.c:91-115).
LengthInPlace ==
    calls = 0 => \A before \in {<< >>, <<1, 2>>}, n \in {0, 1, 2, 126, 127, 128, 129} :
        LET block == [k \in 1 .. n |-> k % 251]
        IN  PropertyLengthSet(before \o <<0>> \o block, Len(before) + 1)
            = before \o LengthBytes[n] \o block

Infos == [clean : BOOLEAN, will : BOOLEAN, willRetain : BOOLEAN, willQos : {0, 2},
          username : {<< >>, <<117>>}, password : {<< >>, <<112, 119>>}, clientId : {<< >>, <<99>>},
          willTopic : {<<116>>}, willMessage : {<< >>, <<109>>}, keepalive : {258}]

\* Properties of the connection and of the will
Configs == <<[connect |-> 33 :> 300 @@ 34 :> 0, will |-> 24 :> 0, users |-> UserLists[2]],
             [connect |-> 17 :> 70000 @@ 39 :> 256 @@ 25 :> 1 @@ 23 :> 0,
              will |-> 1 :> 1 @@ 3 :> << >> @@ 9 :> << >>, users |-> UserLists[1]],
             [connect |-> 34 :> 7, will |-> 24 :> 5 @@ 8 :> Long(130) @@ 9 :> <<0, 1>>, users |-> UserLists[1]]>>

\* A broker that reads a CONNECT by its flags finds the client identifier, the
\* will, the user name and the password where they are, and nothing behind
\* them; a password comes with a user name (lib/mqtt5_msg.c:629-771).
ConnectReadBack ==
    calls = 0 => \A info \in Infos, k \in DOMAIN Configs :
        \A properties \in {ConnectProperties(Configs[k].connect, Configs[k].users)},
           willProperties \in {WillProperties(Configs[k].will, Configs[k].users)} :
        \A b \in {ConnectMessage(info, properties, willProperties)} :
        \A flags \in {b[HeaderLen(b) + 8]} :
        LET bit(n) == (flags \div 2 ^ n) % 2 = 1
            kinds  == <<"block", "text">> \o (IF bit(2) THEN <<"block", "text", "text">> ELSE << >>)
                      \o (IF bit(7) THEN <<"text">> ELSE << >>) \o (IF bit(6) THEN <<"text">> ELSE << >>)
        IN  \A read \in {Fields(b, HeaderLen(b) + 10, kinds)} :
            /\ PacketEnd(b) = Len(b) /\ read.next = Len(b)
            /\ bit(6) => bit(7)
            /\ bit(1) = info.clean /\ bit(2) = info.will /\ bit(6) = (info.password # << >>)
            /\ info.will => bit(5) = info.willRetain /\ (flags \div 8) % 4 = info.willQos
            /\ read.values = <<properties, info.clientId>>
                             \o (IF info.will THEN <<willProperties, info.willTopic, info.willMessage>> ELSE << >>)
                             \o (IF bit(7) THEN <<info.username>> ELSE << >>)
                             \o (IF bit(6) THEN <<info.password>> ELSE << >>)

-----------------------------------------------------------------------------
PublishConfigs == {35 :> 1 @@ 2 :> 0, 1 :> 1 @@ 2 :> 65536 @@ 35 :> 258 @@ 8 :> <<114>>,
                   35 :> 0 @@ 9 :> Long(125) @@ 3 :> << >>, 35 :> 2 @@ 9 :> Long(123) @@ 3 :> <<99>>}

\* A PUBLISH the client writes is read by the client's own reader with its
\* topic, identifier, properties and payload, also when the payload has not
\* arrived to its end (lib/mqtt5_msg.c:328-371, 373-549, 1062-1172).
PublishReadBack ==
    calls = 0 => \A topic \in {<< >>, <<116>>, <<116, 47, 120>>}, qos \in 0 .. 2, id \in {1, 65280},
                    config \in PublishConfigs, users \in Users, data \in {<< >>, <<0>>, Long(3)} :
        \A properties \in {PublishProperties(config, users, << >>)} :
        \A b \in {PublishPacket(topic, qos, 0, id, properties, data)} :
            IF ~Addressed(topic, properties) THEN b = Failed
            ELSE /\ PacketEnd(b) = Len(b) /\ MessageId(b) = IF qos > 0 THEN id ELSE 0
                 /\ \A missing \in 0 .. Len(data) :
                    \A arrived \in {SubSeq(b, 1, Len(b) - missing)} : \A read \in {ReadPublish(arrived)} :
                       /\ read.verdict = "taken" /\ read.topic = topic /\ read.list = properties
                       /\ read.data = SubSeq(data, 1, Len(data) - missing)

-----------------------------------------------------------------------------
ConnackLists ==
    <<<<[id |-> 33, value |-> 300], [id |-> 36, value |-> 1], [id |-> 26, value |-> <<105, 106>>]>>,
     <<[id |-> 18, value |-> << >>], [id |-> 38, value |-> << <<107>>, <<118>> >>], [id |-> 17, value |-> 65537]>>,
     <<[id |-> 34, value |-> 5], [id |-> 31, value |-> Long(StringMax)], [id |-> 19, value |-> 60], [id |-> 42, value |-> 0]>>>>

\* Which property of a list a number of bytes cuts, 0 if none
CutProperty(list, bytes) ==
    LET before(k) == Len(Properties(SubSeq(list, 1, k)))
        cut == {k \in DOMAIN list : before(k - 1) < bytes /\ bytes < before(k)}
    IN  IF cut = {} THEN 0 ELSE Min(cut)

Connack(session, reason, bytes) == Finished(2, 0, <<session, reason>> \o LengthBytes[Len(bytes)] \o bytes)

\* The properties of a CONNACK are taken as the broker wrote them.  A block that
\* ends within a property is refused, and nothing behind its end is read,
\* whatever the bytes are, except in the three numbers read without a question;
\* so is a text that is too long, and an unknown identifier
\* (lib/mqtt5_msg.c:84-89, 775-1060).
BlockGuarded ==
    calls = 0 =>
        /\ \A k \in DOMAIN ConnackLists, session \in {0, 1}, reason \in {0, 135} :
           \A list \in {ConnackLists[k]} : \A bytes \in {Properties(list)} : \A n \in 0 .. Len(bytes) :
           \A b \in {Connack(session, reason, SubSeq(bytes, 1, n))} :
           \A read \in {ReadConnack(b)}, cut \in {CutProperty(list, n)} :
              IF n = Len(bytes)
              THEN read = [verdict |-> "taken", list |-> list, session |-> session, reason |-> reason]
              ELSE IF cut = 0 THEN read.verdict = "taken"
              ELSE \/ read.verdict = "refused" /\ read.list = SubSeq(list, 1, cut - 1)
                   \/ list[cut].id \in ConnackUnasked
        /\ \A bytes \in {PropertyBytes([id |-> id, value |-> Long(StringMax + 1)]) : id \in {18, 21, 22, 26, 28, 31}}
                        \cup {<<id, 0, 0, 0, 0>> : id \in (0 .. 255) \ ConnackReads} :
           \A b \in {Connack(0, 0, bytes)} : ReadConnack(b).verdict = "refused"

-----------------------------------------------------------------------------
AckLists == <<<< >>, <<[id |-> 31, value |-> <<114>>]>>,
              <<[id |-> 38, value |-> << <<107>>, <<118>> >>], [id |-> 31, value |-> << >>]>>>>

UsersOf(list) == SelectSeq(list, LAMBDA p : p.id = USER_PROPERTY)

\* Acknowledgements give their identifier, reason and user properties in the
\* short and in the long form; those the client writes say success; a SUBACK
\* gives all its codes (lib/mqtt5_msg.c:551-627, 1174-1231, 1409-1471).
AcksRead ==
    calls = 0 => \A id \in {1, 256, 65535}, code \in {0, 16, 135}, k \in DOMAIN AckLists :
        \A list \in {AckLists[k]} : \A block \in {WithProperties(<< >>, list)} :
            /\ \A type \in 4 .. 7 :
               \A short \in {Finished(type, 0, TwoBytes(id))},
                  coded \in {Finished(type, 0, TwoBytes(id) \o <<code>>)},
                  long \in {Finished(type, 0, TwoBytes(id) \o <<code>> \o block)},
                  own \in {AckMessage(type, id)} :
                      /\ \A b \in {short, coded, long, own} : MessageId(b) = id
                      /\ ReasonCode(short) = 0 /\ AckData(short).code = << >>
                      /\ ReasonCode(coded) = code /\ AckData(coded) = [code |-> <<code>>, users |-> << >>]
                      /\ ReasonCode(long) = code
                      /\ AckData(long) = [code |-> <<code>>, users |-> UsersOf(list)]
                      /\ ReasonCode(own) = 0 /\ AckData(own) = [code |-> <<0>>, users |-> << >>]
            /\ \A type \in {9, 11}, more \in {<< >>, <<1>>, <<0, 128>>} :
               \A b \in {Finished(type, 0, TwoBytes(id) \o block \o <<code>> \o more)} :
                      /\ MessageId(b) = id /\ ReasonCode(b) = code
                      /\ SubackData(b) = [codes |-> <<code>> \o more, users |-> UsersOf(list)]
            /\ ReasonCode(Finished(14, 0, << >>)) = -1
            /\ ReasonCode(Finished(14, 0, <<code>> \o block)) = code
            /\ \A b \in {DisconnectMessage(code, 17 :> 9, << >>)} :
                  ReasonCode(b) = code /\ Block(b, HeaderLen(b) + 1).list = <<[id |-> 17, value |-> 9]>>

-----------------------------------------------------------------------------
SubscribeConfigs == [retainHandle : 0 .. 2, noLocal : {0, 1}, retainAsPublished : {0, 1}, shared : BOOLEAN,
                     name : {<<110>>}, config : {11 :> 0, 11 :> 1, 11 :> 300}, users : Users]

\* A broker finds in a SUBSCRIBE the filters one after the other, each with its
\* QoS and the four options; the filters of a shared subscription carry the name
\* of the share, in UNSUBSCRIBE too (lib/mqtt5_msg.c:1233-1318, 1354-1407).
SubscribeReadBack ==
    calls = 0 => \A property \in SubscribeConfigs, qos1, qos2 \in 0 .. 2 :
        LET topics == <<[filter |-> <<43>>, qos |-> qos1], [filter |-> <<116, 47, 35>>, qos |-> qos2]>>
            meant(topic) == IF property.shared THEN <<36, 115, 104, 97, 114, 101, 47, 110, 47>> \o topic.filter
                            ELSE topic.filter
            means(options, topic) ==
                /\ options % 4 = topic.qos /\ (options \div 4) % 2 = property.noLocal
                /\ (options \div 8) % 2 = property.retainAsPublished /\ options \div 16 = property.retainHandle
        IN  \A b \in {SubscribeMessage(258, property, topics)}, gone \in {UnsubscribeMessage(258, property, <<43>>)} :
            \A block \in {Block(b, HeaderLen(b) + 2)} :
            \A first \in {ReadText(b, block.next, Len(b), FALSE)} :
            \A second \in {ReadText(b, first.next + 1, Len(b), FALSE)} :
            /\ MessageId(b) = 258 /\ PacketEnd(b) = Len(b)
            /\ block.list = Given(<<11>>, property.config) \o UserProperties(property.users)
            /\ first.value = meant(topics[1]) /\ means(b[first.next + 1], topics[1])
            /\ second.value = meant(topics[2]) /\ means(b[second.next + 1], topics[2])
            /\ second.next + 1 = Len(b)
            /\ Fields(gone, HeaderLen(gone) + 2, <<"block", "text">>)
                  = [values |-> <<UserProperties(property.users), meant(topics[1])>>, next |-> Len(gone)]

\* What the client writes in MQTT 5 reads back as it was meant, for every kind of
\* packet that carries more than a code, with blocks of properties on both sides
\* of a one-byte length (lib/mqtt5_msg.c:91-218, 629-773, 1062-1172, 1233-1407).
PacketsReadBack == LengthInPlace /\ ConnectReadBack /\ PublishReadBack /\ SubscribeReadBack
=============================================================================
