--------------------------- MODULE MCMqttReceive ---------------------------
(***************************************************************************)
(* Small instances of MqttReceive for TLC: the packets a broker sends.     *)
(***************************************************************************)
EXTENDS MqttReceive

Puback(id) == <<64, 2>> \o TwoBytes(id)
Pingresp   == <<208, 0>>

\* A PUBLISH to the topic 1, 2, .. with this payload; the packet identifier is 5.
PublishPacket(qos, topicLength, payload) ==
    LET body == TwoBytes(topicLength) \o [k \in 1 .. topicLength |-> k]
                \o (IF qos > 0 THEN TwoBytes(5) ELSE << >>) \o payload
    IN  <<48 + 2 * qos>> \o LengthBytes[Len(body)] \o body

Payload(size) == [k \in 1 .. size |-> 10 + (k % 90)]

\* Packets that fit the buffer and one that does not.  Their identifiers have no
\* byte above 127: a packet resumed behind such a byte is misread
\* (mqtt_client.c:1542).
PlainPackets == {Puback(1), Pingresp, PublishPacket(0, 1, Payload(1)),
                 PublishPacket(1, 1, Payload(5))}

\* They are packets of the kind that the theorems of MqttReceiveProofs speak of.
ASSUME PlainAssumption == \A p \in PlainPackets : Readable(p) /\ Acceptable(p)

\* A PUBLISH that is read in pieces, QoS 1.
LongPayload == {PublishPacket(1, 1, Payload(3)), Pingresp}
=============================================================================
