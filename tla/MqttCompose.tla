---------------------------- MODULE MqttCompose ----------------------------
(***************************************************************************)
(* How packets are put together in the one outbound buffer of a connection *)
(* (lib/mqtt_msg.c, or lib/mqtt5_msg.c for MQTT 5) and written or stored   *)
(* (mqtt_client.c).  A PUBLISH that does not fit is fragmented: two fields *)
(* of the outbound message tell the length of the whole and where its      *)
(* payload starts, and they outlive the call that set them.  Packets are   *)
(* their sizes in bytes.                                                   *)
(***************************************************************************)
EXTENDS MqttCodec

CONSTANTS
    Versions,      \* whether MQTT 5 is configured: FALSE, TRUE or both
    Blocks,        \* lengths of the properties of an MQTT 5 packet
    Calls,         \* what is called, of the names the actions below give
    Topics,        \* lengths of topics and filters
    Payloads,      \* lengths of payloads that are published
    Enqueued,      \* lengths of payloads that are enqueued, held or find no memory
    BufferLength,  \* connection->buffer_length
    MaxCalls       \* bound: packets put together

ASSUME SizesAssumption == /\ Versions \subseteq BOOLEAN /\ Blocks \subseteq Nat
                          /\ Topics \subseteq Nat \ {0} /\ Payloads \cup Enqueued \subseteq Nat
                          /\ BufferLength \in Nat /\ BufferLength > MAX_FIXED_HEADER_SIZE
                          /\ MaxCalls \in Nat

\* No packet is longer than MQTT can announce, 268435455 bytes behind its fixed
\* header: the device has no memory for such a payload, and fini_message refuses
\* it (lib/mqtt_msg.c:99-102).  32 is room for the parts of fixed size.
ASSUME LengthAssumption ==
    \A topic \in Topics \cup {0}, block \in Blocks \cup {0}, size \in Payloads \cup Enqueued \cup {0} :
        topic + block + size + 32 < 128 ^ 4

VARIABLES
    v5,         \* information.protocol_ver is MQTT_PROTOCOL_V_5
    total,      \* outbound_message.fragmented_msg_total_length
    offset,     \* outbound_message.fragmented_msg_data_offset
    connected,  \* the client's state is MQTT_STATE_CONNECTED
    out,        \* the last packet written or stored: its bytes, the bytes its
                \* header announces and the bytes it should have
    calls

vars == <<v5, total, offset, connected, out, calls>>

\* The fields have their types, and the payload of a fragmented message starts
\* in the buffer (lib/mqtt_msg.c:462-469, 108).
TypeOK ==
    /\ total \in Nat /\ {v5, connected} \subseteq BOOLEAN
    /\ offset \in Int /\ offset <= BufferLength
    /\ out \in [bytes : Nat, announced : Nat, meant : Nat]
    /\ calls \in 0 .. MaxCalls

Init ==
    /\ v5 \in Versions
    /\ total = 0 /\ offset = 0 /\ connected = FALSE
    /\ out = [bytes |-> 0, announced |-> 0, meant |-> 0]
    /\ calls = 0

-----------------------------------------------------------------------------
(***************************************************************************)
(* lib/mqtt_msg.c and lib/mqtt5_msg.c.  The message grows behind room for  *)
(* the largest header.                                                     *)
(***************************************************************************)
HeaderSize(remaining) == 1 + Len(LengthBytes[remaining])

MutRoomCounted(length, t) == IF t # 0 THEN t ELSE length

\* fini_message for this much in the buffer, with the fields as they are
Remaining(length, t) == (IF t # 0 THEN t ELSE length) - MAX_FIXED_HEADER_SIZE

Fini(length, t, o) ==
    LET header == HeaderSize(Remaining(length, t))
    IN  [length    |-> length - MAX_FIXED_HEADER_SIZE + header,
         total     |-> t,
         offset    |-> o - (MAX_FIXED_HEADER_SIZE - header),
         announced |-> header + Remaining(length, t)]

\* The properties of an MQTT 5 packet, with their length in front
BlockSizes == IF v5 THEN {Len(LengthBytes[block]) + block : block \in Blocks} ELSE {0}

\* What comes before the payload of a PUBLISH: append_string, append_message_id
\* and the properties
BeforeData(topic, qos, block) ==
    MAX_FIXED_HEADER_SIZE + 2 + topic + (IF qos > 0 THEN 2 ELSE 0) + block

Fragmented(topic, qos, block, size) == BeforeData(topic, qos, block) + size > BufferLength

MutEndOffset(topic, qos, block, size) ==
    LET end == BeforeData(topic, qos, block) + size
    IN  IF Fragmented(topic, qos, block, size) THEN Fini(BufferLength, end, end) ELSE Fini(end, 0, offset)

\* mqtt_msg_publish and mqtt5_msg_publish; only the latter clears the total
\* length for a payload of no bytes.
PublishMessage(topic, qos, block, size) ==
    LET start == BeforeData(topic, qos, block)
    IN  IF size = 0 /\ ~v5 THEN Fini(start, total, offset)
        ELSE IF Fragmented(topic, qos, block, size) THEN Fini(BufferLength, start + size, start)
        ELSE Fini(start + size, 0, offset)

\* The bytes a packet with this much behind its fixed header has.
PacketSize(body) == HeaderSize(body) + body

Meant(topic, qos, block, size) == PacketSize(BeforeData(topic, qos, block) + size - MAX_FIXED_HEADER_SIZE)

-----------------------------------------------------------------------------
(***************************************************************************)
(* mqtt_client.c.                                                          *)
(***************************************************************************)
Called(name) == name \in Calls /\ calls < MaxCalls /\ calls' = calls + 1 /\ UNCHANGED v5

Out(bytes, announced, meant) ==
    out' = [bytes |-> bytes, announced |-> announced, meant |-> meant]

\* A packet of this many bytes behind its header, composed on these fields.
Composed(body, t, o) ==
    LET m == Fini(MAX_FIXED_HEADER_SIZE + body, t, o)
    IN  Out(m.length, m.announced, PacketSize(body)) /\ offset' = m.offset /\ total' = t

\* after mqtt_reset_pending_message
Fresh(body) == Composed(body, 0, 0)

\* esp_mqtt_connect: CONNECT with a client identifier, accepted or not.  One that
\* does not fit the buffer is not composed and leaves the fields as reset.
Connect(topic, block) ==
    /\ Called("connect") /\ ~connected
    /\ Fresh(10 + block + 2 + topic)
    /\ connected' \in BOOLEAN

\* esp_mqtt_client_subscribe_multiple with one filter, and _unsubscribe
Subscribe(topic, block) ==
    /\ Called("subscribe") /\ connected
    /\ \E qosByte \in {0, 1} : Fresh(2 + block + 2 + topic + qosByte)
    /\ UNCHANGED connected

\* PINGREQ (no body); DISCONNECT (in MQTT 5 a reason and properties); PUBACK,
\* PUBREC, PUBREL and PUBCOMP (an identifier, in MQTT 5 with a reason and no
\* properties)
Control(block) ==
    /\ Called("control") /\ connected
    /\ \E body \in IF v5 THEN {0, 1 + block, 2 + 1 + 1} ELSE {0, 2} : Composed(body, total, offset)
    /\ UNCHANGED connected

\* mqtt_client_enqueue_publish copies what is in the buffer, and the rest of the
\* payload if there is more.
Stored(m, size) == IF m.total = 0 THEN m.length ELSE m.length + size - (m.length - m.offset)

\* The loop of esp_mqtt_client_publish writes the buffer, then what it takes to
\* be the rest of the payload.
Written(m, size) ==
    LET rest == size - (m.length - m.offset)
    IN  m.length + (IF rest > 0 THEN rest ELSE 0)

MutOffsetKept(m) == total' = 0 /\ offset' = m.offset

\* The loop clears the fields after its first write.
Cleared(m) == total' = 0 /\ offset' = 0

\* esp_mqtt_client_publish, connected: stored above QoS 0, then written, or
\* broken off by a failed write
PublishConnected(topic, qos, block, size) ==
    /\ Called("publish") /\ connected /\ BeforeData(topic, qos, block) <= BufferLength
    /\ LET m == PublishMessage(topic, qos, block, size)
       IN  \/ /\ \E bytes \in {Written(m, size)} \cup IF qos > 0 THEN {Stored(m, size)} ELSE {} :
                    Out(bytes, m.announced, Meant(topic, qos, block, size))
              /\ Cleared(m) /\ UNCHANGED connected
           \/ /\ total' = 0 /\ offset' \in {m.offset, 0}
              /\ connected' = FALSE /\ UNCHANGED out

\* With MQTT 5 a message above the broker's quota is stored, and the call
\* returns before it clears a field.
PublishHeld(topic, qos, block, size) ==
    /\ Called("hold") /\ connected /\ v5 /\ qos > 0 /\ BeforeData(topic, qos, block) <= BufferLength
    /\ LET m == PublishMessage(topic, qos, block, size)
       IN  /\ Out(Stored(m, size), m.announced, Meant(topic, qos, block, size))
           /\ total' = 0 /\ offset' = m.offset
    /\ UNCHANGED connected

\* and not connected: stored above QoS 0
PublishOffline(topic, qos, block, size) ==
    /\ Called("publish") /\ ~connected /\ BeforeData(topic, qos, block) <= BufferLength
    /\ LET m == PublishMessage(topic, qos, block, size)
       IN  /\ IF qos > 0 THEN Out(Stored(m, size), m.announced, Meant(topic, qos, block, size))
              ELSE UNCHANGED out
           /\ total' = 0 /\ offset' = m.offset
    /\ UNCHANGED connected

\* esp_mqtt_client_enqueue; at QoS 0 and without "store" it only composes.
Enqueue(topic, qos, block, size) ==
    /\ BeforeData(topic, qos, block) <= BufferLength
    /\ LET m == PublishMessage(topic, qos, block, size)
       IN  \/ /\ Called("enqueue")
              /\ Out(Stored(m, size), m.announced, Meant(topic, qos, block, size))
              /\ total' = 0 /\ offset' = m.offset
           \/ /\ Called("enqueue_unstored") /\ qos = 0
              /\ total' = m.total /\ offset' = m.offset /\ UNCHANGED out
    /\ UNCHANGED connected

\* Either call, if there is no memory for the copy.
StoreFails(topic, qos, block, size) ==
    /\ Called("no_memory") /\ BeforeData(topic, qos, block) <= BufferLength
    /\ LET m == PublishMessage(topic, qos, block, size) IN total' = m.total /\ offset' = m.offset
    /\ UNCHANGED <<connected, out>>

\* The connection ends.
Disconnect == connected /\ connected' = FALSE /\ UNCHANGED <<v5, total, offset, out, calls>>

Next == \/ \E topic \in Topics, block \in BlockSizes :
              \/ Connect(topic, block) \/ Subscribe(topic, block)
              \/ \E qos \in {0, 1}, size \in Payloads :
                    PublishConnected(topic, qos, block, size) \/ PublishOffline(topic, qos, block, size)
              \/ \E qos \in {0, 1}, size \in Enqueued :
                    \/ PublishHeld(topic, qos, block, size) \/ Enqueue(topic, qos, block, size)
                    \/ StoreFails(topic, qos, block, size)
        \/ \E block \in BlockSizes : Control(block)
        \/ Disconnect

Spec == Init /\ [][Next]_vars

-----------------------------------------------------------------------------
(***************************************************************************)
(* Properties.                                                             *)
(***************************************************************************)

\* Every packet that is written or stored has the bytes its header announces,
\* and these are its topic, identifier and payload: whatever was composed,
\* stored, refused or broken off before it (mqtt_client.c:2598-2617, 2701-2745;
\* lib/include/mqtt_msg.h:42-43 calls the fields "zero for all other messages").
PacketWhole == out.bytes = out.announced /\ out.announced = out.meant
=============================================================================
