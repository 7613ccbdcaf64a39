---------------------------- MODULE MqttReceive ----------------------------
(***************************************************************************)
(* How mqtt_client.c takes packets out of the byte stream of a connection  *)
(* (MQTT 3.1.1): mqtt_message_receive, which may stop in the middle of a   *)
(* packet and go on in a later turn of the worker, deliver_publish, which  *)
(* reads a payload larger than the buffer piece by piece, and the answer   *)
(* to a PUBLISH.  Every read of the transport is a step: bytes may arrive  *)
(* between any two.                                                        *)
(***************************************************************************)
EXTENDS MqttCodec, SequencesExt

CONSTANTS
    Packets,       \* what the broker may send, each a sequence of bytes
    BufferLength,  \* in_buffer_length
    Prompt,        \* whether more bytes of a packet have come when the next turn begins
    Stalls,        \* whether none may come for network_timeout_ms
    MaxPackets     \* bound: packets sent

\* A byte
Bytes == 0 .. 255

\* The broker sends whole packets: a length of up to four bytes, and as many bytes
\* as it tells.
ASSUME PacketsAssumption ==
    \A p \in Packets : /\ p \in Seq(Bytes) /\ ValidHeader(p)
                       /\ \E k \in 2 .. 5 : k <= Len(p) /\ ~Continued(p[k])
                       /\ Len(p) = TotalLength(p)
\* A fixed header of five bytes and the four that the read of a topic length may
\* add (mqtt_client.c:1578) fit the buffer, which has 1024 bytes by default.
ASSUME BufferAssumption  == BufferLength \in Nat /\ BufferLength >= 9
ASSUME NetworkAssumption == Prompt \in BOOLEAN /\ Stalls \in BOOLEAN /\ MaxPackets \in Nat

VARIABLES
    wire, arrived,  \* bytes under way, and bytes the transport has
    buffer,         \* in_buffer, as far as in_buffer_read_len
    before,         \* previous_in_buffer_read_len
    stage,          \* where the worker is
    topic, data,    \* what deliver_publish has handed out of this packet
    read,           \* its msg_read_len
    closed,         \* the connection was aborted
    sent, frames,   \* history: packets sent, and what was made of the bytes
    answers,        \* history: PUBACKs and PUBRECs written
    stalled         \* history: a payload stopped for network_timeout_ms

stream == <<wire, arrived>>
piece  == <<topic, data, read>>
vars   == <<stream, buffer, before, stage, piece, closed, sent, frames, answers, stalled>>

\* A packet as the application and the rest of the client see it.
Frame(type, t, d) == [type |-> type, topic |-> t, data |-> d]

Meant(p) == IF Type(p) = PUBLISH THEN Frame(PUBLISH, Topic(p), SubSeq(p, DataStart(p), Len(p)))
            ELSE Frame(Type(p), << >>, SubSeq(p, FixedLength(p) + 1, Len(p)))

\* Every variable has its type; what is read never overruns in_buffer
\* (mqtt_client.c:1570-1618).
TypeOK ==
    /\ wire \in Seq(Bytes) /\ arrived \in Seq(Bytes)
    /\ buffer \in Seq(Bytes) /\ Len(buffer) <= BufferLength
    /\ before \in 0 .. BufferLength
    /\ stage \in {"idle", "first", "length", "topic", "rest", "done", "payload", "answer"}
    /\ topic \in Seq(Bytes) /\ data \in Seq(Bytes) /\ read \in Nat
    /\ closed \in BOOLEAN
    /\ sent \in Seq(Packets) /\ Len(sent) <= MaxPackets
    /\ answers \in 0 .. Len(frames) /\ stalled \in BOOLEAN

Init ==
    /\ wire = << >> /\ arrived = << >>
    /\ buffer = << >> /\ before = 0 /\ stage = "idle"
    /\ topic = << >> /\ data = << >> /\ read = 0
    /\ closed = FALSE
    /\ sent = << >> /\ frames = << >> /\ answers = 0 /\ stalled = FALSE

-----------------------------------------------------------------------------
(***************************************************************************)
(* mqtt_message_receive.                                                   *)
(***************************************************************************)

MutAlwaysFits(b) == FALSE

\* The packet does not fit, and a PUBLISH is read in pieces.
Oversized(b) == BufferLength < TotalLength(b)

\* The length the code computes for the header of a PUBLISH
HeaderEstimate(b) == FixedLength(b) + TopicLength(b) + (IF Qos(b) > 0 THEN 2 ELSE 0)

TooBig(b) == Oversized(b) /\ (Type(b) # PUBLISH \/ BufferLength < HeaderEstimate(b))

Target(b) == IF Oversized(b) THEN BufferLength ELSE TotalLength(b)

\* What comes after the fixed header.
AfterHeader(b) ==
    IF Oversized(b) /\ Type(b) = PUBLISH /\ Len(b) < FixedLength(b) + 2 THEN "topic"
    ELSE IF TooBig(b) THEN "error"
    ELSE IF Len(b) < Target(b) THEN "rest" ELSE "done"

\* A new call goes on where the last one stopped, or so the last byte tells.
Resumed(b) ==
    IF Len(b) = 0 THEN "first"
    ELSE IF Len(b) = 1 \/ (Len(b) < 6 /\ Continued(b[Len(b)])) THEN "length"
    ELSE AfterHeader(b)

\* The call ends, with or without a packet, or with an error.
Enter(s) == /\ closed' = (s = "error")
            /\ stage' = IF s = "error" THEN "idle" ELSE s

\* The next turn of the worker; poll_read has waited for bytes.
Turn ==
    /\ stage = "idle" /\ ~closed
    /\ arrived # << >> \/ (Prompt => wire = << >>)
    /\ before' = Len(buffer)
    /\ Enter(Resumed(buffer))
    /\ UNCHANGED <<stream, buffer, piece, sent, frames, answers, stalled>>

\* How many bytes the read of this stage asks for.
Wanted == CASE stage \in {"first", "length"} -> 1
            [] stage = "topic" -> Len(buffer) - FixedLength(buffer) + 2
            [] stage = "rest"  -> Target(buffer) - Len(buffer)

\* Some of them are there.
Read ==
    /\ stage \in {"first", "length", "topic", "rest"} /\ arrived # << >>
    /\ LET k == Min({Wanted, Len(arrived)})
           b == buffer \o SubSeq(arrived, 1, k)
       IN  /\ buffer' = b
           /\ arrived' = SubSeq(arrived, k + 1, Len(arrived))
           /\ Enter(CASE stage = "first"  -> IF ValidHeader(b) THEN "length" ELSE "error"
                      [] stage = "length" -> Resumed(b)
                      [] stage = "topic"  -> IF Len(b) < FixedLength(b) + 2 THEN "idle"
                                             ELSE AfterHeader(b)
                      [] stage = "rest"   -> IF Len(b) < Target(b) THEN "idle" ELSE "done")
    /\ UNCHANGED <<wire, before, piece, sent, frames, answers, stalled>>

MutEveryTimeout ==
    /\ stage \in {"first", "length", "topic", "rest"} /\ arrived = << >>
    /\ Enter(IF stage # "first" THEN "error" ELSE "idle")
    /\ UNCHANGED <<stream, buffer, before, piece, sent, frames, answers, stalled>>

\* None is there: between packets this is no error, in one it is an error if
\* the whole turn has read nothing (mqtt_process_receive).  That the transport fails
\* or the broker closes it is no step: it aborts the connection and no more.
NothingToRead ==
    /\ stage \in {"first", "length", "topic", "rest"} /\ arrived = << >>
    /\ Enter(IF stage # "first" /\ before = Len(buffer) THEN "error" ELSE "idle")
    /\ UNCHANGED <<stream, buffer, before, piece, sent, frames, answers, stalled>>

-----------------------------------------------------------------------------
(***************************************************************************)
(* mqtt_process_receive and deliver_publish.                               *)
(***************************************************************************)

\* The packet is done with; the next one starts in an empty buffer.
Consumed(frame) ==
    /\ frames' = Append(frames, frame)
    /\ buffer' = << >> /\ topic' = << >> /\ data' = << >> /\ read' = 0

MutPacketKept ==
    /\ stage = "done" /\ Type(buffer) # PUBLISH
    /\ stage' = "idle"
    /\ UNCHANGED <<stream, buffer, before, piece, closed, sent, frames, answers, stalled>>

\* Any packet but PUBLISH.
ProcessPacket ==
    /\ stage = "done" /\ Type(buffer) # PUBLISH
    /\ Consumed(Frame(Type(buffer), << >>,
                      SubSeq(buffer, FixedLength(buffer) + 1, TotalLength(buffer))))
    /\ stage' = "idle"
    /\ UNCHANGED <<stream, before, closed, sent, answers, stalled>>

\* deliver_publish up to its first event.
DeliverPublish ==
    /\ stage = "done" /\ Type(buffer) = PUBLISH
    /\ IF NoTopic(buffer)
       THEN Enter("error") /\ UNCHANGED piece
       ELSE /\ topic' = Topic(buffer) /\ data' = Data(buffer) /\ read' = Len(buffer)
            /\ Enter(IF Len(buffer) < TotalLength(buffer) THEN "payload" ELSE "answer")
    /\ UNCHANGED <<stream, buffer, before, sent, frames, answers, stalled>>

\* Its next events, each with as much as the buffer takes.
DeliverMore ==
    /\ stage = "payload" /\ arrived # << >>
    /\ LET k == Min({BufferLength, TotalLength(buffer) - read, Len(arrived)})
       IN  /\ data' = data \o SubSeq(arrived, 1, k)
           /\ arrived' = SubSeq(arrived, k + 1, Len(arrived))
           /\ read' = read + k
           /\ stage' = IF read + k < TotalLength(buffer) THEN "payload" ELSE "answer"
    /\ UNCHANGED <<wire, buffer, before, topic, closed, sent, frames, answers, stalled>>

\* None arrives for network_timeout_ms: deliver_publish returns ESP_OK.
DeliverStalls ==
    /\ stage = "payload" /\ arrived = << >> /\ Stalls
    /\ stage' = "answer" /\ stalled' = TRUE
    /\ UNCHANGED <<stream, buffer, before, piece, closed, sent, frames, answers>>

\* PUBACK or PUBREC above QoS 0; the packet is not consumed if it cannot be written.
Answer ==
    /\ stage = "answer"
    /\ \/ /\ Consumed(Frame(PUBLISH, topic, data)) /\ Enter("idle")
          /\ answers' = IF Qos(buffer) > 0 THEN answers + 1 ELSE answers
       \/ /\ Qos(buffer) > 0 /\ Enter("error")
          /\ UNCHANGED <<buffer, piece, frames, answers>>
    /\ UNCHANGED <<stream, before, sent, stalled>>

-----------------------------------------------------------------------------
(***************************************************************************)
(* The broker and the network.                                             *)
(***************************************************************************)
Send ==
    /\ Len(sent) < MaxPackets
    /\ \E p \in Packets : sent' = Append(sent, p) /\ wire' = wire \o p
    /\ UNCHANGED <<arrived, buffer, before, stage, piece, closed, frames, answers, stalled>>

Arrive ==
    /\ \E k \in DOMAIN wire : /\ arrived' = arrived \o SubSeq(wire, 1, k)
                              /\ wire' = SubSeq(wire, k + 1, Len(wire))
    /\ UNCHANGED <<buffer, before, stage, piece, closed, sent, frames, answers, stalled>>

Receiver == Turn \/ Read \/ NothingToRead \/ ProcessPacket \/ DeliverPublish \/ DeliverMore
            \/ DeliverStalls \/ Answer

Next == Receiver \/ Send \/ Arrive

Spec == Init /\ [][Next]_vars

(***************************************************************************)
(* Fairness.  The worker takes its turns, and what was sent arrives: weak  *)
(* fairness of Receiver and of Arrive, written out because TLC is slow to  *)
(* evaluate their ENABLED.  Receiver is enabled when CanStep holds, and    *)
(* its steps are those that leave wire alone; Arrive is enabled when wire  *)
(* is not empty, and its steps are those that only take from it.           *)
(***************************************************************************)
CanStep == CASE stage = "idle"    -> ~closed /\ (arrived # << >> \/ (Prompt => wire = << >>))
             [] stage = "payload" -> arrived # << >> \/ Stalls
             [] OTHER             -> TRUE

ReceiverFair == []<>~CanStep \/ []<><<wire' = wire>>_vars
ArrivalFair  == []<>(wire = << >>) \/ []<><<wire' # wire /\ sent' = sent>>_vars

FairSpec == Spec /\ ReceiverFair /\ ArrivalFair

-----------------------------------------------------------------------------
(***************************************************************************)
(* Properties.                                                             *)
(***************************************************************************)

\* A packet that is read as it was meant, however its bytes are cut: no byte from
\* behind its length up to the fifth is taken for a length byte that tells of another
\* when a call goes on there (mqtt_client.c:1542), and if it is read in pieces, all of
\* its header lies in the first one, which the estimate does not ensure: it leaves out
\* the two bytes of the topic length (mqtt_client.c:1599).
Readable(p) ==
    /\ \A k \in FixedLength(p) + 1 .. 5 : k < Len(p) => ~Continued(p[k])
    /\ Type(p) = PUBLISH /\ Oversized(p) /\ ~TooBig(p) => DataStart(p) <= BufferLength + 1

\* A packet that the client does not refuse
Acceptable(p) == ~TooBig(p) /\ (Type(p) = PUBLISH => ~NoTopic(p))

\* Whatever way the bytes are cut, the packets that come out are the packets
\* that were sent, whole and in order, until a payload stalls
\* (mqtt_client.c:1509-1642, 1392-1418).
FramesKept == stalled \/ IsPrefix(frames, [k \in DOMAIN sent |-> Meant(sent[k])])

\* A connection whose bytes keep coming is not given up: "Report error only if
\* didn't receive anything since previous iteration" (mqtt_client.c:1656-1664).
NotGivenUp == [][Prompt /\ ~stalled /\ ~closed /\ closed' => stage = "answer"]_vars

\* Every packet is processed in the end, or the connection has been aborted
\* (mqtt_client.c:1509-1642, 1648-1672).
FramesArrive ==
    \A k \in 1 .. MaxPackets : (Len(sent) >= k) ~> (closed \/ Len(frames) >= k)

\* A PUBLISH is answered when all of it was received; a timeout in the middle of
\* a message is told from one between messages (mqtt_client.c:52-56).
AnsweredWhole == stage = "answer" => read = TotalLength(buffer)
=============================================================================
