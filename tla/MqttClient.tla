----------------------------- MODULE MqttClient -----------------------------
(***************************************************************************)
(* The MQTT client of mqtt_client.c over the outbox of lib/mqtt_outbox.c:  *)
(* esp_mqtt_task, the API calls the application's tasks make next to it,   *)
(* and the API lock between them.  A part of a turn of the worker that     *)
(* keeps the lock is one step; whatever the code does outside the lock is  *)
(* a step of its own.  Outbound messages only: PUBLISH at QoS 0, 1 and 2,  *)
(* SUBSCRIBE, UNSUBSCRIBE, keepalive, reconnection, start and stop.        *)
(*                                                                         *)
(* The broker and the network are the environment.  A write is taken whole *)
(* or not at all; what is written to a broken connection can be lost.      *)
(***************************************************************************)
EXTENDS Integers, Sequences, FiniteSets, SequencesExt

CONSTANTS
    Callers,         \* tasks of the application
    Calls,           \* the API functions they call
    Ids,             \* packet identifiers, each drawn once
    NoId,            \* identifier 0, of a QoS 0 publish
    QosOf,           \* the QoS of the message an identifier is drawn for
    SendsQos0,       \* whether they publish at QoS 0 too
    Version5,        \* protocol_ver = MQTT_PROTOCOL_V_5
    CleanSession,    \* information.clean_session
    AutoReconnect,   \* config->auto_reconnect
    Refreshes,       \* config->refresh_connection_after_ms # 0
    Expires,         \* whether messages may outlive OUTBOX_EXPIRED_TIMEOUT_MS
    Timely,          \* whether a live connection answers within its timeouts
    ReceiveMaximum,  \* of the broker's CONNACK
    OutboxMax,       \* bound: items in the outbox
    ChannelMax,      \* bound: packets under way in one direction
    MaxFaults        \* bound: connections the network breaks

ASSUME IdsAssumption   == NoId \notin Ids
ASSUME QosAssumption   == QosOf \in [Ids -> {1, 2}]
ASSUME FlagsAssumption == {Version5, CleanSession, AutoReconnect, Refreshes, Expires, Timely,
                            SendsQos0} \subseteq BOOLEAN
ASSUME BoundAssumption == /\ ReceiveMaximum \in Nat \ {0} /\ OutboxMax \in Nat
                          /\ ChannelMax \in Nat \ {0} /\ MaxFaults \in Nat
ASSUME CallerAssumption == Callers \cap {"free", "worker"} = {}

VARIABLES
    state, run, bits,       \* client->state, ->run, ->status_bits
    task, stopping,         \* client->task_handle # NULL, ->stopping
    outbox,                 \* client->outbox
    sent,                   \* client->send_publish_packet_count
    pingWait, idle,         \* ->wait_for_ping_resp; half keepalives since ->keepalive_tick
    lock, pc, caller,       \* the API lock and the program counters
    link, up, down, held,   \* the connection, and QoS 2 ids the broker holds
    faults,
    \* history: what became of each message, how often the broker passed it on,
    \* what was written before, the publishes this connection has not answered,
    \* and the PUBRELs it took over from the one before
    promise, delivered, written, inflight, carried

clientVars == <<state, run, bits, task, stopping>>
worker     == <<lock, pc, caller>>
network    == <<link, up, down, held, faults>>
timers     == <<pingWait, idle>>
history    == <<promise, delivered, written, inflight, carried>>
vars == <<clientVars, outbox, sent, timers, worker, network, history>>

ClientStates  == {"INIT", "CONNECTED", "WAIT_RECONNECT", "DISCONNECTED"}
PendingStates == {"QUEUED", "TRANSMITTED", "ACKNOWLEDGED"}
Requests      == {"SUBSCRIBE", "UNSUBSCRIBE"}

\* outbox_item; "old" tells that the connection it was made for has ended.
Item == [id : Ids \cup {NoId}, type : Requests \cup {"PUBLISH"}, qos : {0, 1, 2},
         pending : PendingStates, dup : BOOLEAN, old : BOOLEAN]
NewItem(id, type, qos) == [id |-> id, type |-> type, qos |-> qos,
                           pending |-> "QUEUED", dup |-> FALSE, old |-> FALSE]

\* A packet to the broker; "again" tells that it was written before.
Packet == [id : Ids \cup {NoId}, dup : BOOLEAN, again : BOOLEAN, old : BOOLEAN, qos : {0, 1, 2},
           type : Requests \cup {"PUBLISH", "PUBREL", "PINGREQ", "DISCONNECT"}]
Control(type, id) == [type |-> type, id |-> id, qos |-> 0, dup |-> FALSE, again |-> FALSE,
                      old |-> FALSE]
PacketOf(item, dup) == [type |-> item.type, id |-> item.id, qos |-> item.qos, dup |-> dup,
                        again |-> item.id \in written, old |-> item.old]

Answer == [type : {"PUBACK", "PUBREC", "PUBCOMP", "SUBACK", "UNSUBACK", "PINGRESP"},
           id : Ids \cup {NoId}]

\* A message is accepted when it is stored, and then reported with PUBLISHED or
\* DELETED, or dropped without an event when the worker ends.
Fates == {"none", "accepted", "published", "deleted", "dropped", "twice"}

\* Every variable has its type; the quota counter stays within the broker's
\* Receive Maximum (mqtt_client.c:2122-2156, mqtt5_client.c:25-37).
TypeOK ==
    /\ state \in ClientStates /\ run \in BOOLEAN
    /\ bits \subseteq {"STOPPED", "RECONNECT", "DISCONNECT"}
    /\ task \in BOOLEAN /\ stopping \in BOOLEAN
    /\ outbox \in Seq(Item) /\ Len(outbox) <= OutboxMax
    /\ sent \in 0 .. ReceiveMaximum
    /\ pingWait \in BOOLEAN /\ idle \in 0 .. 2
    /\ lock \in {"free", "worker"} \cup Callers
    /\ pc \in {"none", "turn", "lock", "locked", "resend", "pubrel", "keepalive", "refresh",
               "poll", "polling", "purge", "exit"}
    /\ caller \in [Callers -> {"idle", "publish", "reconnect", "join"} \cup Requests]
    /\ link \in {"closed", "open", "broken"}
    /\ up \in Seq(Packet) /\ Len(up) <= ChannelMax
    /\ down \in Seq(Answer) /\ Len(down) <= ChannelMax
    /\ held \subseteq Ids /\ faults \in 0 .. MaxFaults
    /\ promise \in [Ids -> Fates] /\ delivered \in [Ids -> 0 .. 2]
    /\ written \subseteq Ids /\ inflight \subseteq Ids /\ carried \subseteq Ids

Init ==
    /\ state = "INIT" /\ run = FALSE /\ bits = {}
    /\ task = FALSE /\ stopping = FALSE
    /\ outbox = << >> /\ sent = 0
    /\ pingWait = FALSE /\ idle = 0
    /\ lock = "free" /\ pc = "none" /\ caller = [c \in Callers |-> "idle"]
    /\ link = "closed" /\ up = << >> /\ down = << >> /\ held = {} /\ faults = 0
    /\ promise = [i \in Ids |-> "none"] /\ delivered = [i \in Ids |-> 0]
    /\ written = {} /\ inflight = {} /\ carried = {}

-----------------------------------------------------------------------------
(***************************************************************************)
(* lib/mqtt_outbox.c.  Every id but NoId names one item.                   *)
(***************************************************************************)
OutboxIds(type) == {outbox[k].id : k \in {j \in DOMAIN outbox : outbox[j].type = type}}

\* outbox_dequeue: the position of the first item in this state, 0 if none
Dequeue(pending) == SelectInSeq(outbox, LAMBDA i : i.pending = pending)

\* outbox_get: the position of the first item with this id
Get(box, id) == SelectInSeq(box, LAMBDA i : i.id = id)

\* outbox_delete: the first match only
Delete(id, type) == RemoveFirstMatch(outbox, LAMBDA i : i.id = id /\ i.type = type)

\* outbox_delete_message_type, for these types: the walk over the list that
\* unlinks as it goes
DeleteTypes(box, types) ==
    LET kept[n \in 0 .. Len(box)] ==
            IF n = 0 THEN << >>
            ELSE IF box[n].type \in types THEN kept[n - 1] ELSE Append(kept[n - 1], box[n])
    IN  kept[Len(box)]

\* outbox_set_pending
SetPending(box, id, pending) ==
    IF Get(box, id) = 0 THEN box ELSE [box EXCEPT ![Get(box, id)].pending = pending]

FreshIds == {i \in Ids : promise[i] = "none" /\ i \notin written
                         /\ i \notin OutboxIds("SUBSCRIBE") \cup OutboxIds("UNSUBSCRIBE")}

-----------------------------------------------------------------------------
(***************************************************************************)
(* esp_mqtt_write, esp_mqtt_abort_connection and the frames of an action.  *)
(***************************************************************************)
Wrote(p) ==
    /\ link = "broken" \/ (link = "open" /\ Len(up) < ChannelMax)
    /\ up' = IF link = "open" THEN Append(up, p) ELSE up
    /\ written' = written \cup ({p.id} \ {NoId})

WriteFails ==
    /\ \/ link # "open"
       \/ Len(up) >= ChannelMax /\ (~Timely \/ Len(down) >= ChannelMax)
    /\ UNCHANGED <<up, written>>

WroteOrNot(p) == Wrote(p) \/ WriteFails

MutUncounted(item) ==
    /\ UNCHANGED sent
    /\ inflight' = IF item.type = "PUBLISH" /\ item.qos > 0 THEN inflight \cup {item.id}
                   ELSE inflight

\* A PUBLISH above QoS 0 was written: it counts against the broker's quota.
Counted(item) ==
    LET counts == item.type = "PUBLISH" /\ item.qos > 0
    IN  /\ sent' = IF Version5 /\ counts THEN sent + 1 ELSE sent
        /\ inflight' = IF counts THEN inflight \cup {item.id} ELSE inflight

NotCounted == UNCHANGED <<sent, inflight>>

\* A publish is done, and its share of the quota free again.
Uncounted == sent' = IF Version5 /\ sent > 0 THEN sent - 1 ELSE sent

\* A clean session drops what it asked for, and keeps the publishes.
DeleteRequests(box) == IF CleanSession THEN DeleteTypes(box, Requests) ELSE box

\* The connection ends with this outbox.
AbortWith(box) ==
    /\ link' = "closed" /\ down' = << >>
    /\ outbox' = DeleteRequests(box)
    /\ state' = "WAIT_RECONNECT"
    /\ pingWait' = FALSE
Abort == AbortWith(outbox)

\* Nothing but the outbox and the channel to the broker changes.
LinkKept == UNCHANGED <<link, down, state, pingWait>>

Goto(label)   == pc' = label /\ UNCHANGED <<lock, caller>>
Unlock(label) == pc' = label /\ lock' = "free" /\ UNCHANGED caller
Return(c)     == lock' = "free" /\ caller' = [caller EXCEPT ![c] = "idle"] /\ UNCHANGED pc

\* The events that end a message's life in the outbox.
Reported(ids, fate) ==
    promise' = [i \in Ids |-> IF i \notin ids THEN promise[i]
                              ELSE IF promise[i] = "accepted" THEN fate ELSE "twice"]

-----------------------------------------------------------------------------
(***************************************************************************)
(* The application's calls.                                                *)
(***************************************************************************)
Calling(c, call) == call \in Calls /\ caller[c] = "idle"

\* esp_mqtt_client_start; creating the task may fail.
Start(c) ==
    /\ Calling(c, "start") /\ lock = "free"
    /\ ~task /\ state \in {"INIT", "DISCONNECTED"}
    /\ bits' = bits \ {"STOPPED"}
    /\ \/ run' = TRUE /\ state' = "INIT" /\ task' = TRUE /\ pc' = "turn"
       \/ run' = FALSE /\ state' = "DISCONNECTED" /\ UNCHANGED <<task, pc>>
    /\ UNCHANGED <<stopping, outbox, sent, timers, lock, caller, network, history>>

MutRunKept(c) ==
    /\ Calling(c, "stop") /\ lock = "free"
    /\ task /\ ~stopping
    /\ IF state = "CONNECTED" THEN WroteOrNot(Control("DISCONNECT", NoId))
       ELSE UNCHANGED <<up, written>>
    /\ stopping' = TRUE /\ state' = "DISCONNECTED"
    /\ caller' = [caller EXCEPT ![c] = "join"]
    /\ UNCHANGED <<run, bits, task, outbox, sent, timers, lock, pc, link, down, held, faults,
                   promise, delivered, inflight, carried>>

MutAnyStopper(c) ==
    /\ Calling(c, "stop") /\ lock = "free"
    /\ task
    /\ IF state = "CONNECTED" THEN WroteOrNot(Control("DISCONNECT", NoId))
       ELSE UNCHANGED <<up, written>>
    /\ stopping' = TRUE /\ run' = FALSE /\ state' = "DISCONNECTED"
    /\ caller' = [caller EXCEPT ![c] = "join"]
    /\ UNCHANGED <<bits, task, outbox, sent, timers, lock, pc, link, down, held, faults,
                   promise, delivered, inflight, carried>>

\* esp_mqtt_client_stop up to the wait for STOPPED_BIT
Stop(c) ==
    /\ Calling(c, "stop") /\ lock = "free"
    /\ task /\ ~stopping
    /\ IF state = "CONNECTED" THEN WroteOrNot(Control("DISCONNECT", NoId))
       ELSE UNCHANGED <<up, written>>
    /\ stopping' = TRUE /\ run' = FALSE /\ state' = "DISCONNECTED"
    /\ caller' = [caller EXCEPT ![c] = "join"]
    /\ UNCHANGED <<bits, task, outbox, sent, timers, lock, pc, link, down, held, faults,
                   promise, delivered, inflight, carried>>

Join(c) ==
    /\ caller[c] = "join" /\ "STOPPED" \in bits /\ lock = "free"
    /\ task' = FALSE /\ stopping' = FALSE
    /\ caller' = [caller EXCEPT ![c] = "idle"]
    /\ UNCHANGED <<state, run, bits, outbox, sent, timers, lock, pc, network, history>>

\* esp_mqtt_client_disconnect
Disconnect(c) ==
    /\ Calling(c, "disconnect")
    /\ bits' = bits \cup {"DISCONNECT"}
    /\ UNCHANGED <<state, run, task, stopping, outbox, sent, timers, worker, network, history>>

\* esp_mqtt_client_reconnect looks at the state and sets the bit without the lock.
Reconnect(c) ==
    /\ Calling(c, "reconnect") /\ state = "WAIT_RECONNECT"
    /\ caller' = [caller EXCEPT ![c] = "reconnect"]
    /\ UNCHANGED <<clientVars, outbox, sent, timers, lock, pc, network, history>>

AskReconnect(c) ==
    /\ caller[c] = "reconnect"
    /\ bits' = bits \cup {"RECONNECT"}
    /\ caller' = [caller EXCEPT ![c] = "idle"]
    /\ UNCHANGED <<state, run, task, stopping, outbox, sent, timers, lock, pc, network, history>>

\* esp_mqtt_client_publish takes the lock; and gives it back without having
\* stored anything: the outbox is full or memory is.
Publish(c) ==
    /\ Calling(c, "publish") /\ lock = "free"
    /\ lock' = c /\ caller' = [caller EXCEPT ![c] = "publish"]
    /\ UNCHANGED <<clientVars, outbox, sent, timers, pc, network, history>>

PublishRefused(c) ==
    /\ caller[c] = "publish" /\ Return(c)
    /\ UNCHANGED <<clientVars, outbox, sent, timers, network, history>>

\* A QoS 0 message is written or lost.
PublishQos0(c) ==
    /\ caller[c] = "publish" /\ SendsQos0 /\ state = "CONNECTED"
    /\ \/ Wrote(PacketOf(NewItem(NoId, "PUBLISH", 0), FALSE)) /\ LinkKept /\ UNCHANGED outbox
       \/ WriteFails /\ Abort
    /\ Return(c)
    /\ UNCHANGED <<run, bits, task, stopping, sent, idle, held, faults, promise, delivered,
                   inflight, carried>>

QuotaUsed == Version5 /\ sent >= ReceiveMaximum

\* A message above QoS 0 is stored, then written if it can be: later if there
\* is no connection or no quota, never again by this call if the write fails.
PublishStored(c) ==
    /\ caller[c] = "publish" /\ Len(outbox) < OutboxMax
    /\ \E id \in FreshIds :
          LET item == NewItem(id, "PUBLISH", QosOf[id])
          IN  /\ promise' = [promise EXCEPT ![id] = "accepted"]
              /\ \/ /\ state # "CONNECTED" \/ QuotaUsed
                    /\ outbox' = Append(outbox, item)
                    /\ NotCounted /\ LinkKept /\ UNCHANGED <<up, written>>
                 \/ /\ state = "CONNECTED" /\ ~QuotaUsed
                    /\ Wrote(PacketOf(item, FALSE)) /\ Counted(item)
                    /\ outbox' = Append(outbox, [item EXCEPT !.pending = "TRANSMITTED"])
                    /\ LinkKept
                 \/ /\ state = "CONNECTED" /\ ~QuotaUsed
                    /\ WriteFails /\ AbortWith(Append(outbox, item))
                    /\ NotCounted
    /\ Return(c)
    /\ UNCHANGED <<run, bits, task, stopping, idle, held, faults, delivered, carried>>

\* esp_mqtt_client_enqueue with store = true
Enqueue(c) ==
    /\ Calling(c, "enqueue") /\ lock = "free" /\ Len(outbox) < OutboxMax
    /\ \E id \in FreshIds \cup IF SendsQos0 THEN {NoId} ELSE {} :
          /\ outbox' = Append(outbox, NewItem(id, "PUBLISH", IF id = NoId THEN 0 ELSE QosOf[id]))
          /\ promise' = [i \in Ids |-> IF i = id THEN "accepted" ELSE promise[i]]
    /\ UNCHANGED <<clientVars, sent, timers, worker, network, delivered, written, inflight,
                   carried>>

\* esp_mqtt_client_subscribe_multiple and _unsubscribe look at the state first,
\* and take the lock then.
Request(c) ==
    /\ caller[c] = "idle" /\ state = "CONNECTED"
    /\ \E type \in Requests \cap Calls : caller' = [caller EXCEPT ![c] = type]
    /\ UNCHANGED <<clientVars, outbox, sent, timers, lock, pc, network, history>>

RequestRefused(c) ==
    /\ caller[c] \in Requests /\ lock = "free"
    /\ caller' = [caller EXCEPT ![c] = "idle"]
    /\ UNCHANGED <<clientVars, outbox, sent, timers, lock, pc, network, history>>

\* Stored as TRANSMITTED before it is written, and kept if the write fails.
RequestStored(c) ==
    /\ caller[c] \in Requests /\ lock = "free" /\ Len(outbox) < OutboxMax
    /\ \E id \in FreshIds :
          LET item == [NewItem(id, caller[c], 0) EXCEPT !.pending = "TRANSMITTED"]
          IN  outbox' = Append(outbox, item) /\ WroteOrNot(PacketOf(item, FALSE))
    /\ caller' = [caller EXCEPT ![c] = "idle"]
    /\ UNCHANGED <<clientVars, sent, timers, lock, pc, link, down, held, faults, promise,
                   delivered, inflight, carried>>

-----------------------------------------------------------------------------
(***************************************************************************)
(* esp_mqtt_task: the loop, with one step for each part of a turn.         *)
(***************************************************************************)
LoopTest ==
    /\ pc = "turn"
    /\ Goto(IF run THEN "lock" ELSE "purge")
    /\ UNCHANGED <<clientVars, outbox, sent, timers, network, history>>

TakeLock ==
    /\ pc = "lock" /\ lock = "free"
    /\ lock' = "worker" /\ pc' = "locked" /\ UNCHANGED caller
    /\ UNCHANGED <<clientVars, outbox, sent, timers, network, history>>

\* mqtt_delete_expired_messages, one message
DeleteExpired ==
    /\ pc = "locked" /\ Expires
    /\ \E k \in DOMAIN outbox :
          /\ outbox' = RemoveAt(outbox, k)
          /\ Reported(IF outbox[k].type = "PUBLISH" THEN {outbox[k].id} ELSE {}, "deleted")
    /\ UNCHANGED <<clientVars, sent, timers, worker, network, delivered, written, inflight,
                   carried>>

In(s) == pc = "locked" /\ state = s

\* The state esp_mqtt_client_stop left: the loop ends in its next test.
TurnDisconnected ==
    /\ In("DISCONNECTED") /\ Unlock("turn")
    /\ UNCHANGED <<clientVars, outbox, sent, timers, network, history>>

NoTransport ==
    /\ In("INIT") /\ Unlock("turn")
    /\ run' = FALSE
    /\ bits' = bits \ {"RECONNECT", "DISCONNECT"}
    /\ UNCHANGED <<state, task, stopping, outbox, sent, timers, network, history>>

ConnectFails ==
    /\ In("INIT") /\ Abort /\ Unlock("turn")
    /\ bits' = bits \ {"RECONNECT", "DISCONNECT"}
    /\ UNCHANGED <<run, task, stopping, sent, idle, up, held, faults, history>>

MutRequeueUnmarked(item) == [item EXCEPT !.pending = IF @ = "TRANSMITTED" THEN "QUEUED" ELSE @]

\* mqtt_requeue_transmitted_messages, on one item
Requeued(item) ==
    IF Version5 /\ item.pending = "TRANSMITTED"
    THEN [item EXCEPT !.pending = "QUEUED", !.dup = @ \/ item.type = "PUBLISH"]
    ELSE item

MutCounterKept == UNCHANGED sent

\* esp_mqtt_connect for MQTT 5: Receive Maximum is scoped to the connection.
CounterReset == sent' = IF Version5 THEN 0 ELSE sent

\* The broker has accepted CONNECT: it forgets its part of a clean session, and
\* what is left of an older connection.
ConnectAccepted ==
    /\ In("INIT") /\ Unlock("poll")
    /\ state' = "CONNECTED" /\ bits' = bits \ {"RECONNECT", "DISCONNECT"}
    /\ link' = "open" /\ up' = << >> /\ down' = << >>
    /\ held' = IF CleanSession THEN {} ELSE held
    /\ outbox' = [k \in DOMAIN outbox |-> [Requeued(outbox[k]) EXCEPT !.old = TRUE]]
    /\ CounterReset
    /\ pingWait' = FALSE /\ idle' = 0
    /\ inflight' = {}
    /\ carried' = {outbox[k].id : k \in {j \in DOMAIN outbox : outbox[j].pending = "ACKNOWLEDGED"}}
    /\ UNCHANGED <<run, task, stopping, faults, promise, delivered, written>>

\* DISCONNECT_BIT: the result of the last write does not matter.
DisconnectAsked ==
    /\ In("CONNECTED") /\ "DISCONNECT" \in bits
    /\ bits' = bits \ {"DISCONNECT"}
    /\ WroteOrNot(Control("DISCONNECT", NoId)) /\ Abort
    /\ Unlock("turn")
    /\ UNCHANGED <<run, task, stopping, sent, idle, held, faults, promise, delivered, inflight,
                   carried>>

Receiving == In("CONNECTED") /\ "DISCONNECT" \notin bits

\* An answer that is still under way, or has arrived in part, is not read yet.
ReceiveNothing ==
    /\ Receiving /\ (Timely => down = << >>) /\ Goto("resend")
    /\ UNCHANGED <<clientVars, outbox, sent, timers, network, history>>

ReceiveFails ==
    /\ Receiving /\ link = "broken"
    /\ Abort /\ Unlock("turn")
    /\ UNCHANGED <<run, bits, task, stopping, sent, idle, up, held, faults, history>>

Received(types) ==
    /\ Receiving /\ down # << >> /\ Head(down).type \in types
    /\ down' = Tail(down)
    /\ Goto("resend")
    /\ UNCHANGED <<clientVars, link, held, faults, delivered, carried>>

MutAnyAnswer(id) ==
    /\ outbox' = Delete(id, "PUBLISH")
    /\ Uncounted
    /\ Reported({id}, "published")

\* remove_initiator_message, and what follows if there was one
Completed(id) ==
    IF id \in OutboxIds("PUBLISH")
    THEN /\ outbox' = Delete(id, "PUBLISH")
         /\ Uncounted
         /\ Reported({id}, "published")
    ELSE UNCHANGED <<outbox, sent, promise>>

\* PUBACK and PUBCOMP
ReceiveCompletion ==
    /\ Received({"PUBACK", "PUBCOMP"})
    /\ Completed(Head(down).id)
    /\ inflight' = inflight \ {Head(down).id}
    /\ UNCHANGED <<timers, up, written>>

MutPubrecIgnored(id) == UNCHANGED outbox

\* The message is at the broker: from now on its PUBREL is what is resent.
Released(id) == outbox' = SetPending(outbox, id, "ACKNOWLEDGED")

ReceivePubrec ==
    /\ Received({"PUBREC"})
    /\ Released(Head(down).id)
    /\ WroteOrNot(Control("PUBREL", Head(down).id))
    /\ UNCHANGED <<sent, timers, promise, inflight>>

ReceiveSuback ==
    /\ Received({"SUBACK", "UNSUBACK"})
    /\ outbox' = Delete(Head(down).id,
                        IF Head(down).type = "SUBACK" THEN "SUBSCRIBE" ELSE "UNSUBSCRIBE")
    /\ UNCHANGED <<sent, timers, up, promise, written, inflight>>

ReceivePingresp ==
    /\ Received({"PINGRESP"})
    /\ pingWait' = FALSE /\ idle' = 0
    /\ UNCHANGED <<outbox, sent, up, promise, written, inflight>>

MutQuotaIgnored == Dequeue("QUEUED")

\* The queued item to send now: the first, or if that one has to wait for quota
\* the first QoS 0 publish.
Sendable ==
    LET first == Dequeue("QUEUED")
    IN  IF first # 0 /\ QuotaUsed /\ outbox[first].type = "PUBLISH" /\ outbox[first].qos > 0
        THEN Get(outbox, NoId)
        ELSE first

\* mqtt_resend_queued, and what the loop does with the item.  A failed write
\* aborts the connection, and the turn goes on.
ResendQueued ==
    /\ pc = "resend" /\ Sendable # 0
    /\ LET item == outbox[Sendable]
       IN  \/ /\ Wrote(PacketOf(item, item.dup)) /\ Counted(item) /\ LinkKept
              /\ outbox' = IF item.id = NoId THEN RemoveAt(outbox, Sendable)
                           ELSE SetPending(outbox, item.id, "TRANSMITTED")
           \/ WriteFails /\ Abort /\ NotCounted
    /\ Goto("keepalive")
    /\ UNCHANGED <<run, bits, task, stopping, idle, held, faults, promise, delivered, carried>>

\* message_retransmit_timeout has not passed.
NotYet ==
    /\ pc = "resend" /\ Sendable = 0 /\ Goto("keepalive")
    /\ UNCHANGED <<clientVars, outbox, sent, timers, network, history>>

\* It has, for the loop but not for the first item it would resend.
NothingOld ==
    /\ pc = "resend" /\ Sendable = 0 /\ Goto("pubrel")
    /\ UNCHANGED <<clientVars, outbox, sent, timers, network, history>>

NoPubrelOld ==
    /\ pc = "pubrel" /\ Goto("keepalive")
    /\ UNCHANGED <<clientVars, outbox, sent, timers, network, history>>

MutRetryUnmarked(item) == item

\* mqtt_resend_queued sets the DUP flag in the stored packet.
Retried(item) == [item EXCEPT !.dup = @ \/ item.type = "PUBLISH"]

Retransmit ==
    /\ pc = "resend" /\ Sendable = 0 /\ Dequeue("TRANSMITTED") # 0
    /\ LET k   == Dequeue("TRANSMITTED")
           box == [outbox EXCEPT ![k] = Retried(@)]
       IN  \/ Wrote(PacketOf(box[k], box[k].dup)) /\ outbox' = box /\ LinkKept
           \/ WriteFails /\ AbortWith(box)
    /\ Goto("pubrel")
    /\ UNCHANGED <<run, bits, task, stopping, sent, idle, held, faults, promise, delivered,
                   inflight, carried>>

MutPubrelUnsent ==
    /\ pc = "pubrel" /\ Dequeue("ACKNOWLEDGED") # 0 /\ Goto("keepalive")
    /\ UNCHANGED <<clientVars, outbox, sent, timers, network, history>>

RetransmitPubrel ==
    /\ pc = "pubrel" /\ Dequeue("ACKNOWLEDGED") # 0
    /\ \/ /\ Wrote(Control("PUBREL", outbox[Dequeue("ACKNOWLEDGED")].id))
          /\ LinkKept /\ UNCHANGED outbox
       \/ WriteFails /\ Abort
    /\ Goto("keepalive")
    /\ UNCHANGED <<run, bits, task, stopping, sent, idle, held, faults, promise, delivered,
                   inflight, carried>>

MutPingForgotten ==
    /\ pc = "keepalive" /\ ~pingWait /\ idle >= 1
    /\ \/ Wrote(Control("PINGREQ", NoId)) /\ LinkKept /\ UNCHANGED outbox /\ Goto("refresh")
       \/ WriteFails /\ Abort /\ Unlock("turn")
    /\ UNCHANGED <<run, bits, task, stopping, sent, idle, held, faults, promise, delivered,
                   inflight, carried>>

\* process_keepalive: PINGREQ after half the interval
Ping ==
    /\ pc = "keepalive" /\ ~pingWait /\ idle >= 1
    /\ \/ /\ Wrote(Control("PINGREQ", NoId)) /\ pingWait' = TRUE /\ Goto("refresh")
          /\ UNCHANGED <<outbox, link, down, state>>
       \/ WriteFails /\ Abort /\ Unlock("turn")
    /\ UNCHANGED <<run, bits, task, stopping, sent, idle, held, faults, promise, delivered,
                   inflight, carried>>

\* and no PINGRESP after all of it
PingTimedOut ==
    /\ pc = "keepalive" /\ pingWait /\ idle = 2
    /\ Abort /\ Unlock("turn")
    /\ UNCHANGED <<run, bits, task, stopping, sent, idle, up, held, faults, history>>

KeepaliveFine ==
    /\ pc = "keepalive"
    /\ IF pingWait THEN idle < 2 ELSE idle = 0
    /\ Goto("refresh")
    /\ UNCHANGED <<clientVars, outbox, sent, timers, network, history>>

\* refresh_connection_after_ms: abort, and connect again at once
Refresh ==
    /\ pc = "refresh" /\ Refreshes
    /\ link' = "closed" /\ down' = << >>
    /\ outbox' = DeleteRequests(outbox)
    /\ state' = "INIT" /\ pingWait' = FALSE
    /\ Unlock("poll")
    /\ UNCHANGED <<run, bits, task, stopping, sent, idle, up, held, faults, history>>

TurnEnds ==
    /\ pc = "refresh" /\ Unlock("poll")
    /\ UNCHANGED <<clientVars, outbox, sent, timers, network, history>>

\* Without the lock: the state is read, the transport is polled.
Poll ==
    /\ pc = "poll" /\ Goto(IF state = "CONNECTED" THEN "polling" ELSE "turn")
    /\ UNCHANGED <<clientVars, outbox, sent, timers, network, history>>

PollEnds ==
    /\ pc = "polling" /\ Goto("turn")
    /\ UNCHANGED <<clientVars, outbox, sent, timers, network, history>>

PollFails ==
    /\ pc = "polling" /\ link # "open" /\ lock = "free"
    /\ Abort /\ Goto("turn")
    /\ UNCHANGED <<run, bits, task, stopping, sent, idle, up, held, faults, history>>

\* MQTT_STATE_WAIT_RECONNECT: by request without auto_reconnect, else by time
ReconnectAsked ==
    /\ In("WAIT_RECONNECT") /\ ~AutoReconnect /\ "RECONNECT" \in bits
    /\ bits' = bits \ {"RECONNECT"} /\ state' = "INIT" /\ Unlock("turn")
    /\ UNCHANGED <<run, task, stopping, outbox, sent, timers, network, history>>

ReconnectDue ==
    /\ In("WAIT_RECONNECT") /\ AutoReconnect
    /\ state' = "INIT" /\ Unlock("turn")
    /\ UNCHANGED <<run, bits, task, stopping, outbox, sent, timers, network, history>>

KeepWaiting ==
    /\ In("WAIT_RECONNECT") /\ (AutoReconnect \/ "RECONNECT" \notin bits)
    /\ Unlock("turn")
    /\ UNCHANGED <<clientVars, outbox, sent, timers, network, history>>

\* The end of the task, without the lock
Purge ==
    /\ pc = "purge" /\ Goto("exit")
    /\ link' = "closed" /\ down' = << >>
    /\ outbox' = << >>
    /\ Reported(OutboxIds("PUBLISH"), "dropped")
    /\ UNCHANGED <<clientVars, sent, timers, up, held, faults, delivered, written, inflight,
                   carried>>

Exit ==
    /\ pc = "exit" /\ Goto("none")
    /\ state' = "DISCONNECTED" /\ bits' = bits \cup {"STOPPED"}
    /\ UNCHANGED <<run, task, stopping, outbox, sent, timers, network, history>>

-----------------------------------------------------------------------------
(***************************************************************************)
(* The environment.                                                        *)
(***************************************************************************)
Answers(p) ==
    CASE p.type = "PUBLISH" -> IF p.qos = 0 THEN {} ELSE {IF p.qos = 1 THEN "PUBACK" ELSE "PUBREC"}
      [] p.type = "PUBREL"  -> {"PUBCOMP"}
      [] p.type = "SUBSCRIBE" -> {"SUBACK"}
      [] p.type = "UNSUBSCRIBE" -> {"UNSUBACK"}
      [] p.type = "PINGREQ" -> {"PINGRESP"}
      [] OTHER -> {}

\* The broker takes a packet and answers it, if there still is a connection.
Broker ==
    /\ up # << >> /\ up' = Tail(up)
    /\ LET p == Head(up)
       IN  /\ IF link = "open" /\ Answers(p) # {}
              THEN /\ Len(down) < ChannelMax
                   /\ \E type \in Answers(p) : down' = Append(down, [type |-> type, id |-> p.id])
              ELSE UNCHANGED down
           /\ held' = IF p.type = "PUBREL" THEN held \ {p.id}
                      ELSE IF p.type = "PUBLISH" /\ p.qos = 2 THEN held \cup {p.id} ELSE held
           /\ delivered' = IF p.type # "PUBLISH" \/ p.qos = 0 \/ (p.qos = 2 /\ p.id \in held)
                           THEN delivered
                           ELSE [delivered EXCEPT ![p.id] = IF @ < 2 THEN @ + 1 ELSE @]
           /\ link' = IF p.type = "DISCONNECT" /\ link = "open" THEN "broken" ELSE link
    /\ UNCHANGED <<clientVars, outbox, sent, timers, worker, faults, promise, written, inflight,
                   carried>>

\* The network fails: what is on its way to the client is lost.
Break ==
    /\ link = "open" /\ faults < MaxFaults
    /\ link' = "broken" /\ down' = << >> /\ faults' = faults + 1
    /\ UNCHANGED <<clientVars, outbox, sent, timers, worker, up, held, history>>

\* Half a keepalive interval passes; a timely broker answers a ping in it.
Tick ==
    /\ state = "CONNECTED" /\ idle < 2
    /\ Timely /\ idle = 1 => link # "open"
    /\ idle' = idle + 1
    /\ UNCHANGED <<clientVars, outbox, sent, pingWait, worker, network, history>>

-----------------------------------------------------------------------------
Application(c) ==
    \/ Start(c) \/ Stop(c) \/ Disconnect(c) \/ Reconnect(c) \/ Publish(c) \/ Enqueue(c)
    \/ Request(c)

Called(c) ==
    \/ Join(c) \/ AskReconnect(c) \/ PublishRefused(c) \/ PublishQos0(c) \/ PublishStored(c)
    \/ RequestRefused(c) \/ RequestStored(c)

ReceiveData == \/ ReceiveFails \/ ReceiveCompletion \/ ReceivePubrec \/ ReceiveSuback
               \/ ReceivePingresp

\* The steps of the worker that do not wait for the lock.
Worker == \/ LoopTest \/ DeleteExpired \/ TurnDisconnected \/ NoTransport \/ ConnectFails
          \/ ConnectAccepted \/ DisconnectAsked \/ ReceiveNothing \/ ReceiveData \/ ResendQueued \/ NotYet
          \/ NothingOld \/ NoPubrelOld \/ Retransmit \/ RetransmitPubrel \/ Ping \/ PingTimedOut
          \/ KeepaliveFine \/ Refresh \/ TurnEnds \/ Poll \/ PollEnds \/ ReconnectAsked
          \/ ReconnectDue \/ KeepWaiting \/ Purge \/ Exit

Next == \/ \E c \in Callers : Application(c) \/ Called(c)
        \/ TakeLock \/ Worker \/ PollFails
        \/ Broker \/ Break \/ Tick

Spec == Init /\ [][Next]_vars

(***************************************************************************)
(* Fairness.  The worker runs; everyone who waits for the API lock gets    *)
(* it, as FreeRTOS hands a mutex to the highest waiting priority and every *)
(* holder gives it up; a call that has begun returns.  Time passes: timers *)
(* run out again and again.  Data that has arrived is read at some turn,   *)
(* and of all attempts to connect one succeeds.  The broker answers.       *)
(***************************************************************************)
WorkerFair ==
    /\ WF_vars(Worker) /\ SF_vars(TakeLock)
    /\ \A c \in Callers : SF_vars(Called(c))
    /\ WF_vars(Tick)
    /\ SF_vars(ReconnectDue)

BrokerFair ==
    /\ SF_vars(ConnectAccepted)
    /\ SF_vars(ReceiveData)
    /\ SF_vars(Retransmit) /\ SF_vars(NothingOld) /\ SF_vars(RetransmitPubrel)
    /\ WF_vars(Broker)

FairSpec == Spec /\ WorkerFair

-----------------------------------------------------------------------------
(***************************************************************************)
(* Properties.                                                             *)
(***************************************************************************)

\* What the application is told about a message, and what the broker got of it,
\* is what MqttDelivery promises: PUBLISHED comes at most once and only after
\* the broker has the message, and QoS 2 delivers it at most once when the
\* session persists (mqtt_client.c:1762-1843, emqtt.h:17-18).
Delivery == INSTANCE MqttDelivery
            WITH Ids <- Ids, QosOf <- QosOf, CleanSession <- CleanSession,
                 promise <- promise, delivered <- delivered
DeliveryKept == Delivery!Spec

\* DUP is set exactly when the packet was written before, on this connection or
\* an earlier one (docs/en/index.rst:182-184; mqtt_client.c:880-900, 1888-1893).
DupMarksRetry ==
    \A k \in DOMAIN up :
        up[k].type = "PUBLISH" /\ up[k].qos > 0 => up[k].dup = up[k].again

\* The client never has more publishes under way than the broker allows, but
\* for the PUBCOMPs of PUBRELs it carried over (mqtt_client.c:874-900, 2120-2135).
WithinReceiveMaximum ==
    Version5 => Cardinality(inflight) <= ReceiveMaximum + Cardinality(carried)

\* One worker at a time, one caller that joins it, and no other call clears the
\* handle of a task that runs (mqtt_client.c:2243-2254, 2358-2382).
OneWorker ==
    /\ pc # "none" => task
    /\ run => task /\ ~stopping
    /\ stopping <=> \E c \in Callers : caller[c] = "join"
    /\ \A c, d \in Callers : caller[c] = "join" /\ caller[d] = "join" => c = d
    /\ stopping => task

\* esp_mqtt_client_stop returns (mqtt_client.c:2378).
StopReturns == \A c \in Callers : (caller[c] = "join") ~> (caller[c] = "idle")

\* A connection that has died is given up, even if no read and no write ever
\* reports it (mqtt_client.c:810-839).
DeadLinkFound == (state = "CONNECTED" /\ link = "broken") ~> (state # "CONNECTED")

\* With a broker that answers and a network that stops failing, a client that
\* keeps running publishes every message it stored
\* (mqtt_client.c:2119-2174; include/mqtt_client.h:573-574).
PublishSettles ==
    BrokerFair => \A i \in Ids :
        (promise[i] = "accepted") ~> (promise[i] = "published" \/ ~run)

\* Old unacknowledged SUB/UNSUB packets must not replay (mqtt_client.c:1022-1025).
NoReplayedRequest ==
    CleanSession => \A k \in DOMAIN up : up[k].type \in Requests => ~up[k].old

\* A message held for quota is sent when quota is available: the counter is not
\* at its limit once the broker has answered everything
\* (include/mqtt_client.h:573-574).  This holds only where Expires = FALSE: a
\* message that expires in flight stays counted (mqtt_client.c:1952-1973) until
\* the next connection.
QuotaReturned == sent >= ReceiveMaximum => inflight # {}
=============================================================================
