---------------------------- MODULE EmqttRuntime ----------------------------
(***************************************************************************)
(* The runtime layer of runtime/emqtt.c: one owner task that calls every   *)
(* public function, and the SDK worker, whose events reach the runtime     *)
(* through the synchronous callback on_event.  The two share four objects  *)
(* without a common lock: the notice queue, the queue of free message      *)
(* slots, the table of completed messages, and the overflow flag.  Every   *)
(* access to one of them is a step of its own; the SDK API lock, which the *)
(* worker holds for the whole of a callback, is LockFree.                  *)
(*                                                                         *)
(* The SDK and the broker behind it are the environment: sdk, outbox,      *)
(* broker and wire keep as much of them as decides which event can come.   *)
(***************************************************************************)
EXTENDS Integers, Sequences, FiniteSets, SequencesExt

CONSTANTS
    Filters,            \* topic filters the application can name
    NoFilter,           \* the cleared pending_subscription
    QosOf,              \* the QoS each filter is requested with
    ConfigSubs,         \* config->subscriptions, a sequence of filters
    SubscriptionsMax,   \* EMQTT_SUBSCRIPTIONS_MAX
    Ids,                \* MQTT packet identifiers
    NoId,               \* "no identifier": -1 in the code
    OutboxLimit,        \* messages the SDK outbox accepts
    MessageSlots,       \* MESSAGE_SLOTS
    NoticeCapacity,     \* NOTICE_CAPACITY
    PayloadMax,         \* EMQTT_PAYLOAD_MAX, in units of one DATA fragment
    InboundLengths,     \* lengths of the messages the broker sends, same unit
    StopMayFail         \* whether esp_mqtt_client_stop may return an error

ASSUME SlotsAssumption    == MessageSlots \in Nat \ {0}
ASSUME CapacityAssumption == NoticeCapacity \in Nat \ {0}
ASSUME PayloadAssumption  == PayloadMax \in Nat /\ InboundLengths \subseteq Nat
ASSUME FiltersAssumption  == /\ NoFilter \notin Filters
                             /\ QosOf \in [Filters -> {0, 1}]
                             /\ SubscriptionsMax \in Nat
                             /\ ConfigSubs \in Seq(Filters)
                             /\ Len(ConfigSubs) <= SubscriptionsMax
                             /\ IsInjective(ConfigSubs)
ASSUME IdsAssumption      == NoId \notin Ids
ASSUME StopAssumption     == StopMayFail \in BOOLEAN
ASSUME LimitAssumption    == OutboxLimit \in Nat

Slots    == 0 .. MessageSlots - 1
NoSlot   == -1
AllSlots == [i \in 1 .. MessageSlots |-> i - 1]

States == {"STOPPED", "CONNECTING", "SUBSCRIBING", "READY", "DISCONNECTED", "FAILED"}
Kinds  == {"NONE", "CONNECTED", "DISCONNECTED", "SUBACK", "UNSUBSCRIBED",
           "PUBACK", "DELETED", "MESSAGE", "ERROR"}
Errors == {"NONE", "SUBSCRIPTION", "FRAGMENT", "EXPIRED", "SDK"}

(***************************************************************************)
(* notice_t.  "late" stands for arrived_us >= subscription_deadline_us;    *)
(* the error "SDK" stands for every class that poll treats alike           *)
(* (TRANSPORT, TLS, AUTH, BROKER, SDK); an empty "codes" in a SUBACK is a  *)
(* payload of a length on_event refuses.                                   *)
(***************************************************************************)
SubackCodes == {0, 1, 128}
Notice == [kind : Kinds, id : Ids \cup {NoId}, slot : Slots \cup {NoSlot},
           late : BOOLEAN, codes : Seq(SubackCodes), error : Errors]

NoNotice == [kind |-> "NONE", id |-> NoId, slot |-> NoSlot, late |-> FALSE,
             codes |-> << >>, error |-> "NONE"]

VARIABLES
    \* fields only the owner task touches
    state, started, faulted, subscriptions, pending,
    deadlineHit,        \* now >= subscription_deadline_us
    \* shared between the owner and the callback
    notices, freeSlots, messages, overflow,
    \* fields only the callback touches while the worker runs
    receiver,
    \* program counters
    owner, worker,
    \* the SDK and the broker
    sdk, outbox, broker,
    \* history: the publishes the application still waits for, and the filters
    \* that are subscribed as far as the broker has answered the request the
    \* runtime waits for (a filter it is asked to add is not, until it grants it;
    \* one it is asked to remove is, until it acknowledges that)
    awaiting, confirmed

ownerVars  == <<state, started, faulted, subscriptions, pending, deadlineHit>>
sharedVars == <<notices, freeSlots, messages, overflow>>
sdkVars    == <<sdk, outbox, broker>>
history    == <<awaiting, confirmed>>
vars == <<ownerVars, sharedVars, receiver, owner, worker, sdkVars, history>>

Pending == [subscribe : Ids \cup {NoId}, count : Nat, dynamic : BOOLEAN,
            subscription : Filters \cup {NoFilter},
            unsubscribe : Ids \cup {NoId}, index : Nat]

\* clear_pending also zeroes the deadline, which leaves it in the past.
ClearedPending == [subscribe |-> NoId, count |-> 0, dynamic |-> FALSE,
                   subscription |-> NoFilter, unsubscribe |-> NoId, index |-> 0]

Receiver == [buffer : BOOLEAN, slot : Slots \cup {NoSlot}, length : Nat,
             active : BOOLEAN, received : Nat]
IdleReceiver == [buffer |-> FALSE, slot |-> NoSlot, length |-> 0,
                 active |-> FALSE, received |-> 0]

OutboxItem == [id : Ids, type : {"PUBLISH", "SUBSCRIBE", "UNSUBSCRIBE"},
               topics : Seq(Filters)]

Message(type, id, topics) == [id |-> id, type |-> type, topics |-> topics]
OutboxIds == {o.id : o \in outbox}
SessionRequests == {o \in outbox : o.type # "PUBLISH"}

OwnerControl  == [pc : {"none", "idle", "recv", "submit", "release", "stop", "join"},
                  after : {"stop", "fail", "destroy"}, slot : Slots \cup {NoSlot}]
WorkerControl == [pc : {"free", "alloc", "receive", "reading", "post", "drop", "abort"},
                  then : {"free", "reading", "abort"}, n : Notice,
                  wire : [total : Nat, offset : Nat]]
SdkControl    == [run : BOOLEAN, link : BOOLEAN, task : {"none", "alive", "exited"}]

TypeFlags ==
    /\ started \in BOOLEAN /\ faulted \in BOOLEAN /\ deadlineHit \in BOOLEAN
    /\ overflow \in BOOLEAN

TypeQueues ==
    /\ subscriptions \in Seq(Filters) /\ Len(subscriptions) <= SubscriptionsMax
    /\ notices \in Seq(Notice) /\ Len(notices) <= NoticeCapacity
    /\ freeSlots \in Seq(Slots) /\ Len(freeSlots) <= MessageSlots

TypeRecords ==
    /\ state \in States /\ pending \in Pending
    /\ messages \in [Slots -> BOOLEAN]
    /\ receiver \in Receiver /\ owner \in OwnerControl /\ worker \in WorkerControl

TypeSdk ==
    /\ sdk \in SdkControl
    /\ outbox \subseteq OutboxItem /\ broker \subseteq Filters
    /\ awaiting \subseteq Ids /\ confirmed \subseteq Filters

\* Every variable holds a value of its C type; the queues stay within the
\* lengths they were created with (emqtt.c:36-79, 369-370).
TypeOK == TypeFlags /\ TypeQueues /\ TypeRecords /\ TypeSdk

OwnerAt(pc)   == [pc |-> pc, after |-> "stop", slot |-> NoSlot]
WorkerIdle    == [pc |-> "free", then |-> "free", n |-> NoNotice,
                  wire |-> [total |-> 0, offset |-> 0]]

LockFree == worker.pc = "free"

Init ==
    /\ state = "STOPPED" /\ started = FALSE /\ faulted = FALSE
    /\ subscriptions = << >> /\ pending = ClearedPending /\ deadlineHit = TRUE
    /\ notices = << >> /\ freeSlots = AllSlots
    /\ messages = [s \in Slots |-> FALSE] /\ overflow = FALSE
    /\ receiver = IdleReceiver
    /\ owner = OwnerAt("none") /\ worker = WorkerIdle
    /\ sdk = [run |-> FALSE, link |-> FALSE, task |-> "none"]
    /\ outbox = {} /\ broker = {}
    /\ awaiting = {} /\ confirmed = {}

-----------------------------------------------------------------------------
(***************************************************************************)
(* Helpers of emqtt.c.                                                     *)
(***************************************************************************)

\* xQueueSend of a slot token to free_slots, whose length is MESSAGE_SLOTS.
TokenSent(slot) == IF slot # NoSlot /\ Len(freeSlots) < MessageSlots
                   THEN Append(freeSlots, slot) ELSE freeSlots
TokenRefused(slot) == slot # NoSlot /\ Len(freeSlots) >= MessageSlots

MutTokenKept ==
    /\ receiver' = IdleReceiver
    /\ UNCHANGED <<freeSlots, overflow>>

\* release_receiver_slot
ReleaseReceiver ==
    /\ receiver' = IdleReceiver
    /\ freeSlots' = TokenSent(receiver.slot)
    /\ overflow' = (overflow \/ TokenRefused(receiver.slot))

\* drain: runs only while no callback can.
Drain ==
    /\ receiver' = IdleReceiver
    /\ notices' = << >>
    /\ messages' = [s \in Slots |-> FALSE]
    /\ freeSlots' = AllSlots
    /\ overflow' = FALSE
    /\ pending' = ClearedPending /\ deadlineHit' = TRUE

MutCodesUnchecked(codes, requested, count) == count > 0 /\ Len(codes) = count

\* emqtt_suback_valid
SubackValid(codes, requested, count) ==
    /\ count > 0 /\ Len(codes) = count
    /\ \A i \in 1 .. count : codes[i] <= 1 /\ codes[i] <= QosOf[requested[i]]

\* A callback the SDK makes on the owner's own stack: it reports a failed
\* write from inside an API call, with the lock held.
PostTransportError ==
    IF Len(notices) < NoticeCapacity
    THEN /\ notices' = Append(notices, [NoNotice EXCEPT !.kind = "ERROR", !.error = "SDK",
                                                        !.late = deadlineHit])
         /\ UNCHANGED overflow
    ELSE overflow' = TRUE /\ UNCHANGED notices

\* The identifiers a new packet can get: append_message_id draws one of 65535,
\* here one that nothing in flight carries.
FreshIds == Ids \ (OutboxIds \cup awaiting \cup {pending.subscribe, pending.unsubscribe}
                   \cup {notices[i].id : i \in DOMAIN notices})

FailClosed == [pc |-> "stop", after |-> "fail", slot |-> NoSlot]

-----------------------------------------------------------------------------
(***************************************************************************)
(* The owner task: lifetime.                                               *)
(***************************************************************************)
Create ==
    /\ owner.pc = "none"
    /\ owner' = OwnerAt("idle")
    /\ state' = "STOPPED" /\ started' = FALSE /\ faulted' = FALSE
    /\ subscriptions' = ConfigSubs
    /\ Drain
    /\ UNCHANGED <<worker, sdkVars, history>>

Start ==
    /\ owner.pc = "idle" /\ ~started
    /\ Drain /\ faulted' = FALSE
    /\ \/ /\ started' = TRUE /\ state' = "CONNECTING"
          /\ sdk' = [run |-> TRUE, link |-> FALSE, task |-> "alive"]
       \/ /\ state' = "FAILED"
          /\ UNCHANGED <<started, sdk>>
    /\ UNCHANGED <<subscriptions, owner, worker, outbox, broker, history>>

\* emqtt_stop and emqtt_destroy, called by the application.
Stop ==
    /\ owner.pc = "idle"
    /\ \E after \in {"stop", "destroy"} :
          owner' = [pc |-> "stop", after |-> after, slot |-> NoSlot]
    /\ UNCHANGED <<ownerVars, sharedVars, receiver, worker, sdkVars, history>>

\* The end of emqtt_stop, and of the fail_closed or emqtt_destroy around it.
Stopped ==
    /\ Drain
    /\ started' = FALSE
    /\ faulted' = (owner.after = "fail")
    /\ state' = IF owner.after = "fail" THEN "FAILED" ELSE "STOPPED"
    /\ subscriptions' = IF owner.after = "destroy" THEN << >> ELSE subscriptions
    /\ owner' = OwnerAt(IF owner.after = "destroy" THEN "none" ELSE "idle")
    /\ awaiting' = {} /\ confirmed' = {}

StopNotStarted ==
    /\ owner.pc = "stop" /\ ~started
    /\ Stopped
    /\ UNCHANGED <<worker, sdkVars>>

\* esp_mqtt_client_stop: send DISCONNECT if connected, ask the worker to end.
StopCall ==
    /\ owner.pc = "stop" /\ started /\ LockFree
    /\ sdk' = [sdk EXCEPT !.run = FALSE]
    /\ owner' = [owner EXCEPT !.pc = "join"]
    /\ \/ UNCHANGED <<notices, overflow>>
       \/ sdk.link /\ PostTransportError
    /\ UNCHANGED <<ownerVars, freeSlots, messages, receiver, worker,
                   outbox, broker, history>>

StopRefused ==
    /\ owner.pc = "stop" /\ started /\ LockFree /\ StopMayFail
    /\ state' = "FAILED"
    /\ faulted' = (faulted \/ owner.after = "fail")
    /\ owner' = OwnerAt("idle")
    /\ UNCHANGED <<started, subscriptions, pending, deadlineHit, sharedVars,
                   receiver, worker, sdkVars, history>>

MutNoJoin ==
    /\ owner.pc = "join"
    /\ Stopped
    /\ UNCHANGED <<worker, sdkVars>>

\* The wait for STOPPED_BIT ends, the runtime drains.
StopJoined ==
    /\ owner.pc = "join" /\ sdk.task = "exited"
    /\ sdk' = [sdk EXCEPT !.task = "none"]
    /\ Stopped
    /\ UNCHANGED <<worker, outbox, broker>>

-----------------------------------------------------------------------------
(***************************************************************************)
(* The owner task: requests to the SDK.                                    *)
(***************************************************************************)

\* A SUBSCRIBE or UNSUBSCRIBE the SDK accepted: the 10 s wait starts, and no
\* notice that is already there has arrived after its end.
RequestSent(type, topics, id, request) ==
    /\ sdk.link /\ sdk.run
    /\ outbox' = outbox \cup {Message(type, id, topics)}
    /\ pending' = request
    /\ deadlineHit' = FALSE
    /\ notices' = [i \in DOMAIN notices |-> [notices[i] EXCEPT !.late = FALSE]]
    /\ state' = "SUBSCRIBING"
    /\ owner' = OwnerAt("idle")
    /\ confirmed' = IF type = "SUBSCRIBE" THEN confirmed \ Range(topics)
                    ELSE confirmed \cup Range(topics)
    /\ UNCHANGED <<faulted, overflow>>

\* The SDK refused it, or stored it and failed to write it.  The SDK tests for
\* CONNECTED before it takes its lock: the connection may be gone by then.
RequestRefused(type, topics) ==
    /\ owner' = FailClosed
    /\ state' = "FAILED"
    /\ \/ UNCHANGED <<outbox, notices, overflow>>
       \/ /\ sdk.run
          /\ \E id \in FreshIds : outbox' = outbox \cup {Message(type, id, topics)}
          /\ PostTransportError
    /\ UNCHANGED <<faulted, pending, deadlineHit, confirmed>>

\* submit_subscriptions for a non-empty list
SubmitSubscriptions(topics, dynamic, filter) ==
    /\ LockFree
    /\ \/ \E id \in FreshIds :
             RequestSent("SUBSCRIBE", topics, id,
                [ClearedPending EXCEPT !.subscribe = id, !.count = Len(topics),
                    !.dynamic = dynamic, !.subscription = filter])
       \/ RequestRefused("SUBSCRIBE", topics)
    /\ UNCHANGED <<started, subscriptions, freeSlots, messages, receiver, worker,
                   sdk, broker, awaiting>>

Subscribe ==
    /\ owner.pc = "idle" /\ state = "READY"
    /\ Len(subscriptions) < SubscriptionsMax
    /\ \E f \in Filters \ Range(subscriptions) : SubmitSubscriptions(<<f>>, TRUE, f)

Unsubscribe ==
    /\ owner.pc = "idle" /\ state = "READY" /\ LockFree
    /\ \E k \in DOMAIN subscriptions :
          \/ \E id \in FreshIds :
                RequestSent("UNSUBSCRIBE", <<subscriptions[k]>>, id,
                    [ClearedPending EXCEPT !.unsubscribe = id, !.index = k])
          \/ RequestRefused("UNSUBSCRIBE", <<subscriptions[k]>>)
    /\ UNCHANGED <<started, subscriptions, freeSlots, messages, receiver, worker,
                   sdk, broker, awaiting>>

\* emqtt_enqueue at QoS 1; a refusal (OUTBOX_FULL, no memory) changes nothing.
Enqueue ==
    /\ owner.pc = "idle" /\ started /\ state # "FAILED" /\ LockFree
    /\ Cardinality(outbox) < OutboxLimit
    /\ \E id \in FreshIds :
          /\ outbox' = outbox \cup {Message("PUBLISH", id, << >>)}
          /\ awaiting' = awaiting \cup {id}
    /\ UNCHANGED <<ownerVars, sharedVars, receiver, owner, worker, sdk, broker, confirmed>>

-----------------------------------------------------------------------------
(***************************************************************************)
(* The owner task: emqtt_poll.                                             *)
(***************************************************************************)
MutLossIgnored ==
    /\ owner.pc = "idle" /\ ~faulted
    /\ owner' = OwnerAt("recv")
    /\ UNCHANGED <<ownerVars, sharedVars, receiver, worker, sdkVars, history>>

MutPollUntilReady ==
    /\ owner.pc = "idle" /\ ~faulted /\ (overflow \/ state # "READY")
    /\ owner' = IF overflow THEN FailClosed ELSE OwnerAt("recv")
    /\ overflow' = FALSE
    /\ UNCHANGED <<ownerVars, notices, freeSlots, messages, receiver, worker,
                   sdkVars, history>>

PollBegin ==
    /\ owner.pc = "idle" /\ ~faulted
    /\ owner' = IF overflow THEN FailClosed ELSE OwnerAt("recv")
    /\ overflow' = FALSE
    /\ UNCHANGED <<ownerVars, notices, freeSlots, messages, receiver, worker,
                   sdkVars, history>>

PollEmpty ==
    /\ owner.pc = "recv" /\ notices = << >>
    /\ owner' = IF state = "SUBSCRIBING" /\ deadlineHit THEN FailClosed ELSE OwnerAt("idle")
    /\ UNCHANGED <<ownerVars, sharedVars, receiver, worker, sdkVars, history>>

Notified == Head(notices)

Taken == /\ owner.pc = "recv" /\ notices # << >>
         /\ UNCHANGED <<started, faulted, freeSlots, messages, overflow, receiver, worker,
                        sdkVars, confirmed>>

MutNeverLate == FALSE

\* An event that arrived after the deadline cannot prolong the wait.
Late == state = "SUBSCRIBING" /\ Notified.late

\* xQueueReceive of a notice of one of these kinds
Handles(kinds) == Taken /\ ~Late /\ Notified.kind \in kinds /\ notices' = Tail(notices)

\* What a late notice carries stays with the owner until fail_closed drains.
PollLate ==
    /\ Taken /\ Late /\ notices' = Tail(notices)
    /\ owner' = [FailClosed EXCEPT !.slot = Notified.slot]
    /\ UNCHANGED <<state, subscriptions, pending, deadlineHit, awaiting>>

PollConnected ==
    /\ Handles({"CONNECTED"})
    /\ pending' = ClearedPending /\ deadlineHit' = TRUE
    /\ IF subscriptions = << >>
       THEN state' = "READY" /\ owner' = OwnerAt("idle")
       ELSE owner' = OwnerAt("submit") /\ UNCHANGED state
    /\ UNCHANGED <<subscriptions, awaiting>>

Resubscribe ==
    /\ owner.pc = "submit"
    /\ SubmitSubscriptions(subscriptions, FALSE, NoFilter)

Requested == IF pending.dynamic THEN <<pending.subscription>> ELSE subscriptions

SubackAccepted == /\ pending.subscribe # NoId /\ Notified.id = pending.subscribe
                  /\ state = "SUBSCRIBING"
                  /\ SubackValid(Notified.codes, Requested, pending.count)

UnsubackAccepted == /\ pending.unsubscribe # NoId /\ Notified.id = pending.unsubscribe
                    /\ state = "SUBSCRIBING"

MutPendingKept(accepted, list) ==
    /\ IF accepted
       THEN state' = "READY" /\ subscriptions' = list /\ owner' = OwnerAt("idle")
       ELSE owner' = FailClosed /\ UNCHANGED <<state, subscriptions>>
    /\ deadlineHit' = TRUE
    /\ UNCHANGED <<pending, awaiting>>

\* An acknowledgement: the request is over, granted with a new list or failed.
Acknowledged(accepted, list) ==
    /\ IF accepted
       THEN state' = "READY" /\ subscriptions' = list /\ owner' = OwnerAt("idle")
       ELSE owner' = FailClosed /\ UNCHANGED <<state, subscriptions>>
    /\ pending' = ClearedPending /\ deadlineHit' = TRUE
    /\ UNCHANGED awaiting

PollSuback ==
    /\ Handles({"SUBACK"})
    /\ Acknowledged(SubackAccepted,
                    IF pending.dynamic THEN Append(subscriptions, pending.subscription)
                    ELSE subscriptions)

PollUnsubscribed ==
    /\ Handles({"UNSUBSCRIBED"})
    /\ Acknowledged(UnsubackAccepted, RemoveAt(subscriptions, pending.index))

MutWishKept ==
    /\ Handles({"DISCONNECTED"})
    /\ subscriptions' = IF pending.dynamic THEN Append(subscriptions, pending.subscription)
                        ELSE subscriptions
    /\ pending' = ClearedPending /\ deadlineHit' = TRUE
    /\ state' = "DISCONNECTED"
    /\ owner' = OwnerAt("idle")
    /\ UNCHANGED awaiting

PollDisconnected ==
    /\ Handles({"DISCONNECTED"})
    /\ pending' = ClearedPending /\ deadlineHit' = TRUE
    /\ state' = "DISCONNECTED"
    /\ owner' = OwnerAt("idle")
    /\ UNCHANGED <<subscriptions, awaiting>>

PollMessage ==
    /\ Handles({"MESSAGE"})
    /\ owner' = [OwnerAt("release") EXCEPT !.slot = Notified.slot]
    /\ UNCHANGED <<state, subscriptions, pending, deadlineHit, awaiting>>

\* The owner has copied messages[slot]: release_message_slot.
ReleaseMessage ==
    /\ owner.pc = "release"
    /\ messages' = [messages EXCEPT ![owner.slot] = FALSE]
    /\ freeSlots' = TokenSent(owner.slot)
    /\ overflow' = (overflow \/ TokenRefused(owner.slot))
    /\ owner' = OwnerAt("idle")
    /\ UNCHANGED <<ownerVars, notices, receiver, worker, sdkVars, history>>

\* A bad fragment costs one message; every other SDK error leaves the session
\* FAILED until the SDK reconnects.
PollError ==
    /\ Handles({"ERROR"})
    /\ owner' = IF Notified.error = "SUBSCRIPTION" THEN FailClosed ELSE OwnerAt("idle")
    /\ state' = IF Notified.error \in {"SUBSCRIPTION", "FRAGMENT"} THEN state ELSE "FAILED"
    /\ UNCHANGED <<subscriptions, pending, deadlineHit, awaiting>>

\* PUBACK and DELETED are handed to the application as they are.
PollCompletion ==
    /\ Handles({"PUBACK", "DELETED"})
    /\ awaiting' = awaiting \ {Notified.id}
    /\ owner' = OwnerAt("idle")
    /\ UNCHANGED <<state, subscriptions, pending, deadlineHit>>

-----------------------------------------------------------------------------
(***************************************************************************)
(* The SDK worker.  Callback enters on_event; "then" is where the worker   *)
(* goes on when the callback returns.                                      *)
(***************************************************************************)
Callback(n, then) == worker' = [worker EXCEPT !.pc = "post", !.then = then, !.n = n]

\* The notice an event starts from: only its arrival time is known.
Arrived == [NoNotice EXCEPT !.late = deadlineHit]

Returned == IF worker.then = "free" THEN WorkerIdle
            ELSE [worker EXCEPT !.pc = worker.then, !.then = "free", !.n = NoNotice]

Alive == sdk.task = "alive" /\ worker.pc = "free"

SdkConnected ==
    /\ Alive /\ sdk.run /\ ~sdk.link
    /\ sdk' = [sdk EXCEPT !.link = TRUE]
    /\ broker' = {}
    /\ ReleaseReceiver
    /\ Callback([Arrived EXCEPT !.kind = "CONNECTED"], "free")
    /\ UNCHANGED <<ownerVars, notices, messages, owner, outbox, history>>

\* esp_mqtt_abort_connection: the connection, the unacknowledged SUBSCRIBE and
\* UNSUBSCRIBE packets and the broker's clean session end together.
Abort ==
    /\ sdk' = [sdk EXCEPT !.link = FALSE]
    /\ outbox' = outbox \ SessionRequests
    /\ broker' = {}
    /\ ReleaseReceiver
    /\ Callback([Arrived EXCEPT !.kind = "DISCONNECTED"], "free")
    /\ UNCHANGED <<ownerVars, notices, messages, owner, history>>

SdkDisconnected == Alive /\ (sdk.run \/ sdk.link) /\ Abort

SdkAbort == worker.pc = "abort" /\ Abort

\* A transport error, or a refused CONNECT, and then the abort; a read error
\* in the middle of a message does the same.
SdkError ==
    /\ \/ Alive /\ sdk.run
       \/ worker.pc = "reading"
    /\ Callback([Arrived EXCEPT !.kind = "ERROR", !.error = "SDK"], "abort")
    /\ UNCHANGED <<ownerVars, sharedVars, receiver, owner, sdkVars, history>>

\* No transport can be created: the worker reports it and ends its loop.
SdkStartError ==
    /\ Alive /\ sdk.run /\ ~sdk.link
    /\ sdk' = [sdk EXCEPT !.run = FALSE]
    /\ Callback([Arrived EXCEPT !.kind = "ERROR", !.error = "SDK"], "free")
    /\ UNCHANGED <<ownerVars, sharedVars, receiver, owner, outbox, broker, history>>

SdkSuback ==
    /\ Alive /\ sdk.run /\ sdk.link
    /\ \E o \in outbox : \E codes \in [DOMAIN o.topics -> SubackCodes] \cup {<< >>} :
          /\ o.type = "SUBSCRIBE"
          /\ outbox' = outbox \ {o}
          /\ LET granted == {o.topics[i] : i \in {j \in DOMAIN codes : codes[j] <= 1}}
             IN  /\ broker' = broker \cup granted
                 /\ confirmed' = IF o.id = pending.subscribe THEN confirmed \cup granted
                                 ELSE confirmed
          /\ Callback([Arrived EXCEPT !.kind = "SUBACK", !.id = o.id, !.codes = codes], "free")
    /\ UNCHANGED <<ownerVars, sharedVars, receiver, owner, sdk, awaiting>>

SdkUnsuback ==
    /\ Alive /\ sdk.run /\ sdk.link
    /\ \E o \in outbox :
          /\ o.type = "UNSUBSCRIBE"
          /\ outbox' = outbox \ {o}
          /\ broker' = broker \ Range(o.topics)
          /\ confirmed' = IF o.id = pending.unsubscribe THEN confirmed \ Range(o.topics)
                          ELSE confirmed
          /\ Callback([Arrived EXCEPT !.kind = "UNSUBSCRIBED", !.id = o.id], "free")
    /\ UNCHANGED <<ownerVars, sharedVars, receiver, owner, sdk, awaiting>>

SdkPuback ==
    /\ Alive /\ sdk.run /\ sdk.link
    /\ \E o \in outbox :
          /\ o.type = "PUBLISH"
          /\ outbox' = outbox \ {o}
          /\ Callback([Arrived EXCEPT !.kind = "PUBACK", !.id = o.id], "free")
    /\ UNCHANGED <<ownerVars, sharedVars, receiver, owner, sdk, broker, history>>

\* mqtt_delete_expired_messages: 30 s after it was stored, so a request the
\* runtime waits for only after its 10 s deadline.
SdkExpired ==
    /\ Alive
    /\ \E o \in outbox :
          /\ o.id \in {pending.subscribe, pending.unsubscribe} => deadlineHit
          /\ outbox' = outbox \ {o}
          /\ Callback([Arrived EXCEPT !.kind = "DELETED", !.id = o.id, !.error = "EXPIRED"],
                      "free")
    /\ UNCHANGED <<ownerVars, sharedVars, receiver, owner, sdk, broker, history>>

\* The loop of esp_mqtt_task ends once run is cleared.
SdkExit ==
    /\ Alive /\ ~sdk.run
    /\ sdk' = [sdk EXCEPT !.task = "exited", !.link = FALSE]
    /\ outbox' = {}
    /\ broker' = {}
    /\ UNCHANGED <<ownerVars, sharedVars, receiver, owner, worker, history>>

DeadlinePasses ==
    /\ ~deadlineHit
    /\ deadlineHit' = TRUE
    /\ UNCHANGED <<state, started, faulted, subscriptions, pending, sharedVars, receiver,
                   owner, worker, sdkVars, history>>

-----------------------------------------------------------------------------
(***************************************************************************)
(* The SDK worker: MQTT_EVENT_DATA.  worker.wire is the fragment that      *)
(* deliver_publish dispatches: number offset of a message of total         *)
(* fragments.  The worker keeps the lock until the last one, or until a    *)
(* read times out.                                                         *)
(***************************************************************************)
MoreToRead(w) == IF w.offset + 1 < w.total THEN "reading" ELSE "free"

\* The head of the DATA case: reject a declared size, or take a slot if there
\* is one; a message that is already being received keeps its own.
Fragment(w) ==
    LET began == [WorkerIdle EXCEPT !.n = Arrived, !.wire = w]
    IN  /\ IF receiver.buffer
           THEN /\ worker' = [began EXCEPT !.pc = "receive"]
                /\ UNCHANGED <<receiver, freeSlots>>
           ELSE IF w.total > PayloadMax
           THEN /\ worker' = [began EXCEPT !.pc = "post", !.then = MoreToRead(w),
                                           !.n.kind = "ERROR", !.n.error = "FRAGMENT"]
                /\ UNCHANGED <<receiver, freeSlots>>
           ELSE /\ worker' = [began EXCEPT !.pc = "alloc"]
                /\ receiver' = [receiver EXCEPT !.slot = IF freeSlots = << >> THEN NoSlot
                                                         ELSE Head(freeSlots)]
                /\ freeSlots' = IF freeSlots = << >> THEN freeSlots ELSE Tail(freeSlots)
        /\ UNCHANGED <<ownerVars, notices, messages, overflow, owner, sdkVars, history>>

SdkPublish ==
    /\ Alive /\ sdk.run /\ sdk.link
    /\ \E total \in InboundLengths : Fragment([total |-> total, offset |-> 0])

SdkNextFragment ==
    /\ worker.pc = "reading"
    /\ Fragment([worker.wire EXCEPT !.offset = @ + 1])

\* deliver_publish takes a read timeout for the end of the message.
SdkReadTimeout ==
    /\ worker.pc = "reading"
    /\ worker' = WorkerIdle
    /\ UNCHANGED <<ownerVars, sharedVars, receiver, owner, sdkVars, history>>

AfterFragment == IF MoreToRead(worker.wire) = "free" THEN WorkerIdle
                 ELSE [worker EXCEPT !.pc = "reading", !.n = NoNotice]

AllocFails ==
    /\ worker.pc = "alloc"
    /\ freeSlots' = TokenSent(receiver.slot)
    /\ receiver' = [receiver EXCEPT !.slot = NoSlot]
    /\ overflow' = TRUE
    /\ worker' = AfterFragment
    /\ UNCHANGED <<ownerVars, notices, messages, owner, sdkVars, history>>

Allocated ==
    /\ worker.pc = "alloc"
    /\ receiver' = [receiver EXCEPT !.buffer = TRUE, !.length = worker.wire.total]
    /\ worker' = [worker EXCEPT !.pc = "receive"]
    /\ UNCHANGED <<ownerVars, sharedVars, owner, sdkVars, history>>

\* emqtt_receive_into for a fragment of one unit (of none, in an empty
\* message): refused unless it is the next one of the message it belongs to.  The
\* tests of topic, QoS and identifier are left out: they end in the same refusal.
Acceptable ==
    /\ worker.wire.total = receiver.length
    /\ worker.wire.offset = IF receiver.active THEN receiver.received ELSE 0
Filled == IF worker.wire.total = 0 THEN 0 ELSE worker.wire.offset + 1
Complete == Acceptable /\ Filled = receiver.length

ReceiveMore ==
    /\ worker.pc = "receive" /\ Acceptable /\ ~Complete
    /\ receiver' = [receiver EXCEPT !.active = TRUE, !.received = Filled]
    /\ worker' = AfterFragment
    /\ UNCHANGED <<ownerVars, sharedVars, owner, sdkVars, history>>

ReceiveRejected ==
    /\ worker.pc = "receive" /\ ~Acceptable
    /\ ReleaseReceiver
    /\ Callback([worker.n EXCEPT !.kind = "ERROR", !.error = "FRAGMENT"],
                MoreToRead(worker.wire))
    /\ UNCHANGED <<ownerVars, notices, messages, owner, sdkVars, history>>

\* A message received without a slot needs one now.
ReceiveNoSlot ==
    /\ worker.pc = "receive" /\ Complete
    /\ receiver.slot = NoSlot /\ freeSlots = << >>
    /\ receiver' = IdleReceiver
    /\ overflow' = TRUE
    /\ worker' = WorkerIdle
    /\ UNCHANGED <<ownerVars, notices, freeSlots, messages, owner, sdkVars, history>>

MutSlotKept == [IdleReceiver EXCEPT !.slot = receiver.slot]

\* The buffer is handed over, and the slot with it.
HandedOver == IdleReceiver

ReceiveComplete ==
    /\ worker.pc = "receive" /\ Complete
    /\ receiver.slot # NoSlot \/ freeSlots # << >>
    /\ LET slot == IF receiver.slot # NoSlot THEN receiver.slot ELSE Head(freeSlots)
       IN  /\ messages' = [messages EXCEPT ![slot] = TRUE]
           /\ Callback([worker.n EXCEPT !.kind = "MESSAGE", !.slot = slot], "free")
    /\ freeSlots' = IF receiver.slot # NoSlot THEN freeSlots ELSE Tail(freeSlots)
    /\ receiver' = HandedOver
    /\ UNCHANGED <<ownerVars, notices, overflow, owner, sdkVars, history>>

-----------------------------------------------------------------------------
(***************************************************************************)
(* The SDK worker: post.                                                   *)
(***************************************************************************)
MutPostUnbounded ==
    /\ worker.pc = "post"
    /\ notices' = Append(notices, worker.n)
    /\ worker' = Returned
    /\ UNCHANGED <<ownerVars, freeSlots, messages, overflow, receiver, owner, sdkVars,
                   history>>

Posted ==
    /\ worker.pc = "post" /\ Len(notices) < NoticeCapacity
    /\ notices' = Append(notices, worker.n)
    /\ worker' = Returned
    /\ UNCHANGED <<ownerVars, freeSlots, messages, overflow, receiver, owner, sdkVars,
                   history>>

PostFull ==
    /\ worker.pc = "post" /\ Len(notices) >= NoticeCapacity
    /\ worker' = [worker EXCEPT !.pc = "drop"]
    /\ UNCHANGED <<ownerVars, sharedVars, receiver, owner, sdkVars, history>>

MutLossUnflagged ==
    /\ worker.pc = "drop"
    /\ messages' = [s \in Slots |-> messages[s] /\ s # worker.n.slot]
    /\ freeSlots' = TokenSent(worker.n.slot)
    /\ worker' = Returned
    /\ UNCHANGED <<ownerVars, notices, overflow, receiver, owner, sdkVars, history>>

MutBufferKept ==
    /\ worker.pc = "drop"
    /\ freeSlots' = TokenSent(worker.n.slot)
    /\ overflow' = TRUE
    /\ worker' = Returned
    /\ UNCHANGED <<ownerVars, notices, messages, receiver, owner, sdkVars, history>>

\* The notice is lost: its message is released and the loss is flagged.
Dropped ==
    /\ worker.pc = "drop"
    /\ messages' = [s \in Slots |-> messages[s] /\ s # worker.n.slot]
    /\ freeSlots' = TokenSent(worker.n.slot)
    /\ overflow' = TRUE
    /\ worker' = Returned
    /\ UNCHANGED <<ownerVars, notices, receiver, owner, sdkVars, history>>

-----------------------------------------------------------------------------
Application == Create \/ Start \/ Stop \/ Subscribe \/ Unsubscribe \/ Enqueue
Stopping == StopNotStarted \/ StopCall \/ StopRefused \/ StopJoined
Poll == \/ PollBegin \/ PollEmpty \/ PollLate \/ PollConnected \/ Resubscribe
        \/ PollSuback \/ PollUnsubscribed \/ PollDisconnected \/ PollMessage
        \/ ReleaseMessage \/ PollError \/ PollCompletion
SdkEvent == \/ SdkConnected \/ SdkDisconnected \/ SdkError \/ SdkStartError
            \/ SdkSuback \/ SdkUnsuback \/ SdkPuback \/ SdkExpired \/ SdkPublish
SdkStep == \/ SdkAbort \/ SdkExit \/ SdkNextFragment \/ SdkReadTimeout
           \/ AllocFails \/ Allocated \/ ReceiveMore \/ ReceiveRejected
           \/ ReceiveNoSlot \/ ReceiveComplete \/ Posted \/ PostFull \/ Dropped

Next == Application \/ Stopping \/ Poll \/ SdkEvent \/ SdkStep \/ DeadlinePasses

Spec == Init /\ [][Next]_vars

(***************************************************************************)
(* Fairness.  The owner keeps polling and finishes the calls it has begun; *)
(* it waits for the API lock in a FreeRTOS mutex that the worker gives up  *)
(* in every turn of its loop, so lock steps are strongly fair.  A callback *)
(* that has begun returns, and time passes.  Nothing obliges the broker to *)
(* answer, the network to come back or the application to call anything.   *)
(***************************************************************************)
Fairness ==
    /\ WF_vars(StopNotStarted \/ StopJoined \/ Poll)
    /\ SF_vars(StopCall)
    /\ SF_vars(Resubscribe)
    /\ WF_vars(SdkStep)
    /\ WF_vars(DeadlinePasses)

FairSpec == Spec /\ Fairness

-----------------------------------------------------------------------------
(***************************************************************************)
(* Properties.                                                             *)
(***************************************************************************)
InFree(s)    == \E i \in DOMAIN freeSlots : freeSlots[i] = s
InNotices(s) == \E i \in DOMAIN notices : notices[i].slot = s

\* A slot that carries a completed message, from on_event to the end of poll.
Carries(s) == worker.n.slot = s \/ InNotices(s) \/ owner.slot = s

\* A slot has one owner at a time: the free queue, the message being received,
\* or one completed message, wherever the callback or the owner interrupt each
\* other.  Two owners would free one buffer twice (emqtt.c:171, 203, 300-314).
SlotHasOneOwner ==
    /\ IsInjective(freeSlots)
    /\ \A i, j \in DOMAIN notices :
          notices[i].slot = notices[j].slot /\ notices[i].slot # NoSlot => i = j
    /\ \A s \in Slots :
          /\ InFree(s) => receiver.slot # s /\ ~Carries(s)
          /\ receiver.slot = s => ~Carries(s)
          /\ InNotices(s) => worker.n.slot # s /\ owner.slot # s
          /\ worker.n.slot = s => owner.slot # s

\* No slot is ever lost, except to a session that has failed closed, whose next
\* drain refills the queue: three slots stay three slots however messages are
\* rejected, dropped or interrupted (emqtt.c:178-192, 262-318, 324-337).
NoSlotLost ==
    \A s \in Slots : InFree(s) \/ receiver.slot = s \/ Carries(s) \/ faulted

\* messages[slot] holds a buffer while a notice names the slot - poll follows
\* the pointer without a test (emqtt.c:550) - and none when the slot is free or
\* being received into, where storing one would leak what is there.
MessageHasBuffer ==
    \A s \in Slots : /\ Carries(s) => messages[s]
                     /\ InFree(s) \/ receiver.slot = s => ~messages[s]

\* What the owner has not yet seen of the session it believes in.
Unseen(kinds) ==
    \/ \E i \in DOMAIN notices : notices[i].kind \in kinds /\ notices[i].error # "FRAGMENT"
    \/ worker.n.kind \in kinds /\ worker.n.error # "FRAGMENT"

LossFlagged == overflow \/ worker.pc = "drop"

\* READY means what it says: once the owner has seen every session event and
\* none was lost, the connection is up and the broker's session holds exactly
\* the desired subscriptions (emqtt.c:458-475, 510-543).
ReadyMeansSubscribed ==
    /\ state = "READY" /\ owner.pc = "idle" /\ ~LossFlagged
    /\ ~Unseen({"CONNECTED", "DISCONNECTED", "SUBACK", "UNSUBSCRIBED", "ERROR"})
    => sdk.link /\ broker = Range(subscriptions)

\* A publish the application was told is queued is still in the outbox, or its
\* completion is on the way, as long as the session goes on and reports no loss
\* (emqtt.c:178-192, 484-492, 573-592).
NoSilentLoss ==
    /\ started /\ ~faulted /\ ~LossFlagged /\ sdk.task = "alive"
    /\ owner.pc \in {"idle", "recv", "submit", "release"}
    => awaiting \subseteq OutboxIds \cup {worker.n.id}
                            \cup {notices[i].id : i \in DOMAIN notices}

\* Between sessions nothing of the last one is left: no worker, no notice, no
\* buffer, every slot free.  The drain comes after the join (emqtt.c:427-438).
QuietWhenStopped ==
    ~started => /\ sdk.task = "none" /\ worker = WorkerIdle
                /\ notices = << >> /\ ~overflow /\ receiver = IdleReceiver
                /\ \A s \in Slots : ~messages[s]

\* The worker lives exactly as long as the session, and only a live worker is
\* inside a callback; the owner releases or joins only within a session.
SessionControl ==
    /\ started <=> sdk.task # "none"
    /\ sdk.run \/ sdk.link => sdk.task = "alive"
    /\ sdk.task # "alive" => worker.pc = "free"
    /\ owner.pc \in {"release", "join"} => started
    /\ owner.pc = "none" => ~started

\* A slot is in the worker's hand only around post, and it travels only with a
\* message; the receiver reserves one only for a buffer.
CallbackControl ==
    /\ worker.pc = "free" => worker = WorkerIdle
    /\ worker.n.slot # NoSlot => worker.pc \in {"post", "drop"}
    /\ worker.n.slot # NoSlot <=> worker.n.kind = "MESSAGE"
    /\ receiver.slot # NoSlot => receiver.buffer \/ worker.pc = "alloc"

NoticeControl ==
    \A i \in DOMAIN notices : notices[i].slot # NoSlot <=> notices[i].kind = "MESSAGE"

\* A slot is in the owner's hand only from the receipt of its notice to the
\* release, or to the drain of fail_closed.
OwnerSlotControl ==
    /\ owner.slot # NoSlot => owner.pc \in {"release", "stop", "join"}
    /\ owner.pc = "release" => owner.slot # NoSlot
    /\ owner.slot # NoSlot /\ owner.pc # "release" => owner.after = "fail"

\* A pending request still fits the list it was made for.
PendingFits ==
    /\ pending.dynamic => /\ pending.subscription \in Filters
                          /\ Len(subscriptions) < SubscriptionsMax
    /\ pending.unsubscribe # NoId => pending.index \in DOMAIN subscriptions

\* What makes the types and the slot properties inductive: who may act, and who
\* holds what, at every point of the callback and of poll (emqtt.c:217-322,
\* 427-482, 484-566).
ControlInv == /\ SessionControl /\ CallbackControl /\ NoticeControl
              /\ OwnerSlotControl /\ PendingFits

\* The desired list changes only when the acknowledgement of that very request
\* has been accepted: it gains the requested filter or loses the named one, the
\* rest keeps its order (emqtt.h:44-46; emqtt.c:518-543).
OnlyAcknowledgedChange ==
    [][ \/ subscriptions' = subscriptions
        \/ owner.pc = "none" \/ owner'.pc = "none"
        \/ \E f \in confirmed : subscriptions' = Append(subscriptions, f)
        \/ \E k \in DOMAIN subscriptions :
              /\ subscriptions[k] \notin confirmed
              /\ subscriptions' = RemoveAt(subscriptions, k) ]_vars

\* A lost notice ends the session: the next polls stop the SDK (emqtt.c:487-491).
LossEndsSession == (overflow /\ started) ~> (sdk.task = "none")

\* No wait for an acknowledgement outlasts its deadline, whatever keeps
\* arriving (emqtt.c:494-506).
WaitEnds == (state = "SUBSCRIBING") ~> (state # "SUBSCRIBING")

\* A completed message is handed over or discarded with its session; its slot
\* does not stay taken (emqtt.c:548-557).
MessageConsumed == \A s \in Slots : Carries(s) ~> ~Carries(s)
=============================================================================
