# A TLA+ model of esp-mqtt

The repository is an ESP-IDF component: the MQTT client derived from Espressif's
ESP-MQTT (`mqtt_client.c`, `mqtt5_client.c`, `lib/`) and a runtime layer above it
(`runtime/`) that gives one owner task a polled, bounded interface. This directory
holds TLA+ modules for its core, TLC runs that check them on small instances, and
proofs, checked by TLAPS, of the safety of the runtime, of the client, of the MQTT 5
session, of packet composition and of the receive path, for every size of their queues,
buffers and sets, and of the tests on texts, for texts of any length.

Paths below are relative to the repository's root.

## Inventory

| Component | State it keeps | Operations | What is hard about it |
|---|---|---|---|
| Runtime, `runtime/emqtt.c` | session state, desired subscriptions, one pending request and its deadline, notice queue, queue of free slots, completed messages, overflow flag, message being received | `emqtt_create/start/stop/destroy`, `emqtt_poll`, `emqtt_subscribe/unsubscribe/enqueue`, the callback `on_event` | the callback runs in the SDK's task and shares the queues with the owner; both queues have a limit; sessions end and begin again |
| Contract checks, `runtime/emqtt_contract.c` | none | `utf8`, `emqtt_topic_valid`, `emqtt_config_valid`, `emqtt_suback_valid` | first and last positions |
| Client, `mqtt_client.c` | `state`, `run`, status bits, task handle, `stopping`, keepalive and reconnect timers | `esp_mqtt_task` and the API: start, stop, disconnect, reconnect, publish, enqueue, subscribe, unsubscribe | one recursive lock, and several reads and writes outside it; lost connections, retransmission, expiry |
| Outbox, `lib/mqtt_outbox.c` | a list of packets, QUEUED, TRANSMITTED or ACKNOWLEDGED | enqueue, dequeue, delete, set_pending, expiry | order and state decide what is resent |
| Flow control, `mqtt5_client.c` | `send_publish_packet_count` | increment, decrement, test, reset on connect | must agree with what is really under way |
| MQTT 5 session, `mqtt5_client.c` | what the last CONNACK said, topics of the broker's aliases, alias maximum, the properties set for the next message of each kind | `esp_mqtt5_client_set_*_property`, `esp_mqtt5_parse_connack`, `esp_mqtt5_get_publish_data`, capability tests | all of it outlives the connection it was made for |
| Receive path, `mqtt_message_receive`, `deliver_publish` | `in_buffer` and how much of it is read | one call per turn, resumed in later turns | the stream is cut anywhere; packets larger than the buffer |
| Composition, `lib/mqtt_msg.c` | outbound buffer, two fragment fields | `mqtt_msg_*`, `fini_message` | fields that outlive their message |
| MQTT 5 codec, `lib/mqtt5_msg.c` | none of its own | `mqtt5_msg_*`, `mqtt5_get_*`, properties and their length | lengths of one or more bytes, blocks that end early, short forms |
| URI helpers, `lib/mqtt_utils/mqtt_utils.c` | none | percent decoding of user name and password | decodes in place |
| Transport, TLS, platform | configuration | setup calls | not modelled: external libraries |

How they interact: the application's owner task calls the runtime, the runtime calls
the client's API; the client's worker calls back into `on_event` while it holds the
API lock, and `on_event` hands notices to the owner through a queue without waiting.
The client takes packets from the API calls or its outbox to the transport, and bytes
from the transport to events.

What makes each correct: the runtime never loses or doubles a message slot, never
reports READY without the subscriptions, and never loses an event without ending the
session; the client keeps the promise of each QoS, has one worker, stops when told
and notices a dead connection; the receive path returns the packets that were sent;
every packet composed has the length it announces, and one of MQTT 5 reads back as it
was meant; an alias stands for the topic the broker gave it on this connection, and
the client keeps within what the broker said of itself.

`PROJECT.json` lists the hazards at their lines, with the properties that would catch
each.

## Modules

### EmqttRuntime

`runtime/emqtt.c` and `emqtt_receive_internal.h`. The owner's fields (`state`,
`started`, `faulted`, `subscriptions`, `pending`), the shared objects (`notices`,
`freeSlots`, `messages`, `overflow`), the receiver, and two program counters, `owner`
and `worker`. Every access to a shared object is a step: a `poll` is `PollBegin`,
then one action for the kind of notice it takes, then possibly `ReleaseMessage` or
the three steps of `fail_closed`; a callback is the SDK's event, the receiver's
steps, and `Posted`, or `PostFull` and `Dropped`. `LockFree` is the API lock, which
the worker holds during a callback.

The SDK is the environment: `sdk`, `outbox`, `broker` and `wire` keep what decides
which event can come next. A failed write inside an owner's call reports its error
through the callback in the owner's own task (`PostTransportError`). `StopMayFail`
allows `esp_mqtt_client_stop` to refuse. Time is the flag `deadlineHit` and the flag
`late` of a notice. Payloads are counted in fragments. `faulted` is true from
`fail_closed` to the next start. Histories: `awaiting` (publishes accepted and not
reported) and `confirmed` (filters whose acknowledgement was accepted).

### EmqttContract

The tests on texts as operators on sequences of bytes. `MCTexts` enumerates every
text over small alphabets and compares: a topic with its levels, a host name with its
labels, UTF-8 with decoding and encoding again, the length bytes of `MqttCodec` with
the number they stand for, and the credentials of a URI with those that were escaped.

### MqttUri

`esp_mqtt_decode_percent_encoded_string` and what `esp_mqtt_client_set_uri` makes of
the user info of a URI: split at the first colon, then decoded.

### MqttClient, MqttDelivery

`esp_mqtt_task` with one action for each part of a turn, the API calls beside it, the
outbox, and `lock`. What the code does under the lock in one go is one step, because
nobody else can look; a read of the state outside the lock (`Request`, `Reconnect`,
`Poll`, `LoopTest`) and the end of the task (`Purge`, `Exit`) are steps of their own.
`up` and `down` are the two directions of the connection. `Broker` answers, `Break`
loses the connection and what is on its way to the client, `Tick` is half a
keepalive interval.

Abstractions: time is a free choice (any item may be due or, with `Expires`, too
old); an identifier is drawn once (collisions are not modelled); a write is taken
whole or not at all (a partial write is a break followed by a failing write);
keepalive is not 0; inbound PUBLISH is left to MqttReceive; capability checks of
MQTT 5 belong to `PublishRefused` and `RequestRefused`. `Timely` is an assumption on
the environment: a live connection answers a ping in time, what has arrived is read,
and a write to a live connection succeeds unless both directions are full.

`MqttDelivery` says what the application may rely on, with nothing of packets: a
stored message is accepted, then published, deleted or dropped; published only after
the broker has it; at QoS 2 in a persistent session the broker passes it on at most
once. `MqttClient` implements it (`DeliveryKept`); the mapping is the identity on
`promise` and `delivered`, which are histories of `MqttClient`.

`Get`, `Delete`, `SetPending` and `DeleteTypes` are the walks of `lib/mqtt_outbox.c`: the
first match, or every item of a type.

### MqttCodec, MqttReceive

`MqttCodec` holds the fixed header and the parts of a PUBLISH as operators on bytes.
`MqttReceive` has one step for every read of the transport: `Turn` begins a call of
`mqtt_message_receive`, `Read` and `NothingToRead` are the outcomes of a read,
`DeliverPublish`, `DeliverMore` and `DeliverStalls` are `deliver_publish`. `Arrive`
moves any number of bytes at any time. `Prompt` says that the rest of a packet comes
before the worker's next turn; without it a connection may be given up for silence.
MQTT 3.1.1; a read returns what is there, up to what it asks for.

### MqttCompose

The two fragment fields and the sizes of packets, through every call that composes,
stores or writes, for both versions (`v5`). With MQTT 5 a packet has properties, of
one of the lengths `Blocks`, and `PublishHeld` is the publish that has to wait for
quota and returns before the fields are cleared. A payload of 0 bytes is
`data == NULL`. `offset` is an integer where the code has `size_t`; it is only used in
differences, where the wrap cancels. A packet is no longer than MQTT can announce.

### Mqtt5Msg

`lib/mqtt5_msg.c` as operators on sequences of bytes. Writing: one operator for each
packet (`ConnectMessage`, `PublishPacket`, `SubscribeMessage`, `UnsubscribeMessage`,
`AckMessage`, `DisconnectMessage`), on `WithProperties`, which appends a block and
then sets its length in place as `update_property_len_value` does, byte by byte.
Reading: `ReadProperties` is the loop that three functions of the source repeat, with
the identifiers each knows (`PublishReads`, `ConnackReads`, `AckReads`) and those it
reads without asking whether the block holds the value. A read behind the bytes there
are gives "beyond", since the code goes on with whatever is in memory. That the buffer
is too small is left to MqttCompose.

`MCMqtt5Msg` reads each packet back: a PUBLISH with the client's own reader, the
packets only a broker reads with `Fields`, which follows the layout of the packet and
takes texts and blocks with the operators above, knowing every identifier.

### Mqtt5Session, TopicAliases

`server` is `server_resp_property_info`, `own` the application's alias maximum,
`table` the list `peer_topic_alias`, `pending` the properties set for the next
message of each kind. `Connack` is `esp_mqtt_connect` from the CONNACK on: what it
leaves out keeps its value, but for the quota. `Defined`, `DefineFails`, `NullTopic`,
`AliasRefused` and `Resolved` are the outcomes of `esp_mqtt5_get_publish_data` for a
message with an alias; `SetPublishProperty`, `SetSubscribeProperty` and
`SetDisconnectProperty` are the application's calls, `Publish`, `Subscribe`,
`Unsubscribe` and `SendDisconnect` compose with what they have set. Each runs under
the client's lock; Subscribe and Unsubscribe test the state before it, so they also
happen after the connection has ended. `halted` is a step with no successor: the
null pointer has been followed.

`said`, `heard`, `announced`, `aliases`, `shown`, `carried` and `sent` are histories, and
so is the number of CONNACKs (`at`) that a property was set after. The
broker keeps to the protocol: its aliases are within the maximum of the CONNECT and
have a topic before they stand for one.

`TopicAliases` is the promise: a dictionary that is empty when a connection begins,
and messages shown with the topic they carry or the one their alias stands for.
`Mqtt5Session` implements it (`AliasesPromised`) with the broker's `aliases` for the
dictionary; that the client resolves from a table with another life is what makes the
refinement more than a restatement.

### MC modules

`MCEmqttRuntime`, `MCMqttClient`, `MCMqttReceive`, `MCMqtt5Session` and `MCMqttCompose`
give constants their values; a `.cfg` for each run. `MCMqttCompose` extends `MCTexts`
and `MCMqtt5Msg`, whose properties speak of operators only: they are asked in the
initial states (`calls = 0`) and hold trivially afterwards.

## Runs

| Run | Checks | Bounds |
|---|---|---|
| runtime_slots | `SlotHasOneOwner`, `NoSlotLost`, `MessageHasBuffer`, `QuietWhenStopped` | 2 slots, 3 notices, messages of 0 to 3 fragments with a limit of 2: both queues fill, messages are rejected, stop may fail |
| runtime_session | `TypeOK`, `ReadyMeansSubscribed`, `ControlInv`, `OnlyAcknowledgedChange` | 2 filters, 3 identifiers, 2 notices |
| runtime_live | `NoSilentLoss`, `WaitEnds`, `LossEndsSession`, `MessageConsumed` | 2 slots, one notice, one filter, one identifier that a publish or a request carries: the smallest instance in which the queue overflows |
| client_flow | `TypeOK`, `WithinReceiveMaximum`, `QuotaReturned`, `DupMarksRetry`, `DeliveryKept` | MQTT 5, Receive Maximum 1, one QoS 1 and one QoS 2 message, one break, three items: one waits for quota, a QoS 0 message overtakes it |
| client_lifecycle | `OneWorker` | MQTT 3.1.1, two callers, every call but enqueue, expiry, one break |
| client_live | `PublishSettles`, `StopReturns`, `DeadLinkFound` | MQTT 3.1.1, one caller starts, stops and enqueues a QoS 2 message, one break, 2 packets per direction |
| receive_frames | `TypeOK`, `FramesKept`, `NotGivenUp`, `FramesArrive` | three packets of four kinds, a buffer of 9 bytes, one kind larger than it, every way to cut the stream |
| mqtt5_session | `TypeOK`, `AliasesHeld`, `ConnackKept`, `OneTime`, `AliasesPromised` | three connections to brokers that say nothing, little or allow aliases; two aliases, three topics, two of them of one length, alias maxima 0 to 2; three properties set |
| compose_packets | `TypeOK`, `PacketWhole` | both versions, buffer of 26, properties of 0 and 4 bytes, payloads on both sides of every limit (fits, just does not, two-byte length), five calls |
| | `NamesByParts` (topics by levels, host names by labels), `Utf8ByEncoding`, `RoundTrip`, `CredentialsKept` | all texts over a small alphabet of 7, 9, 4, 5 and 5 characters: one more than a topic, a host name or a length may have, all of a UTF-8 sequence, an escape with a character on each side |
| | `PacketsReadBack` (a part for the length in place, CONNECT, PUBLISH and SUBSCRIBE each), `BlockGuarded`, `AcksRead` | blocks on both sides of 127 bytes; configurations that give each property, or leave it out; blocks cut after every byte; texts longer than `StringMax`, which is 4 |

In mqtt5_session a program either receives or sends (`Programs`): the two touch
nothing in common but the connection, and together they would only multiply the
states.

Deadlock is checked except in the receive, compose and session runs, whose bounded
inputs run out.

Two packets per direction in client_live are needed: in a channel of one, a PINGREQ
in every turn crowds out the retransmission, which is an artefact of so small a
channel. More messages are beyond TLC's liveness checking. `FairSpec` of `MqttReceive`
spells out weak fairness without ENABLED, which TLC evaluates slowly there.

Every property has one mutant or more in `PROJECT.json`: a plausible mistake in one definition
(`Mut...`, next to what it replaces) that TLC finds.

### Runs that show a violation

Each states what a comment or a header of the repository says, and TLC finds a
behaviour of the code that does otherwise; `PROJECT.json` quotes the lines.

- **client_replay**: subscribe and unsubscribe test the state before they take the
  lock; a request can be stored after its connection has ended and goes out on the
  next one.
- **receive_stall**: a payload that stalls is acknowledged and its rest read as
  packets.
- **compose_enqueue**: storing a fragmented message leaves its payload offset set, and
  the next publish that fits the buffer writes bytes beyond its payload.

### What the models also showed

With other bounds the same modules reach states that deserve a look but have no run
here; the passing runs avoid them by the bounds named.

- Quota (`mqtt_client.c:1763`): with MQTT 5 a publish that expires in flight keeps its
  share of `send_publish_packet_count`, because its late PUBACK finds no outbox item.
  With a Receive Maximum of 1 nothing above QoS 0 is sent until the next connection.
  client_flow has `Expires = FALSE`.
- Purge (`mqtt_client.c:2226`): the ending worker empties the outbox without the lock,
  also while a caller of publish holds it.
- Resumption (`mqtt_client.c:1542`): with fewer than six bytes in the buffer the top
  bit of the last one decides whether the length is still being read, also when that
  byte lies behind the length. A PUBACK for an identifier with such a byte that
  arrives in two parts is misread, and with two such bytes the first of the next packet
  can be taken for its end. receive_frames has only smaller identifiers; the first
  conjunct of `Readable` is the condition.
- Long topics (`mqtt_client.c:1599`): the estimate of a PUBLISH header lacks the two
  bytes of the topic length; a header up to two bytes longer than the buffer is
  accepted and its end, the identifier, delivered as payload. The topics of
  receive_frames fit; the second conjunct of `Readable` is the condition.
- Topic length (`mqtt_client.c:1578`): the number of bytes to read adds what of the two
  has been read where it should subtract it, so with one of them there three more are
  asked for. They belong to the packet, which is larger than the buffer, and the next
  read takes account of them; but a buffer of fewer than nine bytes could be overrun
  (`BufferAssumption`). The default is 1024, and nothing in the configuration refuses a
  smaller one.
- Fields of a CONNACK (`mqtt5_client.c:101`): only the quota returns to its default
  when a CONNACK leaves it out. Where the broker of one connection refused retained
  messages and that of the next says nothing, the client goes on refusing them; where
  the first allowed aliases and the next, by saying nothing, does not, the client goes
  on using them and tells the application that they are allowed, as a limit of "the
  server" (`include/mqtt5_client.h:162-170`). `ConnackKept` therefore binds the client
  to the fields this CONNACK mentions, and to the defaults of the others only while all
  CONNACKs have said the same (`Binding`); without that condition two
  CONNACKs violate it.
- Properties set before a reconnect (`mqtt5_client.c:520`): an alias or share is tested
  when it is set, against the server of then. `ConnackKept` speaks of those set on the
  connection of their message, or after the first CONNACK while all have said the same
  (`Tested`).
- A topic lost for want of memory (`mqtt5_client.c:437-440`): the item of the alias
  keeps its old length with no topic, and on a later connection a topic of that length
  is compared with a null pointer. `NullTopic` is reached in mqtt5_session.
- Joined response topic (`lib/mqtt5_msg.c:1108`): the size lacks the terminator, so the
  last character of the response information is cut off and a zero sent in its place.
- Unasked reads (`lib/mqtt5_msg.c:456, 475, 820, 844, 879`): two texts of a PUBLISH and
  three numbers of a CONNACK are read without a question; where the block ends within
  them the outcome is "beyond". `BlockGuarded` excepts those of the CONNACK.
- User properties (`mqtt5_client.c:876`): a list of 256 counts as 0.
- Unstored messages (`mqtt_client.c:2598, 2613`): a fragmented message that is
  composed but not stored (QoS 0 with `store = false`, or no memory) leaves its total
  length set; the next PINGREQ or PUBACK announces it. What compose_packets enqueues
  fits the buffer. The runtime layer only enqueues with `store = true`, so only the
  out-of-memory case concerns it.

## Fairness

`EmqttRuntime!Fairness`: the owner keeps polling and finishes its calls, a callback
that has begun returns, time passes. Steps that need the API lock are strongly fair:
the worker gives it up in every turn and FreeRTOS mutexes queue their waiters.
Nothing obliges the broker to answer, the network to come back or the application to
call.

`MqttClient!WorkerFair`: the same for the worker and the callers; timers run out
again and again. `BrokerFair`, used only for `PublishSettles`, adds that of all
attempts to connect one succeeds, data that has arrived is read, retransmission
becomes due, and the broker answers.

`MqttReceive!FairSpec`: the worker takes its turns and what was sent arrives.

## Proofs

`EmqttRuntimeProofs` proves, for every number of slots, queue capacity, set of filters
and identifiers and every payload limit that the `ASSUME`s of `EmqttRuntime` allow (the configured filters are distinct:
`emqtt_contract.c:78-82` refuses a topic twice):

- `RuntimeInvariant`: `Spec => []RuntimeInv`, the inductive invariant;
- from it `TypeCorrect`, `SlotOwnership`, `SlotConservation`, `MessageBuffers`,
  `Quiescence` and `ControlCorrect`.

The argument. None of the slot properties is inductive alone. Whether `Dropped` may
return a token depends on who else holds the slot, and on there being room in the
queue of free slots; whether `drain` may refill it depends on no callback being under
way. `RuntimeInv` is `TypeOK /\ ControlInv /\ QuietWhenStopped /\ SlotInv`:
`ControlInv` says which task can be at which point and in whose hand a slot can be
there; `SlotInv` is ownership, conservation and buffers together. `TypeStep` and
`ControlStep` go through the actions. For the slots, `SlotsShared` restates `SlotInv`
as every slot being held in exactly one of five places, and each action moves at most
one slot from one place to another (`SlotToReceiver`, `SlotToMessage`,
`SlotToNotices`, `SlotToOwner`, `SlotFromReceiver`, `SlotFromMessage`), or drains
(`SlotsDrained`). `RoomForToken` is the pigeonhole: the queue of free slots has room
for a token that is not in it, so the code's ignored `xQueueSend` result never loses
one.

`EmqttRuntimeSession` goes on from there to what the owner can believe:

- `AcknowledgedChange`: `Spec => OnlyAcknowledgedChange`, from `SessionInvariant`;
- `PublishesKept`: `Spec => []NoSilentLoss`;
- `ReadySubscribed`: `Spec => []ReadyMeansSubscribed`.

Here the queue and the notice the worker has in hand are seen together, as the `News`
the owner has not taken: posting a notice then changes nothing. `SessionInv` adds to
`RuntimeInv` what the public state implies (`StateControl`), that a notice names
nothing before it is posted (`IdleNotice`), and `PacketInv`: the packet of the pending
request asks for what the owner will do on its acknowledgement (`RequestInv`), an
acknowledgement among the news that the owner will accept was sent for what the broker
confirmed (`AckInv`), and no request carries the identifier of an awaited publish
(`AwaitInv`). An answer waits in the queue while the connection ends and a new request
is made; that it does not match the new one is what makes `AckInv` inductive.
`CompletionInv` is `NoSilentLoss` at every point of the owner's program.
`ReadyMeansSubscribed` speaks only of states without session events in the queue, so
it says nothing of the state before; `BrokerInv` says how the unseen events explain the
difference: after a last CONNECTED the broker has no filter (`AfterConnect`), with
nothing unseen it has what the state says (`WhenSilent`), and with the answer as the
only unseen event it has what the answer grants (`WhenAnswered`). Steps that tell the
owner nothing are dealt with once (`Untold`).

`MqttClientSteps` and `MqttClientProofs` prove every safety property of client_flow and
client_lifecycle for any identifiers, callers, Receive Maximum and bounds, in both
versions and both kinds of session:

- `TypeCorrect` and `OneWorkerAlways`, from `DataInv` (the outbox and both channels)
  and `ControlInv` (who has the lock at which point);
- `DupAlwaysMarksRetry`: `Spec => []DupMarksRetry`;
- `ClientDelivers`: `Spec => DeliveryKept`, the refinement of `MqttDelivery`;
- `WithinReceiveMaximumAlways`, and `QuotaAlwaysReturned`:
  `Spec => [](~Expires => QuotaReturned)`.

The argument. `MqttClientSteps` first shows what the walks over the outbox return
(`Get`, `Delete`, `SetPending`, `DeleteTypes`), then sorts all actions into a dozen
kinds of effect on the data (`Kinds`), and says what each kind does to
the sets of items, packets and answers, so that the invariants need no positions
(but for `Ordered`). The invariants build on one another:

1. `IdInv`: an identifier names one item, and the publishes stored are the messages
   accepted and not reported. Only so do `outbox_delete` and `outbox_set_pending`,
   which stop at the first match, act on the message they mean.
2. `WriteInv`: what is counted, carried over or under way was written; an item that is
   not QUEUED was. This makes DUP true.
3. `Known`: packets are of accepted messages, and answers, PUBRELs and acknowledged
   items of messages the broker has. So `published` comes after delivery.
4. `Ordered` and `Once`: a message is not written again once its PUBREL is, and not
   while a persistent broker is done with it. So QoS 2 is delivered at most once.
5. `Claims` and `Counts`: each answer that would free quota is of a message that was
   counted or carried over, and the unanswered publishes exceed the counter by at most
   the PUBCOMPs of carried PUBRELs that have come. The Receive Maximum follows.
6. `Returnable`: without expiry the counter is at most what is unanswered, and what is
   unanswered is still in the outbox.

With expiry the last is false, and so is `QuotaReturned`: a message that expires in
flight leaves the outbox and its late PUBACK, which finds no item, subtracts nothing
(see above). The theorem therefore names `~Expires`; it is a property of the
environment, that no acknowledgement takes longer than the expiry time.

`Mqtt5SessionProofs` proves all properties of mqtt5_session for every set of
aliases, topics, CONNACKs and maxima and any number of connections and calls that
`SessionAssumption` allows:

- `TypeCorrect`, `TableHoldsAliases`, `KeepsConnack` and `PropertyIsOneTime` for the
  invariants;
- `ImplementsAliases`: `Spec => Promise!Spec`.

`AliasesHeld` is not inductive: it needs that the broker's topics are in the table
(`KeepsTopics`) and, for the list to exist, that a maximum other than 0 means it was
made (`OwnMeansMade`). `ConnackKept` needs what the record of the
server has to do with the CONNACKs heard (`Recorded`: it is the protocol's default
before the first, and exactly what a CONNACK stands for while there has been only that
one), that the properties waiting for a message are within the record as long as their
test counts (`Prepared`), and that the last message is (`SentWithin`). A CONNACK that
repeats the ones before it changes nothing (`SteadyRecord`); any other leaves no
property whose test counts. The theorem claims nothing for a field that is left out
after a different CONNACK.
`OneTime` needs that the calls which set the properties are numbered up to `sets`
(`Numbered`), so that a new one is not among those carried. In `ImplementsAliases`
every action is a step of `TopicAliases` or leaves both its variables alone; the only
step that needs the invariant is `Resolved`, which shows what the table holds where
the promise shows what the dictionary holds.

`MqttComposeProofs` proves `TypeOK` and `PacketWhole` of MqttCompose for every buffer,
topics, properties and payloads that MQTT can announce (`LengthAssumption`), after any
number of calls, provided that what is enqueued, held for quota or finds no memory fits
the buffer (`EnqueuedFit`). compose_enqueue and the last point of "What the models also
showed" are why the condition is there; what is published in one call may be of any
size. `FieldsInv` says why it works: no total length is left behind, and while
connected no positive payload offset, for a publish that is broken off ends the
connection and CONNECT starts with cleared fields. While not connected an offset does
stay behind, so neither field alone would do. The rest is arithmetic on the size of the
fixed header (`PublishComposed`, `PublishWhole`), which `HeaderBound` puts between two
and five bytes. `LengthsReadBack` joins the two ends of a connection: the remaining
length that `fini_message` writes is the one `mqtt_get_total_length` reads, for every
number below 128^4 and whatever follows the fixed header, and just the numbers from
128^4 on are refused.

`MqttReceiveProofs` proves the safety of `MqttReceive` for any packets, any buffer of at
least nine bytes, any number of packets and every way to cut the stream:

- `TypeCorrect`: whatever arrives, also after a stall, the buffer is never overrun;
- `FramesKeptAlways`: `Spec => []FramesKept`, for packets that are `Readable`;
- `KeepsReading`: `Spec => NotGivenUp`, for packets that are also `Acceptable`;
- `AnsweredWholeWithoutStall`: with `~Stalls`, `Spec => []AnsweredWhole`. The timeout is
  thus the only cause of what receive_stall shows.

`Readable` excludes just the packets of the two points "Resumption" and "Long topics"
above, `Acceptable` those the client refuses (too big, or a PUBLISH without a topic).
`PlainAssumption` has TLC evaluate that the packets of receive_frames are both.

The argument. `ReceiveInv` adds to the types what is in the buffer at each stage
(`Landing`), for any bytes: after a stall the rest of a payload is read as packets, so
the buffer must be safe from garbage too. What is read at each stage depends on the
length only once all of it is there (`HeaderRead`, `HeaderKept`). For `FramesKept` the
stream is described without recursion: `Layout` is the sequence of all bytes sent and
where each packet ends in it, `Remains` that the bytes from a position on are those
that have arrived and those under way, and `Flow` that this is so from a given byte of
the packet being read. Its lemmas say what sending, arriving and taking do (`FlowSends`,
`FlowArrives`, `FlowTakes`), that going to the next packet keeps it (`FlowGoesOn`), and
that bytes taken within a packet are its bytes (`FlowTells`). `Tracked` is the invariant:
the packets handed out are those sent (`Kept`), and until the connection ends the reader
is in step (`InStep`): the buffer holds the beginning of the next packet, as far as the
stage says (`Located`), and of a large payload what was handed out is its beginning
(`Handed`). For `NotGivenUp` a turn must not read in vain: `Prompted` says that it has
read something, or that something has arrived.

`TextProofs` proves that four operations on texts, each of which looks at a few bytes at
a time, do what they are meant to do with the whole text:

- `TopicsByLevels` and `HostsByLabels`: a topic is accepted by its levels and a host name
  by its labels, for every text of printable characters or of the characters of host
  names, and every limit on the lengths;
- `Utf8IsEncoding`: for every sequence of bytes, `utf8` accepts just the concatenations
  of shortest encodings of allowed code points;
- `LengthsRoundTrip`: a length of up to four bytes is read to its end and no further,
  whatever is around it and also if it has superfluous bytes; of the shortest forms
  `fini_message` writes just these, and refuses those of five bytes;
- `CredentialsReturn` and `CredentialsRefused`: a user name and a password, of any bytes
  but 0, come back from the user info they were escaped into; and a user info is refused
  just if one of its percent signs lacks its two digits.

`NamesAlwaysByParts`, `Utf8AlwaysByEncoding`, `LengthsAlwaysRoundTrip` and
`CredentialsAlwaysKept` are the invariants `NamesByParts`, `Utf8ByEncoding`, `RoundTrip`
and `CredentialsKept` of compose_packets, which are about the texts TLC enumerates; the
theorems above are the general statements.

The argument. For the names, the part around a character is found from the last
separator before it and the first one after it, and the code's counter of characters in
a label is the distance to the last dot. For UTF-8, both the code's walk and the cutting
into encodings are a `Chain` over the pieces that may begin at a position: such a
function exists and is unique, so it is enough that both have the same `Pieces`.
`BeginsOne` to `BeginsFour` and `EncodesOne` to `EncodesFour` show this for each length
by the digits of the code point to the base 64. For the lengths, `ValuesOf` gives the
value of one to five bytes as a sum, and `Reads` and `DigitsRead` compare it with what is
read and written (`DigitsRead` is the lemma of `MqttComposeProofs` behind
`LengthsReadBack`). For the credentials, `DecodePercentIs` shows that the function the
loop stands for exists (it looks only ahead, so it can be built from the end), and
`DecodedJudges`, also from the end, when it succeeds: an escape that is legal hides no
percent sign, so the loop meets them all. `EscapedDecoded` follows the loop through an
escaped name piece by piece, and `LegalBySides` shows that no escape reaches across the
colon where the text is split.

Induction. The operators on the outbox are recursive functions of a position, and
`LengthBytes` one of a number; that they are well defined and what they return is
proved from a least counterexample (`LeastNatural`, `LengthBytesEquation`), since the
induction theorems of the library take an operator that the provers cannot instantiate.

Only model-checked: the liveness properties `WaitEnds`, `LossEndsSession`,
`MessageConsumed`, `PublishSettles`, `StopReturns`, `DeadLinkFound` and `FramesArrive`
(fairness and ENABLED are outside the prover); and the comparisons in `MCMqtt5Msg`,
which build property blocks with `SelectSeq` and `FlattenSeq`, of which the first is
unknown to the prover, and read them by recursion over whole packets.

## Not modelled

- Inbound QoS 2 beyond its framing and first answer; collisions of identifiers.
- Client creation and configuration, transports, TLS, the other parts of a URI: calls
  into ESP-IDF, with no state that later steps depend on.
- The copies `esp_mqtt5_client_set_connect_property` makes of connect and will
  properties, and the lack of memory there, which deletes the configuration.
- The lists of user properties an application makes and reads.
- The memory of response information and shared filters, and a lack of memory in the
  readers of properties; memory contents in general.
- A transport that fails or is closed in the middle of a packet: in MqttReceive it would
  only abort the connection; MqttClient and EmqttRuntime have such breaks.
- A remaining length of 256 MB and more, whose fifth byte `fini_message` writes behind
  its array (`lib/mqtt_msg.c:84-100`) before it refuses the packet: the model has the
  refusal. Likewise a CONNECT that does not fit the buffer, which leaves no field set.
- Property blocks of 65536 bytes and more, whose length the code keeps in a
  `uint16_t`: the buffer is far smaller.
- Capacity statistics, outbox sizes in bytes, log messages.

## Plan

1. Done: EmqttRuntime, MqttClient with MqttDelivery and Mqtt5Session with TopicAliases,
   each with its proofs; MqttCompose for both versions and MqttReceive, with their
   proofs; EmqttContract, MqttCodec and MqttUri with theirs; Mqtt5Msg.
2. Next theorems: that the property blocks of Mqtt5Msg read back, and that no broken
   block is read past its end.
3. Next modules: inbound QoS 2 (PUBREC, PUBREL, PUBCOMP and duplicates); identifier
   collisions in the outbox and the requeue loop on them; a composition of
   EmqttRuntime with MqttClient in place of its abstract SDK.
