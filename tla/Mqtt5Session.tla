---------------------------- MODULE Mqtt5Session ----------------------------
(***************************************************************************)
(* What an MQTT 5 client keeps between packets (mqtt5_client.c and its     *)
(* callers in mqtt_client.c): what the broker said of itself in CONNACK,   *)
(* the topics of the aliases the broker uses, and the properties the       *)
(* application sets for its next message.  Most of it outlives the         *)
(* connection.  What a call does here it does under the client's lock, so  *)
(* it is one action.  The broker keeps to the protocol: an alias is not    *)
(* above the maximum the client announced, and has a topic before it is    *)
(* used.                                                                   *)
(***************************************************************************)
EXTENDS Integers, FiniteSets

CONSTANTS
    Programs,        \* what an application does: sets of "receive" and "send"
    Aliases,         \* topic aliases
    Topics,          \* topics of received messages
    Length,          \* their lengths
    NoTopic,         \* the null pointer
    Connacks,        \* what a CONNACK may say of each of the fields
    Unsaid,          \* a field a CONNACK does not carry
    Maxima,          \* topic alias maxima the application sets
    MaxConnections,  \* bound: CONNACKs
    MaxSets          \* bound: properties the application sets

Fields == {"maximum_packet_size", "receive_maximum", "topic_alias_maximum", "max_qos", "retain_available",
           "wildcard_subscribe_available", "subscribe_identifiers_available", "shared_subscribe_available"}

ASSUME SessionAssumption ==
    /\ Programs \subseteq SUBSET {"receive", "send"}
    /\ Aliases \subseteq Nat \ {0} /\ Maxima \subseteq Nat
    /\ NoTopic \notin Topics /\ Length \in [Topics -> Nat]
    /\ Unsaid \notin Nat /\ Connacks \subseteq [Fields -> Nat \cup {Unsaid}]
    /\ MaxConnections \in Nat /\ MaxSets \in Nat

VARIABLES
    program,      \* what the application does
    connected,    \* the client's state is MQTT_STATE_CONNECTED
    server,       \* server_resp_property_info
    said,         \* the CONNACK of this connection
    heard,        \* history: the CONNACKs of all connections, refused ones included
    own,          \* connect_property_info.topic_alias_maximum
    announced,    \* the maximum in the CONNECT of this connection
    made,         \* peer_topic_alias is a list
    table,        \* its items: there or not, a topic, a length
    aliases,      \* the topics the broker has given to its aliases on this connection
    shown,        \* the topic of the last message given to the application
    pending,      \* the properties set for the next message of each kind
    carried,      \* which of them a message has carried
    sent,         \* the last message composed on this connection
    halted,       \* the null pointer has been followed
    connections,
    sets

broker   == <<program, connected, server, said, heard, announced, connections>>
peer     == <<own, made, table, aliases, shown, halted>>
messages == <<pending, carried, sent, sets>>
vars     == <<broker, peer, messages>>

-----------------------------------------------------------------------------
Kinds == {"publish", "subscribe", "unsubscribe", "disconnect"}

\* Properties of a message: which calls set them (none: a null pointer), the
\* alias or share among them, and the number of CONNACKs read by then.
Property == [ids : SUBSET (1 .. MaxSets), alias : Nat, shared : BOOLEAN, at : 0 .. MaxConnections]

NoProperty == [ids |-> {}, alias |-> 0, shared |-> FALSE, at |-> 0]

Message == [kind : Kinds, qos : 0 .. 2, retain : BOOLEAN, property : Property]

Nothing == [kind |-> "disconnect", qos |-> 0, retain |-> FALSE, property |-> NoProperty]

Item == [there : BOOLEAN, topic : Topics \cup {NoTopic}, length : Nat]

NoItem == [there |-> FALSE, topic |-> NoTopic, length |-> 0]

NoAliases == [alias \in Aliases |-> NoTopic]

\* esp_mqtt5_create_default_config
MQTT5_DEFAULT_RECEIVE_MAXIMUM == 65535

MutAliasesByDefault ==
    [field \in Fields |-> CASE field \in {"receive_maximum", "topic_alias_maximum"} -> MQTT5_DEFAULT_RECEIVE_MAXIMUM
                            [] field = "max_qos" -> 2
                            [] field = "maximum_packet_size" -> 0
                            [] OTHER -> 1]

DefaultServer ==
    [field \in Fields |-> CASE field = "receive_maximum" -> MQTT5_DEFAULT_RECEIVE_MAXIMUM
                            [] field = "max_qos" -> 2
                            [] field \in {"maximum_packet_size", "topic_alias_maximum"} -> 0
                            [] OTHER -> 1]

Silent == [field \in Fields |-> Unsaid]

Init ==
    /\ program \in Programs
    /\ connected = FALSE /\ server = DefaultServer
    /\ said = Silent /\ heard = {} /\ connections = 0
    /\ own = 0 /\ announced = 0 /\ made = FALSE
    /\ table = [alias \in Aliases |-> NoItem] /\ aliases = NoAliases
    /\ shown = NoTopic /\ halted = FALSE
    /\ pending = [kind \in Kinds |-> NoProperty] /\ carried = {} /\ sent = Nothing /\ sets = 0

\* The variables have their types.
TypeOK ==
    /\ program \in Programs
    /\ {connected, made, halted} \subseteq BOOLEAN
    /\ server \in [Fields -> Nat] /\ said \in [Fields -> Nat \cup {Unsaid}]
    /\ heard \subseteq Connacks
    /\ own \in Nat /\ announced \in Nat
    /\ table \in [Aliases -> Item] /\ aliases \in [Aliases -> Topics \cup {NoTopic}]
    /\ shown \in Topics \cup {NoTopic}
    /\ pending \in [Kinds -> Property] /\ carried \subseteq 1 .. MaxSets
    /\ sent \in Message
    /\ connections \in 0 .. MaxConnections /\ sets \in 0 .. MaxSets

-----------------------------------------------------------------------------
(***************************************************************************)
(* The connection.                                                         *)
(***************************************************************************)

\* esp_mqtt5_client_set_connect_property: a maximum of 0 leaves what is set.
\* The list is made with the first maximum.
SetConnectProperty(maximum) ==
    /\ "receive" \in program
    /\ own' = IF maximum # 0 THEN maximum ELSE own
    /\ made' = (made \/ maximum # 0)
    /\ UNCHANGED <<broker, table, aliases, shown, halted, messages>>

MutQuotaKept(connack) ==
    [field \in Fields |-> IF connack[field] # Unsaid THEN connack[field] ELSE server[field]]

MutOverwritten(connack) == connack

\* esp_mqtt5_parse_connack: what is not said keeps its value, but for the quota.
Parsed(connack) ==
    [field \in Fields |-> CASE connack[field] # Unsaid -> connack[field]
                            [] connack[field] = Unsaid /\ field = "receive_maximum" ->
                                   MQTT5_DEFAULT_RECEIVE_MAXIMUM
                            [] OTHER -> server[field]]

\* esp_mqtt_connect on a CONNACK: accepted, or refused or not to be read to its
\* end, after what it said has been stored
Connack(connack) ==
    /\ ~connected /\ connections < MaxConnections
    /\ server' = Parsed(connack) /\ announced' = own
    /\ connected' \in BOOLEAN
    /\ said' = IF connected' THEN connack ELSE Silent
    /\ heard' = heard \cup {connack} /\ connections' = connections + 1
    /\ aliases' = NoAliases /\ sent' = Nothing
    /\ UNCHANGED <<program, own, made, table, shown, halted, pending, carried, sets>>

\* esp_mqtt_abort_connection, or the end of it in esp_mqtt_client_stop
Ended ==
    /\ connected' = FALSE /\ said' = Silent /\ aliases' = NoAliases
    /\ UNCHANGED <<program, server, heard, announced, connections, own, made, shown>>

Aborted == Ended /\ UNCHANGED messages

ConnectionEnds == connected /\ Aborted /\ UNCHANGED <<table, halted>>

-----------------------------------------------------------------------------
(***************************************************************************)
(* esp_mqtt5_get_publish_data on a message with an alias.  If it fails,    *)
(* mqtt_process_receive does, and the worker aborts the connection.        *)
(***************************************************************************)
Received(alias) == "receive" \in program /\ connected /\ alias <= announced

Accepted(alias) == Received(alias) /\ alias <= own

\* The application has announced more, but has since set a lower maximum.
AliasRefused(alias) ==
    /\ Received(alias) /\ alias > own
    /\ Aborted /\ UNCHANGED <<table, halted>>

MutLengthCompared(alias, topic) ==
    table[alias].there /\ table[alias].length = Length[topic]

\* esp_mqtt5_client_update_topic_alias: the item has this topic
SameTopic(alias, topic) ==
    table[alias].there /\ table[alias].length = Length[topic] /\ table[alias].topic = topic

\* Equal lengths, and the topic is lost: strncmp reads from address 0
Followed(alias, topic) ==
    table[alias].there /\ table[alias].length = Length[topic] /\ table[alias].topic = NoTopic

Shown(topic) ==
    /\ shown' = topic
    /\ UNCHANGED <<broker, own, made, halted, messages>>

\* A message with topic and alias.
Defined(alias, topic) ==
    /\ Accepted(alias) /\ ~Followed(alias, topic)
    /\ table' = IF SameTopic(alias, topic) THEN table
                ELSE [table EXCEPT ![alias] = [there |-> TRUE, topic |-> topic, length |-> Length[topic]]]
    /\ aliases' = [aliases EXCEPT ![alias] = topic]
    /\ Shown(topic)

\* There is no memory for the topic: an item that was there has lost its topic
\* and kept its length.
DefineFails(alias, topic) ==
    /\ Accepted(alias) /\ ~SameTopic(alias, topic) /\ ~Followed(alias, topic)
    /\ table' = [table EXCEPT ![alias].topic = NoTopic]
    /\ Aborted /\ UNCHANGED halted

NullTopic(alias, topic) ==
    /\ Accepted(alias) /\ Followed(alias, topic)
    /\ halted' = TRUE
    /\ Aborted /\ UNCHANGED table

MutFirstItem(alias) == table[CHOOSE a \in Aliases : table[a].there].topic

\* esp_mqtt5_client_get_topic_alias
TopicOf(alias) == table[alias].topic

\* A message with an alias in place of the topic.  That no topic is found is not
\* an action: AliasesHeld rules it out.
Resolved(alias) ==
    /\ Accepted(alias) /\ aliases[alias] # NoTopic /\ TopicOf(alias) # NoTopic
    /\ Shown(TopicOf(alias)) /\ UNCHANGED <<table, aliases>>

-----------------------------------------------------------------------------
(***************************************************************************)
(* The application's messages.                                             *)
(***************************************************************************)
Set(kind, property) ==
    /\ "send" \in program
    /\ sets < MaxSets /\ sets' = sets + 1
    /\ pending' = [pending EXCEPT ![kind] = property]
    /\ UNCHANGED <<broker, peer, carried, sent>>

MutAnyAlias(alias) == TRUE

AliasAllowed(alias) == alias <= server["topic_alias_maximum"]

\* esp_mqtt5_client_set_publish_property keeps a pointer.
SetPublishProperty(alias) ==
    /\ AliasAllowed(alias)
    /\ Set("publish", [ids |-> {sets + 1}, alias |-> alias, shared |-> FALSE, at |-> connections])

\* esp_mqtt5_client_set_subscribe_property, _unsubscribe_property; their refusals
\* of a retain_handle above 2, of no_local with a share and of an empty share name
\* change no state
SetSubscribeProperty(kind, shared) ==
    /\ kind \in {"subscribe", "unsubscribe"}
    /\ shared => server["shared_subscribe_available"] # 0
    /\ Set(kind, [ids |-> {sets + 1}, alias |-> 0, shared |-> shared, at |-> connections])

\* esp_mqtt5_client_set_disconnect_property copies what is given and keeps the
\* rest of an earlier call.
SetDisconnectProperty ==
    Set("disconnect", [pending["disconnect"] EXCEPT !.ids = pending["disconnect"].ids \cup {sets + 1}])

MutNotCleared(kind) == pending

\* A composed message takes the properties with it.
Cleared(kind) == [pending EXCEPT ![kind] = NoProperty]

\* The message is composed with the properties set for its kind.
Composed(message) ==
    /\ "send" \in program
    /\ pending' = Cleared(message.kind)
    /\ carried' = carried \cup message.property.ids
    /\ sent' = IF connected THEN message ELSE Nothing
    /\ UNCHANGED sets

\* esp_mqtt5_client_publish_check and make_publish, for esp_mqtt_client_publish
\* and _enqueue, connected or not.  A message without topic needs an alias; one
\* that is not composed changes nothing.
Publish(hasTopic, qos, retain) ==
    /\ qos <= server["max_qos"] /\ (retain => server["retain_available"] # 0)
    /\ hasTopic \/ pending["publish"].alias # 0
    /\ Composed([kind |-> "publish", qos |-> qos, retain |-> retain, property |-> pending["publish"]])
    /\ UNCHANGED <<broker, peer>>

\* esp_mqtt_client_subscribe_multiple with this highest QoS.  The state is tested
\* before the lock is taken: by then the connection may have ended.
Subscribe(qos) ==
    /\ connections > 0 /\ qos <= server["max_qos"]
    /\ Composed([kind |-> "subscribe", qos |-> qos, retain |-> FALSE, property |-> pending["subscribe"]])
    /\ UNCHANGED <<broker, peer>>

\* esp_mqtt_client_unsubscribe, with the same test
Unsubscribe ==
    /\ connections > 0
    /\ Composed([kind |-> "unsubscribe", qos |-> 0, retain |-> FALSE, property |-> pending["unsubscribe"]])
    /\ UNCHANGED <<broker, peer>>

\* send_disconnect_msg, and the end of the connection that both its callers go on
\* to
SendDisconnect ==
    /\ connected
    /\ Composed([kind |-> "disconnect", qos |-> 0, retain |-> FALSE, property |-> pending["disconnect"]])
    /\ Ended /\ UNCHANGED <<table, halted>>

-----------------------------------------------------------------------------
Next ==
    /\ ~halted
    /\ \/ \E maximum \in Maxima : SetConnectProperty(maximum)
       \/ \E connack \in Connacks : Connack(connack)
       \/ ConnectionEnds
       \/ \E alias \in Aliases :
             \/ AliasRefused(alias) \/ Resolved(alias) \/ SetPublishProperty(alias)
             \/ \E topic \in Topics :
                   Defined(alias, topic) \/ DefineFails(alias, topic) \/ NullTopic(alias, topic)
       \/ \E kind \in Kinds, shared \in BOOLEAN : SetSubscribeProperty(kind, shared)
       \/ SetDisconnectProperty
       \/ \E qos \in 0 .. 2 : Subscribe(qos) \/ \E hasTopic, retain \in BOOLEAN : Publish(hasTopic, qos, retain)
       \/ Unsubscribe \/ SendDisconnect

Spec == Init /\ [][Next]_vars

-----------------------------------------------------------------------------
(***************************************************************************)
(* Properties.                                                             *)
(***************************************************************************)

\* An alias the broker has given a topic on this connection finds that topic in
\* a table that is never emptied: whatever earlier connections left in it, and
\* topics lost for want of memory (mqtt5_client.c:149-166, 424-473); and the list
\* is there whenever an alias is accepted (mqtt5_client.c:698-706).
AliasesHeld ==
    \A alias \in Aliases :
        /\ aliases[alias] # NoTopic => table[alias].there /\ table[alias].topic = aliases[alias]
        /\ Accepted(alias) => made

\* The client shows messages as TopicAliases says, with the broker's aliases for
\* the dictionary.
Promise == INSTANCE TopicAliases
           WITH Aliases <- Aliases, Topics <- Topics, NoTopic <- NoTopic,
                dictionary <- aliases, shown <- shown

AliasesPromised == Promise!Spec

\* What a field that a CONNACK leaves out means in the protocol (MQTT 5, section
\* 3.2.2.3): no limit, and no aliases.  A packet size of 0 is no limit.
Absent ==
    [field \in Fields |-> IF field = "receive_maximum" THEN 65535
                          ELSE IF field = "max_qos" THEN 2
                          ELSE IF field \in {"maximum_packet_size", "topic_alias_maximum"} THEN 0
                          ELSE 1]

\* What a server with this CONNACK allows
Limit(connack, field) == IF connack[field] # Unsaid THEN connack[field] ELSE Absent[field]

\* The fields for which the client is sure to have the value of this server.  A
\* field the CONNACK leaves out keeps the value of an earlier one
\* (mqtt5_client.c:101-110), so it counts only if all CONNACKs so far have said
\* the same, unless it is the quota, which has its default restored.
Binding(field) == said[field] # Unsaid \/ field = "receive_maximum" \/ heard = {said}

\* What MQTT_EVENT_CONNECTED tells the application of the server is what this
\* server's CONNACK says, for the fields that are binding.
LimitsTold == connected => \A field \in Fields : Binding(field) => server[field] = Limit(said, field)

\* An alias or share is tested when it is set and not when its message is composed
\* (mqtt5_client.c:520, 561): it counts if it was set on this connection, or after
\* the first CONNACK where all have said the same.
Tested(property) == property.at = connections \/ (heard = {said} /\ property.at > 0)

\* No message composed on a connection goes beyond the limits of its server that
\* are binding: the highest QoS, retained messages, aliases and shares.
WithinLimits ==
    connected =>
        /\ sent.kind \in {"publish", "subscribe"} /\ Binding("max_qos") => sent.qos <= Limit(said, "max_qos")
        /\ sent.retain /\ Binding("retain_available") => Limit(said, "retain_available") # 0
        /\ Tested(sent.property) =>
              /\ Binding("topic_alias_maximum") => sent.property.alias <= Limit(said, "topic_alias_maximum")
              /\ sent.property.shared /\ Binding("shared_subscribe_available") =>
                    Limit(said, "shared_subscribe_available") # 0

\* What the client composes and what it tells the application keep to the limits
\* of the server it is connected to, "the server's capabilities and limits"
\* (include/mqtt5_client.h:162-170), in two cases only: for the fields this
\* server's CONNACK mentions, and for all fields while every CONNACK so far has
\* said the same.  A client that goes on to a server that mentions less keeps the
\* limits of the one before; of those only the quota is of this connection, always
\* (mqtt5_client.c:101-135, 353-390, 518-524, 561-571).
ConnackKept == WithinLimits /\ LimitsTold

\* A property that a message has carried waits for no other message, of whatever
\* kind: "it is one-time configuration" (include/mqtt5_client.h:222, 238, 254,
\* 270).
OneTime == \A kind \in Kinds : pending[kind].ids \cap carried = {}
=============================================================================
