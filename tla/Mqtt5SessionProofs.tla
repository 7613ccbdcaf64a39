------------------------ MODULE Mqtt5SessionProofs ------------------------
(***************************************************************************)
(* The properties of Mqtt5Session for every set of aliases and topics,     *)
(* every CONNACK and any number of connections and calls.                  *)
(***************************************************************************)
EXTENDS Mqtt5Session, TLAPS

\* The steps that receive a message with an alias, and those that compose one
Receive ==
    \E alias \in Aliases :
        \/ AliasRefused(alias) \/ Resolved(alias)
        \/ \E topic \in Topics : Defined(alias, topic) \/ DefineFails(alias, topic) \/ NullTopic(alias, topic)

Prepare ==
    \/ \E alias \in Aliases : SetPublishProperty(alias)
    \/ \E kind \in Kinds, shared \in BOOLEAN : SetSubscribeProperty(kind, shared)
    \/ SetDisconnectProperty

Compose ==
    \/ \E qos \in 0 .. 2 : Subscribe(qos) \/ \E hasTopic, retain \in BOOLEAN : Publish(hasTopic, qos, retain)
    \/ Unsubscribe \/ SendDisconnect

\* Every step is one of these.
LEMMA StepKinds ==
    Next => \/ \E maximum \in Maxima : SetConnectProperty(maximum)
            \/ \E connack \in Connacks : Connack(connack)
            \/ ConnectionEnds \/ Receive \/ Prepare \/ Compose
BY DEF Next, Receive, Prepare, Compose

\* What a step that sets a property does: it has a new number.
LEMMA PrepareStep ==
    ASSUME TypeOK, Prepare
    PROVE  \E kind \in Kinds, property \in Property :
              /\ Set(kind, property)
              /\ \/ /\ property.ids = {sets + 1}
                    /\ property.at = connections
                    /\ property.alias <= server["topic_alias_maximum"]
                    /\ property.shared => server["shared_subscribe_available"] # 0
                 \/ /\ kind = "disconnect"
                    /\ property = [pending[kind] EXCEPT !.ids = pending[kind].ids \cup {sets + 1}]
<1>1. sets \in Nat /\ MaxSets \in Nat /\ server["topic_alias_maximum"] \in Nat
      /\ connections \in 0 .. MaxConnections
  BY SessionAssumption DEF TypeOK, Fields
<1>2. CASE \E alias \in Aliases : SetPublishProperty(alias)
  <2>1. PICK alias \in Aliases : SetPublishProperty(alias)
    BY <1>2
  <2>2. sets + 1 \in 1 .. MaxSets
    BY <2>1, <1>1 DEF SetPublishProperty, Set
  <2> DEFINE property == [ids |-> {sets + 1}, alias |-> alias, shared |-> FALSE, at |-> connections]
  <2>3. alias \in Nat
    BY SessionAssumption
  <2>4. property \in Property
    BY <1>1, <2>2, <2>3 DEF Property
  <2>5. "publish" \in Kinds
    BY DEF Kinds
  <2> QED
    BY <2>1, <2>4, <2>5 DEF SetPublishProperty, AliasAllowed
<1>3. CASE \E kind \in Kinds, shared \in BOOLEAN : SetSubscribeProperty(kind, shared)
  <2>1. PICK kind \in Kinds, shared \in BOOLEAN : SetSubscribeProperty(kind, shared)
    BY <1>3
  <2>2. sets + 1 \in 1 .. MaxSets
    BY <2>1, <1>1 DEF SetSubscribeProperty, Set
  <2> DEFINE property == [ids |-> {sets + 1}, alias |-> 0, shared |-> shared, at |-> connections]
  <2>3. property \in Property /\ 0 <= server["topic_alias_maximum"]
    BY <1>1, <2>2 DEF Property
  <2> QED
    BY <2>1, <2>3 DEF SetSubscribeProperty
<1>4. CASE SetDisconnectProperty
  <2>1. sets + 1 \in 1 .. MaxSets
    BY <1>4, <1>1 DEF SetDisconnectProperty, Set
  <2>2. "disconnect" \in Kinds /\ pending["disconnect"] \in Property
    BY DEF TypeOK, Kinds
  <2> DEFINE property == [pending["disconnect"] EXCEPT !.ids = pending["disconnect"].ids \cup {sets + 1}]
  <2>3. property \in Property
    BY <2>1, <2>2 DEF Property
  <2> QED
    BY <1>4, <2>2, <2>3 DEF SetDisconnectProperty
<1> QED
  BY <1>2, <1>3, <1>4 DEF Prepare

\* What a step that composes a message does: the message has the properties set
\* for its kind and a QoS the server has not excluded.  A DISCONNECT ends the
\* connection.
LEMMA ComposeStep ==
    ASSUME TypeOK, Compose
    PROVE  \E message \in Message :
              /\ Composed(message)
              /\ UNCHANGED <<broker, peer>> \/ (Ended /\ UNCHANGED <<table, halted>>)
              /\ message.property = pending[message.kind]
              /\ message.kind \in {"publish", "subscribe"} => message.qos <= server["max_qos"]
              /\ message.retain => server["retain_available"] # 0
<1>1. \A kind \in Kinds : pending[kind] \in Property
  BY DEF TypeOK
<1>2. CASE \E qos \in 0 .. 2, hasTopic, retain \in BOOLEAN : Publish(hasTopic, qos, retain)
  <2>1. PICK qos \in 0 .. 2, hasTopic \in BOOLEAN, retain \in BOOLEAN : Publish(hasTopic, qos, retain)
    BY <1>2
  <2> DEFINE message == [kind |-> "publish", qos |-> qos, retain |-> retain, property |-> pending["publish"]]
  <2>2. message \in Message
    BY <1>1 DEF Message, Kinds
  <2> QED
    BY <2>1, <2>2 DEF Publish
<1>3. CASE \E qos \in 0 .. 2 : Subscribe(qos)
  <2>1. PICK qos \in 0 .. 2 : Subscribe(qos)
    BY <1>3
  <2> DEFINE message == [kind |-> "subscribe", qos |-> qos, retain |-> FALSE, property |-> pending["subscribe"]]
  <2>2. message \in Message
    BY <1>1 DEF Message, Kinds
  <2> QED
    BY <2>1, <2>2 DEF Subscribe
<1>4. CASE Unsubscribe
  <2> DEFINE message == [kind |-> "unsubscribe", qos |-> 0, retain |-> FALSE, property |-> pending["unsubscribe"]]
  <2>1. message \in Message
    BY <1>1 DEF Message, Kinds
  <2> QED
    BY <1>4, <2>1 DEF Unsubscribe
<1>5. CASE SendDisconnect
  <2> DEFINE message == [kind |-> "disconnect", qos |-> 0, retain |-> FALSE, property |-> pending["disconnect"]]
  <2>1. message \in Message
    BY <1>1 DEF Message, Kinds
  <2> QED
    BY <1>5, <2>1 DEF SendDisconnect
<1> QED
  BY <1>2, <1>3, <1>4, <1>5 DEF Compose

-----------------------------------------------------------------------------
(***************************************************************************)
(* Types.                                                                  *)
(***************************************************************************)
LEMMA PropertyTypes ==
    /\ NoProperty \in Property /\ Nothing \in Message /\ NoItem \in Item
    /\ DefaultServer \in [Fields -> Nat] /\ Silent \in [Fields -> Nat \cup {Unsaid}]
    /\ NoAliases \in [Aliases -> Topics \cup {NoTopic}]
<1>1. NoProperty \in Property
  BY SessionAssumption DEF NoProperty, Property
<1>2. Nothing \in Message
  BY <1>1 DEF Nothing, Message, Kinds
<1>3. DefaultServer \in [Fields -> Nat]
  BY DEF DefaultServer, MQTT5_DEFAULT_RECEIVE_MAXIMUM
<1> QED
  BY <1>1, <1>2, <1>3 DEF NoItem, Item, Silent, NoAliases

\* A parsed CONNACK has a number in every field.
LEMMA ParsedType ==
    ASSUME TypeOK, NEW connack \in Connacks
    PROVE  Parsed(connack) \in [Fields -> Nat]
<1>1. connack \in [Fields -> Nat \cup {Unsaid}]
  BY SessionAssumption
<1> QED
  BY <1>1 DEF Parsed, TypeOK, MQTT5_DEFAULT_RECEIVE_MAXIMUM

\* Every step keeps the types.
LEMMA TypeStep == TypeOK /\ [Next]_vars => TypeOK'
<1> SUFFICES ASSUME TypeOK, [Next]_vars PROVE TypeOK'
  OBVIOUS
<1> USE SessionAssumption, PropertyTypes
<1>1. ASSUME NEW maximum \in Maxima, SetConnectProperty(maximum) PROVE TypeOK'
  BY <1>1 DEF TypeOK, SetConnectProperty, broker, messages
<1>2. ASSUME NEW connack \in Connacks, Connack(connack) PROVE TypeOK'
  <2>1. server' \in [Fields -> Nat]
    BY <1>2, ParsedType DEF Connack
  <2>2. said' \in [Fields -> Nat \cup {Unsaid}]
    BY <1>2 DEF Connack
  <2>3. heard' \subseteq Connacks
    BY <1>2 DEF Connack, TypeOK
  <2>4. connections' \in 0 .. MaxConnections
    BY <1>2 DEF Connack, TypeOK
  <2> QED
    BY <1>2, <2>1, <2>2, <2>3, <2>4 DEF Connack, TypeOK
<1>3. ASSUME ConnectionEnds PROVE TypeOK'
  BY <1>3 DEF ConnectionEnds, Ended, Aborted, messages, TypeOK
<1>4. ASSUME Receive PROVE TypeOK'
  <2>1. PICK alias \in Aliases :
            \/ AliasRefused(alias) \/ Resolved(alias)
            \/ \E topic \in Topics : Defined(alias, topic) \/ DefineFails(alias, topic) \/ NullTopic(alias, topic)
    BY <1>4 DEF Receive
  <2>2. table[alias] \in Item
    BY DEF TypeOK
  <2>3. CASE AliasRefused(alias)
    BY <2>3 DEF AliasRefused, Ended, Aborted, messages, TypeOK
  <2>4. CASE Resolved(alias)
    <3>1. shown' \in Topics \cup {NoTopic}
      BY <2>4, <2>2 DEF Resolved, TopicOf, Shown, Item
    <3> QED
      BY <2>4, <3>1 DEF Resolved, Shown, broker, messages, TypeOK
  <2>5. ASSUME NEW topic \in Topics, Defined(alias, topic) PROVE TypeOK'
    <3>1. [there |-> TRUE, topic |-> topic, length |-> Length[topic]] \in Item
      BY DEF Item
    <3>2. table' \in [Aliases -> Item]
      BY <2>5, <3>1 DEF Defined, TypeOK
    <3>3. aliases' \in [Aliases -> Topics \cup {NoTopic}]
      BY <2>5 DEF Defined, TypeOK
    <3> QED
      BY <2>5, <3>2, <3>3 DEF Defined, Shown, broker, messages, TypeOK
  <2>6. ASSUME NEW topic \in Topics, DefineFails(alias, topic) PROVE TypeOK'
    <3>1. [table[alias] EXCEPT !.topic = NoTopic] \in Item
      BY <2>2 DEF Item
    <3>2. table' \in [Aliases -> Item]
      BY <2>6, <3>1 DEF DefineFails, TypeOK
    <3> QED
      BY <2>6, <3>2 DEF DefineFails, Ended, Aborted, messages, TypeOK
  <2>7. ASSUME NEW topic \in Topics, NullTopic(alias, topic) PROVE TypeOK'
    BY <2>7 DEF NullTopic, Ended, Aborted, messages, TypeOK
  <2> QED
    BY <2>1, <2>3, <2>4, <2>5, <2>6, <2>7
<1>5. ASSUME Prepare PROVE TypeOK'
  <2>1. PICK kind \in Kinds, property \in Property : Set(kind, property)
    BY <1>5, PrepareStep
  <2>2. pending' \in [Kinds -> Property]
    BY <2>1 DEF Set, TypeOK
  <2> QED
    BY <2>1, <2>2 DEF Set, broker, peer, TypeOK
<1>6. ASSUME Compose PROVE TypeOK'
  <2>1. PICK message \in Message :
            Composed(message) /\ (UNCHANGED <<broker, peer>> \/ (Ended /\ UNCHANGED <<table, halted>>))
    BY <1>6, ComposeStep
  <2>2. message.kind \in Kinds /\ message.property \in Property
    BY DEF Message
  <2>3. pending' \in [Kinds -> Property]
    BY <2>1, <2>2 DEF Composed, Cleared, TypeOK
  <2>4. carried' \subseteq 1 .. MaxSets
    BY <2>1, <2>2 DEF Composed, TypeOK, Property
  <2>5. sent' \in Message /\ sets' \in 0 .. MaxSets
    BY <2>1 DEF Composed, TypeOK
  <2>6. CASE UNCHANGED <<broker, peer>>
    BY <2>3, <2>4, <2>5, <2>6 DEF broker, peer, TypeOK
  <2>7. CASE Ended /\ UNCHANGED <<table, halted>>
    BY <2>3, <2>4, <2>5, <2>7 DEF Ended, TypeOK
  <2> QED
    BY <2>1, <2>6, <2>7
<1>7. CASE UNCHANGED vars
  BY <1>7 DEF vars, broker, peer, messages, TypeOK
<1> QED
  BY <1>1, <1>2, <1>3, <1>4, <1>5, <1>6, <1>7, StepKinds

\* Whatever the broker says and the application sets, every field keeps its type:
\* in particular a CONNACK leaves no field of the server without a value.
THEOREM TypeCorrect == Spec => []TypeOK
<1>1. Init => TypeOK
  <2> SUFFICES ASSUME Init PROVE TypeOK
    OBVIOUS
  <2>1. table \in [Aliases -> Item] /\ pending \in [Kinds -> Property]
    BY PropertyTypes DEF Init
  <2>2. {connected, made, halted} \subseteq BOOLEAN
    BY DEF Init
  <2>3. connections \in 0 .. MaxConnections /\ sets \in 0 .. MaxSets /\ own \in Nat /\ announced \in Nat
    BY SessionAssumption DEF Init
  <2>4. server \in [Fields -> Nat] /\ said \in [Fields -> Nat \cup {Unsaid}] /\ sent \in Message
    BY PropertyTypes DEF Init
  <2>5. aliases \in [Aliases -> Topics \cup {NoTopic}] /\ shown \in Topics \cup {NoTopic}
    BY PropertyTypes DEF Init
  <2>6. program \in Programs /\ heard \subseteq Connacks /\ carried \subseteq 1 .. MaxSets
    BY DEF Init
  <2> QED
    BY <2>1, <2>2, <2>3, <2>4, <2>5, <2>6 DEF TypeOK
<1> QED
  BY <1>1, TypeStep, PTL DEF Spec

-----------------------------------------------------------------------------
(***************************************************************************)
(* Aliases.  Every message that is received with an alias finds the list:  *)
(* own is only ever set together with it.                                  *)
(***************************************************************************)
OwnMeansMade == own # 0 => made

KeepsTopics ==
    \A alias \in Aliases : aliases[alias] # NoTopic => table[alias].there /\ table[alias].topic = aliases[alias]

\* The two parts of AliasesHeld, the second in its inductive form.
AliasInv == KeepsTopics /\ OwnMeansMade

LEMMA AliasInvMeans ==
    ASSUME TypeOK, AliasInv
    PROVE  AliasesHeld
<1>1. ASSUME NEW alias \in Aliases, Accepted(alias) PROVE made
  <2>1. alias \in Nat \ {0} /\ own \in Nat /\ alias <= own
    BY <1>1, SessionAssumption DEF TypeOK, Accepted
  <2>2. own # 0
    BY <2>1
  <2> QED
    BY <2>2 DEF AliasInv, OwnMeansMade
<1> QED
  BY <1>1 DEF AliasInv, KeepsTopics, AliasesHeld

\* A connection that ends forgets the broker's aliases; the table may keep them.
LEMMA AbortKeepsTopics ==
    ASSUME Ended
    PROVE  KeepsTopics'
BY DEF Ended, NoAliases, KeepsTopics

\* Received messages keep the table in step with the broker.
LEMMA AliasReceive ==
    ASSUME TypeOK, AliasInv, Receive
    PROVE  AliasInv'
<1>1. PICK alias \in Aliases :
          \/ AliasRefused(alias) \/ Resolved(alias)
          \/ \E topic \in Topics : Defined(alias, topic) \/ DefineFails(alias, topic) \/ NullTopic(alias, topic)
  BY DEF Receive
<1>2. CASE AliasRefused(alias)
  BY <1>2, AbortKeepsTopics DEF AliasRefused, Ended, Aborted, AliasInv, OwnMeansMade
<1>3. CASE Resolved(alias)
  BY <1>3 DEF Resolved, Shown, AliasInv, OwnMeansMade, KeepsTopics
<1>4. ASSUME NEW topic \in Topics, Defined(alias, topic) PROVE AliasInv'
  <2>1. topic # NoTopic
    BY SessionAssumption
  <2>2. aliases' = [aliases EXCEPT ![alias] = topic] /\ own' = own /\ made' = made
    BY <1>4 DEF Defined, Shown
  <2>3. aliases \in [Aliases -> Topics \cup {NoTopic}] /\ table \in [Aliases -> Item]
    BY DEF TypeOK
  <2>4. table'[alias].there /\ table'[alias].topic = topic
    BY <1>4, <2>3 DEF Defined, SameTopic
  <2>5. \A other \in Aliases : other # alias => table'[other] = table[other] /\ aliases'[other] = aliases[other]
    BY <1>4, <2>2, <2>3 DEF Defined
  <2>6. aliases'[alias] = topic
    BY <2>2, <2>3
  <2> QED
    BY <2>2, <2>4, <2>5, <2>6 DEF AliasInv, OwnMeansMade, KeepsTopics
<1>5. ASSUME NEW topic \in Topics, DefineFails(alias, topic) PROVE AliasInv'
  BY <1>5, AbortKeepsTopics DEF DefineFails, Ended, Aborted, AliasInv, OwnMeansMade
<1>6. ASSUME NEW topic \in Topics, NullTopic(alias, topic) PROVE AliasInv'
  BY <1>6, AbortKeepsTopics DEF NullTopic, Ended, Aborted, AliasInv, OwnMeansMade
<1> QED
  BY <1>1, <1>2, <1>3, <1>4, <1>5, <1>6

LEMMA AliasStep == TypeOK /\ AliasInv /\ [Next]_vars => AliasInv'
<1> SUFFICES ASSUME TypeOK, AliasInv, [Next]_vars PROVE AliasInv'
  OBVIOUS
<1>1. ASSUME NEW maximum \in Maxima, SetConnectProperty(maximum) PROVE AliasInv'
  BY <1>1 DEF SetConnectProperty, AliasInv, OwnMeansMade, KeepsTopics
<1>2. ASSUME NEW connack \in Connacks, Connack(connack) PROVE AliasInv'
  BY <1>2 DEF Connack, NoAliases, AliasInv, OwnMeansMade, KeepsTopics
<1>3. ASSUME ConnectionEnds PROVE AliasInv'
  BY <1>3, AbortKeepsTopics DEF ConnectionEnds, Ended, Aborted, AliasInv, OwnMeansMade
<1>4. ASSUME Prepare PROVE AliasInv'
  <2>1. PICK kind \in Kinds, property \in Property : Set(kind, property)
    BY <1>4, PrepareStep
  <2> QED
    BY <2>1 DEF Set, peer, AliasInv, OwnMeansMade, KeepsTopics
<1>5. ASSUME Compose PROVE AliasInv'
  <2>1. PICK message \in Message :
            Composed(message) /\ (UNCHANGED <<broker, peer>> \/ (Ended /\ UNCHANGED <<table, halted>>))
    BY <1>5, ComposeStep
  <2>2. CASE UNCHANGED <<broker, peer>>
    BY <2>2 DEF peer, AliasInv, OwnMeansMade, KeepsTopics
  <2>3. CASE Ended
    BY <2>3, AbortKeepsTopics DEF Ended, AliasInv, OwnMeansMade
  <2> QED
    BY <2>1, <2>2, <2>3
<1>6. CASE UNCHANGED vars
  BY <1>6 DEF vars, peer, AliasInv, OwnMeansMade, KeepsTopics
<1> QED
  BY <1>1, <1>2, <1>3, <1>4, <1>5, <1>6, AliasReceive, StepKinds

\* In every reachable state the table, though it is never emptied and may lose a
\* topic for want of memory, holds the topic of every alias of this connection.
THEOREM TableHoldsAliases == Spec => []AliasesHeld
<1>1. Init => AliasInv
  BY DEF Init, NoAliases, AliasInv, OwnMeansMade, KeepsTopics
<1>2. TypeOK /\ AliasInv => AliasesHeld
  BY AliasInvMeans
<1> QED
  BY <1>1, <1>2, AliasStep, TypeStep, TypeCorrect, PTL DEF Spec

\* What the abstract specification allows of a step
LEMMA PromisedStep ==
    ASSUME TypeOK, AliasInv, [Next]_vars
    PROVE  [Promise!Next]_<<aliases, shown>>
<1>1. ASSUME Ended PROVE Promise!Reset
  BY <1>1 DEF Ended, NoAliases, Promise!Reset, Promise!Empty
<1>2. ASSUME NEW maximum \in Maxima, SetConnectProperty(maximum) PROVE UNCHANGED <<aliases, shown>>
  BY <1>2 DEF SetConnectProperty
<1>3. ASSUME NEW connack \in Connacks, Connack(connack) PROVE Promise!Reset
  BY <1>3 DEF Connack, NoAliases, Promise!Reset, Promise!Empty
<1>4. ASSUME Receive PROVE Promise!Next
  <2>1. PICK alias \in Aliases :
            \/ AliasRefused(alias) \/ Resolved(alias)
            \/ \E topic \in Topics : Defined(alias, topic) \/ DefineFails(alias, topic) \/ NullTopic(alias, topic)
    BY <1>4 DEF Receive
  <2>2. CASE Resolved(alias)
    <3>1. TopicOf(alias) = aliases[alias]
      BY <2>2 DEF Resolved, TopicOf, AliasInv, KeepsTopics
    <3>2. Promise!Use(alias)
      BY <2>2, <3>1 DEF Resolved, Shown, Promise!Use
    <3> QED
      BY <3>2 DEF Promise!Next
  <2>3. ASSUME NEW topic \in Topics, Defined(alias, topic) PROVE Promise!Next
    <3>1. Promise!Define(alias, topic)
      BY <2>3 DEF Defined, Shown, Promise!Define
    <3> QED
      BY <3>1 DEF Promise!Next
  <2>4. ASSUME NEW topic \in Topics, DefineFails(alias, topic) \/ NullTopic(alias, topic) PROVE Ended
    BY <2>4 DEF DefineFails, NullTopic, Aborted
  <2>5. CASE AliasRefused(alias)
    BY <2>5, <1>1 DEF AliasRefused, Aborted, Promise!Next
  <2> QED
    BY <2>1, <2>2, <2>3, <2>4, <2>5, <1>1 DEF Promise!Next
<1>5. ASSUME Prepare PROVE UNCHANGED <<aliases, shown>>
  <2>1. PICK kind \in Kinds, property \in Property : Set(kind, property)
    BY <1>5, PrepareStep
  <2> QED
    BY <2>1 DEF Set, peer
<1>6. ASSUME Compose PROVE Ended \/ UNCHANGED <<aliases, shown>>
  <2>1. PICK message \in Message :
            Composed(message) /\ (UNCHANGED <<broker, peer>> \/ (Ended /\ UNCHANGED <<table, halted>>))
    BY <1>6, ComposeStep
  <2> QED
    BY <2>1 DEF peer
<1>7. CASE UNCHANGED vars
  BY <1>7 DEF vars, peer
<1> QED
  BY <1>1, <1>2, <1>3, <1>4, <1>5, <1>6, <1>7, StepKinds DEF ConnectionEnds, Aborted, Promise!Next

\* The client implements TopicAliases: a message that comes with an alias is shown
\* with the topic the broker last gave the alias on this connection, or not shown.
THEOREM ImplementsAliases == Spec => AliasesPromised
<1>1. Init => AliasInv
  BY DEF Init, NoAliases, AliasInv, OwnMeansMade, KeepsTopics
<1>2. Init => Promise!Init
  BY DEF Init, NoAliases, Promise!Init, Promise!Empty
<1>3. TypeOK /\ AliasInv /\ [Next]_vars => [Promise!Next]_<<aliases, shown>>
  BY PromisedStep
<1> QED
  BY <1>1, <1>2, <1>3, AliasStep, TypeStep, TypeCorrect, PTL DEF Spec, AliasesPromised, Promise!Spec

-----------------------------------------------------------------------------
(***************************************************************************)
(* The limits of the server.  Three things are kept: what the record of    *)
(* the server has to do with the CONNACKs heard so far, that properties    *)
(* are within the record as long as their test counts, and that the        *)
(* message composed last is.                                               *)
(***************************************************************************)

\* All CONNACKs so far have said the same.
Steady == \E connack \in heard : heard = {connack}

\* As Tested, but on a connection or not: the client may set a property between
\* two connections.
Counts(property) == property.at = connections \/ (Steady /\ property.at > 0)

Recorded ==
    /\ connections = 0 => heard = {} /\ server = Absent
    /\ connections > 0 => heard # {}
    /\ \A connack \in heard :
          heard = {connack} => \A field \in Fields : server[field] = Limit(connack, field)
    /\ connected => /\ said \in heard
                    /\ \A field \in Fields :
                          said[field] # Unsaid \/ field = "receive_maximum" => server[field] = Limit(said, field)

\* The properties are within what is recorded.
Within(property) ==
    /\ property.alias <= server["topic_alias_maximum"]
    /\ property.shared => server["shared_subscribe_available"] # 0

Prepared ==
    \A kind \in Kinds :
        /\ pending[kind].at <= connections
        /\ Counts(pending[kind]) => Within(pending[kind])

SentWithin ==
    /\ sent.kind \in {"publish", "subscribe"} => sent.qos <= server["max_qos"]
    /\ sent.retain => server["retain_available"] # 0
    /\ Counts(sent.property) => Within(sent.property)

LimitInv == Recorded /\ Prepared /\ SentWithin

\* The client starts with the values that the protocol gives what is left out.
LEMMA DefaultsAreAbsent == DefaultServer = Absent
BY DEF DefaultServer, Absent, MQTT5_DEFAULT_RECEIVE_MAXIMUM

\* Messages and properties without alias and share are within any limits.
LEMMA NothingWithin ==
    ASSUME server \in [Fields -> Nat]
    PROVE  Within(NoProperty) /\ Within(Nothing.property)
<1>1. server["topic_alias_maximum"] \in Nat
  BY DEF Fields
<1> QED
  BY <1>1 DEF Within, NoProperty, Nothing

\* The record has every field that is binding.
LEMMA BindingRecorded ==
    ASSUME Recorded, connected, NEW field \in Fields, Binding(field)
    PROVE  server[field] = Limit(said, field)
BY DEF Recorded, Binding

LEMMA LimitInvMeans ==
    ASSUME TypeOK, LimitInv
    PROVE  ConnackKept
<1>1. LimitsTold
  BY BindingRecorded DEF LimitInv, LimitsTold
<1>2. WithinLimits
  <2> SUFFICES ASSUME connected PROVE WithinLimits
    BY DEF WithinLimits
  <2>1. \A field \in {"max_qos", "retain_available", "topic_alias_maximum", "shared_subscribe_available"} :
            Binding(field) => server[field] = Limit(said, field)
    BY BindingRecorded DEF LimitInv, Fields
  <2>2. Tested(sent.property) => Counts(sent.property)
    BY DEF Tested, Counts, Steady, LimitInv, Recorded
  <2> QED
    BY <2>1, <2>2 DEF LimitInv, SentWithin, Within, WithinLimits
<1> QED
  BY <1>1, <1>2 DEF ConnackKept

LEMMA LimitSame ==
    ASSUME LimitInv, UNCHANGED <<server, said, heard, connected, connections, messages>>
    PROVE  LimitInv'
BY DEF LimitInv, Recorded, Prepared, SentWithin, Counts, Steady, Within, Limit, messages

\* A connection that ends leaves the record.
LEMMA RecordedEnded ==
    ASSUME Recorded, Ended
    PROVE  Recorded'
BY DEF Recorded, Ended, Limit

LEMMA LimitAborted ==
    ASSUME LimitInv, Aborted
    PROVE  LimitInv'
<1>1. UNCHANGED <<server, heard, connections, messages>>
  BY DEF Ended, Aborted
<1>2. Prepared' /\ SentWithin'
  BY <1>1 DEF LimitInv, Prepared, SentWithin, Counts, Steady, Within, messages
<1> QED
  BY <1>2, RecordedEnded DEF LimitInv, Aborted

\* A CONNACK that says what the ones before it said leaves the record as it is.
LEMMA SteadyRecord ==
    ASSUME TypeOK, Recorded, NEW connack \in Connacks, heard = {connack}
    PROVE  Parsed(connack) = server
<1>1. server \in [Fields -> Nat] /\ Parsed(connack) \in [Fields -> Nat]
  BY ParsedType DEF TypeOK
<1>2. \A field \in Fields : server[field] = Limit(connack, field)
  BY DEF Recorded
<1>3. ASSUME NEW field \in Fields PROVE Parsed(connack)[field] = server[field]
  <2>1. CASE connack[field] # Unsaid
    BY <2>1, <1>2 DEF Parsed, Limit
  <2>2. CASE connack[field] = Unsaid /\ field = "receive_maximum"
    BY <2>2, <1>2 DEF Parsed, Limit, Absent, MQTT5_DEFAULT_RECEIVE_MAXIMUM
  <2>3. CASE connack[field] = Unsaid /\ field # "receive_maximum"
    BY <2>3 DEF Parsed
  <2> QED
    BY <2>1, <2>2, <2>3
<1> QED
  BY <1>1, <1>3

\* A CONNACK is recorded as far as it goes.  The properties set before it count
\* only if it is not the first and has said nothing new.
LEMMA LimitConnack ==
    ASSUME TypeOK, LimitInv, NEW connack \in Connacks, Connack(connack)
    PROVE  LimitInv'
<1>1. /\ server' = Parsed(connack) /\ heard' = heard \cup {connack}
      /\ connections' = connections + 1 /\ connections \in Nat
      /\ pending' = pending /\ sent' = Nothing
      /\ connected' => said' = connack
  BY SessionAssumption DEF Connack, TypeOK
<1>2. \A field \in Fields :
          connack[field] # Unsaid \/ field = "receive_maximum" => server'[field] = Limit(connack, field)
  BY <1>1 DEF Parsed, Limit, Absent, MQTT5_DEFAULT_RECEIVE_MAXIMUM
<1>3. ASSUME heard = {} PROVE \A field \in Fields : server'[field] = Limit(connack, field)
  <2>1. connections = 0
    BY <1>1, <1>3 DEF LimitInv, Recorded
  <2>2. server = Absent
    BY <2>1 DEF LimitInv, Recorded
  <2>3. \A field \in Fields :
            connack[field] = Unsaid /\ field # "receive_maximum" => server'[field] = Absent[field]
    BY <1>1, <2>2 DEF Parsed
  <2> QED
    BY <1>2, <2>3 DEF Limit
<1>4. ASSUME heard = {connack} PROVE server' = server
  BY <1>1, <1>4, SteadyRecord DEF LimitInv
<1>5. Recorded'
  <2>1. connections' > 0 /\ heard' # {}
    BY <1>1
  <2>2. ASSUME NEW other \in heard', heard' = {other}
        PROVE  \A field \in Fields : server'[field] = Limit(other, field)
    <3>1. other = connack /\ (heard = {} \/ heard = {connack})
      BY <1>1, <2>2
    <3>2. CASE heard = {}
      BY <3>1, <3>2, <1>3
    <3>3. CASE heard = {connack}
      BY <3>1, <3>3, <1>4 DEF LimitInv, Recorded
    <3> QED
      BY <3>1, <3>2, <3>3
  <2>3. connected' => /\ said' \in heard'
                      /\ \A field \in Fields :
                            said'[field] # Unsaid \/ field = "receive_maximum" =>
                                server'[field] = Limit(said', field)
    BY <1>1, <1>2
  <2>4. connections' # 0
    BY <1>1
  <2> QED
    BY <2>1, <2>2, <2>3, <2>4 DEF Recorded, Limit
<1>6. Prepared'
  <2> SUFFICES ASSUME NEW kind \in Kinds
               PROVE  /\ pending[kind].at <= connections + 1
                      /\ Counts(pending[kind])' => Within(pending[kind])'
    BY <1>1 DEF Prepared
  <2>1. pending[kind] \in Property
    BY DEF TypeOK
  <2>2. pending[kind].at \in Nat /\ pending[kind].at <= connections
    BY <2>1, SessionAssumption DEF Property, LimitInv, Prepared
  <2>3. ASSUME Counts(pending[kind])' PROVE Within(pending[kind])'
    <3>1. Steady' /\ pending[kind].at > 0
      BY <1>1, <2>2, <2>3 DEF Counts
    <3>2. heard # {}
      BY <3>1, <2>2, <1>1 DEF LimitInv, Recorded
    <3>3. heard = {connack}
      BY <3>1, <3>2, <1>1 DEF Steady
    <3>4. Counts(pending[kind])
      BY <3>1, <3>3 DEF Counts, Steady
    <3>5. Within(pending[kind])
      BY <3>4 DEF LimitInv, Prepared
    <3> QED
      BY <3>5, <3>3, <1>1, <1>4 DEF Within
  <2> QED
    BY <2>2, <2>3, <1>1
<1>7. SentWithin'
  <2>1. server' \in [Fields -> Nat]
    BY <1>1, ParsedType
  <2>2. server'["topic_alias_maximum"] \in Nat
    BY <2>1 DEF Fields
  <2>3. /\ sent'.kind = "disconnect" /\ ~sent'.retain
        /\ sent'.property.alias = 0 /\ ~sent'.property.shared
    BY <1>1 DEF Nothing, NoProperty
  <2> QED
    BY <2>2, <2>3 DEF SentWithin, Within
<1> QED
  BY <1>5, <1>6, <1>7 DEF LimitInv

\* A property is set within what is recorded.
LEMMA LimitPrepare ==
    ASSUME TypeOK, LimitInv, Prepare
    PROVE  LimitInv'
<1>1. PICK kind \in Kinds, property \in Property :
          /\ Set(kind, property)
          /\ \/ /\ property.ids = {sets + 1}
                /\ property.at = connections
                /\ property.alias <= server["topic_alias_maximum"]
                /\ property.shared => server["shared_subscribe_available"] # 0
             \/ /\ kind = "disconnect"
                /\ property = [pending[kind] EXCEPT !.ids = pending[kind].ids \cup {sets + 1}]
  BY PrepareStep
<1>2. /\ pending' = [pending EXCEPT ![kind] = property]
      /\ UNCHANGED <<server, said, heard, connected, connections, sent>>
  BY <1>1 DEF Set, broker
<1>3. pending \in [Kinds -> Property] /\ connections \in Nat
  BY SessionAssumption DEF TypeOK
<1>4. property.at <= connections /\ (Counts(property) => Within(property))
  <2>1. CASE property.at = connections /\ Within(property)
    BY <2>1, <1>3
  <2>2. CASE property = [pending[kind] EXCEPT !.ids = pending[kind].ids \cup {sets + 1}]
    <3>1. /\ property.at = pending[kind].at
          /\ property.alias = pending[kind].alias /\ property.shared = pending[kind].shared
      BY <2>2, <1>3 DEF Property
    <3> QED
      BY <3>1 DEF LimitInv, Prepared, Counts, Within
  <2> QED
    BY <1>1, <2>1, <2>2 DEF Within
<1>5. Prepared'
  BY <1>2, <1>3, <1>4 DEF LimitInv, Prepared, Counts, Steady, Within
<1>6. Recorded' /\ SentWithin'
  BY <1>2 DEF LimitInv, Recorded, SentWithin, Counts, Steady, Within, Limit
<1> QED
  BY <1>5, <1>6 DEF LimitInv

\* A message is composed within what is recorded.
LEMMA LimitCompose ==
    ASSUME TypeOK, LimitInv, Compose
    PROVE  LimitInv'
<1>1. PICK message \in Message :
          /\ Composed(message)
          /\ UNCHANGED <<broker, peer>> \/ Ended
          /\ message.property = pending[message.kind]
          /\ message.kind \in {"publish", "subscribe"} => message.qos <= server["max_qos"]
          /\ message.retain => server["retain_available"] # 0
  BY ComposeStep
<1>2. message.kind \in Kinds /\ pending \in [Kinds -> Property] /\ connections \in Nat
  BY SessionAssumption DEF TypeOK, Message
<1>3. pending' = [pending EXCEPT ![message.kind] = NoProperty] /\ UNCHANGED <<server, heard, connections>>
  BY <1>1 DEF Composed, Cleared, broker, Ended
<1>4. Within(NoProperty) /\ Within(Nothing.property) /\ NoProperty.at <= connections
  BY <1>2, NothingWithin DEF TypeOK, NoProperty
<1>5. Prepared'
  BY <1>2, <1>3, <1>4 DEF LimitInv, Prepared, Counts, Steady, Within
<1>6. SentWithin'
  <2>1. CASE connected
    <3>1. sent' = message
      BY <2>1, <1>1 DEF Composed
    <3>2. Counts(message.property) => Within(message.property)
      BY <1>1, <1>2 DEF LimitInv, Prepared
    <3> QED
      BY <3>1, <3>2, <1>1, <1>3 DEF SentWithin, Counts, Steady, Within
  <2>2. CASE ~connected
    <3>1. sent' = Nothing
      BY <2>2, <1>1 DEF Composed
    <3>2. sent'.kind = "disconnect" /\ ~sent'.retain
      BY <3>1 DEF Nothing
    <3> QED
      BY <3>1, <3>2, <1>3, <1>4 DEF SentWithin, Within
  <2> QED
    BY <2>1, <2>2
<1>7. Recorded'
  <2>1. CASE UNCHANGED <<broker, peer>>
    BY <2>1 DEF LimitInv, Recorded, Limit, broker
  <2>2. CASE Ended
    BY <2>2, RecordedEnded DEF LimitInv
  <2> QED
    BY <1>1, <2>1, <2>2
<1> QED
  BY <1>5, <1>6, <1>7 DEF LimitInv

\* What is received stores nothing, or ends the connection.
LEMMA ReceiveStep ==
    ASSUME Receive
    PROVE  Aborted \/ UNCHANGED <<broker, messages>>
BY DEF Receive, AliasRefused, Resolved, Defined, DefineFails, NullTopic, Shown

LEMMA LimitStep == TypeOK /\ LimitInv /\ [Next]_vars => LimitInv'
<1> SUFFICES ASSUME TypeOK, LimitInv, [Next]_vars PROVE LimitInv'
  OBVIOUS
<1>1. ASSUME NEW maximum \in Maxima, SetConnectProperty(maximum) PROVE LimitInv'
  BY <1>1, LimitSame DEF SetConnectProperty, broker
<1>2. ASSUME ConnectionEnds PROVE LimitInv'
  BY <1>2, LimitAborted DEF ConnectionEnds
<1>3. ASSUME Receive PROVE LimitInv'
  BY <1>3, ReceiveStep, LimitAborted, LimitSame DEF broker
<1>4. CASE UNCHANGED vars
  BY <1>4, LimitSame DEF vars, broker
<1> QED
  BY <1>1, <1>2, <1>3, <1>4, LimitConnack, LimitPrepare, LimitCompose, StepKinds

\* Messages and what the application is told keep to the limits of the server of
\* this connection for every field its CONNACK mentions, and for all fields while
\* every CONNACK has said the same; an alias or share as long as its test counts.
\* The quota is always the one of this connection.  Of a field that the CONNACK
\* leaves out after a different one, nothing is claimed.
THEOREM KeepsConnack == Spec => []ConnackKept
<1>1. Init => LimitInv
  <2> SUFFICES ASSUME Init PROVE LimitInv
    OBVIOUS
  <2>1. Recorded
    BY DefaultsAreAbsent DEF Init, Recorded
  <2>2. Within(NoProperty) /\ Within(Nothing.property) /\ NoProperty.at = 0
    BY PropertyTypes, NothingWithin DEF Init, NoProperty
  <2>3. Prepared
    BY <2>2 DEF Init, Prepared
  <2>4. sent.kind = "disconnect" /\ ~sent.retain
    BY DEF Init, Nothing
  <2>5. SentWithin
    BY <2>2, <2>4 DEF Init, SentWithin
  <2> QED
    BY <2>1, <2>3, <2>5 DEF LimitInv
<1>2. TypeOK /\ LimitInv => ConnackKept
  BY LimitInvMeans
<1> QED
  BY <1>1, <1>2, LimitStep, TypeStep, TypeCorrect, PTL DEF Spec

-----------------------------------------------------------------------------
(***************************************************************************)
(* One message for a property.  Calls are numbered, so a call's number is  *)
(* new when it is made and waits for one kind of message only.             *)
(***************************************************************************)
Numbered ==
    /\ carried \subseteq 1 .. sets
    /\ \A kind \in Kinds : pending[kind].ids \subseteq 1 .. sets
    /\ \A kind, other \in Kinds : kind # other => pending[kind].ids \cap pending[other].ids = {}

OneTimeInv == Numbered /\ OneTime

LEMMA OneTimeSame ==
    ASSUME OneTimeInv, UNCHANGED <<carried, sets>>,
           \A kind \in Kinds : pending'[kind].ids = pending[kind].ids
    PROVE  OneTimeInv'
BY DEF OneTimeInv, Numbered, OneTime

LEMMA OneTimePrepare ==
    ASSUME TypeOK, OneTimeInv, Prepare
    PROVE  OneTimeInv'
<1>1. PICK kind \in Kinds, property \in Property :
          /\ Set(kind, property)
          /\ \/ property.ids = {sets + 1}
             \/ property = [pending[kind] EXCEPT !.ids = pending[kind].ids \cup {sets + 1}]
  BY PrepareStep
<1>2. pending' = [pending EXCEPT ![kind] = property] /\ carried' = carried /\ sets' = sets + 1
  BY <1>1 DEF Set
<1>3. pending \in [Kinds -> Property] /\ sets \in Nat
  BY SessionAssumption DEF TypeOK
<1>4. property.ids \subseteq pending[kind].ids \cup {sets + 1}
  <2>1. CASE property = [pending[kind] EXCEPT !.ids = pending[kind].ids \cup {sets + 1}]
    BY <2>1, <1>3 DEF Property
  <2> QED
    BY <2>1, <1>1
<1>5. \A other \in Kinds : pending'[other].ids \subseteq
          IF other = kind THEN pending[kind].ids \cup {sets + 1} ELSE pending[other].ids
  BY <1>2, <1>3, <1>4
<1>6. 1 .. sets \subseteq 1 .. sets' /\ sets + 1 \in 1 .. sets' /\ sets + 1 \notin 1 .. sets
  BY <1>2, <1>3
<1>7. /\ carried' \subseteq 1 .. sets'
      /\ \A other \in Kinds : pending'[other].ids \subseteq 1 .. sets'
  BY <1>2, <1>5, <1>6 DEF OneTimeInv, Numbered
<1>8. \A one, other \in Kinds : one # other => pending'[one].ids \cap pending'[other].ids = {}
  BY <1>5, <1>6 DEF OneTimeInv, Numbered
<1>9. OneTime'
  BY <1>2, <1>5, <1>6 DEF OneTimeInv, Numbered, OneTime
<1> QED
  BY <1>7, <1>8, <1>9 DEF OneTimeInv, Numbered

LEMMA OneTimeCompose ==
    ASSUME TypeOK, OneTimeInv, Compose
    PROVE  OneTimeInv'
<1>1. PICK message \in Message : Composed(message) /\ message.property = pending[message.kind]
  BY ComposeStep
<1>2. message.kind \in Kinds /\ pending \in [Kinds -> Property]
  BY DEF Message, TypeOK
<1>3. /\ pending' = [pending EXCEPT ![message.kind] = NoProperty]
      /\ carried' = carried \cup pending[message.kind].ids /\ sets' = sets
  BY <1>1 DEF Composed, Cleared
<1>4. \A kind \in Kinds : pending'[kind].ids = IF kind = message.kind THEN {} ELSE pending[kind].ids
  BY <1>2, <1>3 DEF NoProperty
<1>5. Numbered'
  BY <1>2, <1>3, <1>4 DEF OneTimeInv, Numbered
<1>6. OneTime'
  BY <1>2, <1>3, <1>4 DEF OneTimeInv, Numbered, OneTime
<1> QED
  BY <1>5, <1>6 DEF OneTimeInv

LEMMA OneTimeStep == TypeOK /\ OneTimeInv /\ [Next]_vars => OneTimeInv'
<1> SUFFICES ASSUME TypeOK, OneTimeInv, [Next]_vars PROVE OneTimeInv'
  OBVIOUS
<1>1. ASSUME NEW maximum \in Maxima, SetConnectProperty(maximum) PROVE OneTimeInv'
  BY <1>1, OneTimeSame DEF SetConnectProperty, messages
<1>2. ASSUME NEW connack \in Connacks, Connack(connack) PROVE OneTimeInv'
  BY <1>2, OneTimeSame DEF Connack
<1>3. ASSUME ConnectionEnds PROVE OneTimeInv'
  BY <1>3, OneTimeSame DEF ConnectionEnds, Ended, Aborted, messages
<1>4. ASSUME Receive PROVE OneTimeInv'
  BY <1>4, ReceiveStep, OneTimeSame DEF Ended, Aborted, messages
<1>5. CASE UNCHANGED vars
  BY <1>5, OneTimeSame DEF vars, messages
<1> QED
  BY <1>1, <1>2, <1>3, <1>4, <1>5, OneTimePrepare, OneTimeCompose, StepKinds

\* Over any number of calls, messages and connections, no property goes out with
\* two messages.
THEOREM PropertyIsOneTime == Spec => []OneTime
<1>1. Init => OneTimeInv
  BY DEF Init, NoProperty, OneTimeInv, Numbered, OneTime
<1>2. OneTimeInv => OneTime
  BY DEF OneTimeInv
<1> QED
  BY <1>1, <1>2, OneTimeStep, TypeStep, TypeCorrect, PTL DEF Spec
=============================================================================
