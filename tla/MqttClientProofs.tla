--------------------------- MODULE MqttClientProofs ---------------------------
(***************************************************************************)
(* What MqttClient guarantees about DUP, the broker's quota and the        *)
(* delivery of messages, for any identifiers, callers and bounds.  Each    *)
(* invariant rests on the ones before it and is shown step by step, on the *)
(* steps of MqttClientSteps.                                               *)
(***************************************************************************)
EXTENDS MqttClientSteps

-----------------------------------------------------------------------------
(***************************************************************************)
(* Identifiers.                                                            *)
(***************************************************************************)
LEMMA KeepsStored ==
    ASSUME NEW S, Keeps(S)
    PROVE  \A id \in Ids : Stored(Items', id) <=> Stored(S, id)
BY IdsAssumption DEF Keeps, Stored

LEMMA MarkedItem ==
    ASSUME NEW i \in Item, NEW pending \in PendingStates
    PROVE  LET new == [i EXCEPT !.pending = pending]
           IN  /\ new \in Item /\ new.pending = pending
               /\ new.id = i.id /\ new.type = i.type /\ new.qos = i.qos /\ new.dup = i.dup
BY DEF Item

LEMMA MarkedStored ==
    ASSUME DataInv, NEW x, NEW pending \in PendingStates
    PROVE  \A id : Stored(Marked(Items, x, pending), id) <=> Stored(Items, id)
<1> DEFINE New(i) == [i EXCEPT !.pending = pending]
<1>1. \A i \in Items : New(i).id = i.id /\ New(i).type = i.type
  BY ItemsSound, MarkedItem
<1> HIDE DEF New
<1>2. Marked(Items, x, pending)
         = {i \in Items : i.id # x} \cup {New(i) : i \in {j \in Items : j.id = x}}
  BY DEF Marked, New
<1>3. QED  BY <1>1, <1>2 DEF Stored

LEMMA RetriedItem ==
    ASSUME NEW i \in Item
    PROVE  /\ Retried(i) \in Item /\ Retried(i).dup = (i.dup \/ i.type = "PUBLISH")
           /\ Retried(i).id = i.id /\ Retried(i).type = i.type /\ Retried(i).qos = i.qos
           /\ Retried(i).pending = i.pending
BY DEF Retried, Item

\* Every step keeps identifiers unique, and the outbox and the promises together.
LEMMA IdStep ==
    ASSUME DataInv, IdInv, DataInv', Distinct(outbox'), Steps
    PROVE  IdInv'
<1> SUFFICES ASSUME NEW id \in Ids
             PROVE  promise'[id] = "accepted" <=> Stored(Items', id)
  BY DEF IdInv
<1>1. /\ promise[id] = "accepted" <=> Stored(Items, id)
      /\ promise \in [Ids -> Fates]
      /\ "TRANSMITTED" \in PendingStates /\ "ACKNOWLEDGED" \in PendingStates
  BY DEF IdInv, DataInv, PendingStates
<1>2. \A i \in Items : i \in Item
  BY ItemsSound
<1>3. ASSUME Keeps(Items), promise' = promise
      PROVE  promise'[id] = "accepted" <=> Stored(Items', id)
  BY <1>1, <1>3, KeepsStored
<1>4. CASE UNCHANGED data
  BY <1>1, <1>4 DEF data, Items
<1>5. CASE CutStep \/ PlainStep \/ LostStep
  BY <1>3, <1>5 DEF CutStep, PlainStep, LostStep, Quiet
<1>6. CASE Qos0Step
  <2>1. Stored(Items \cup {NewItem(NoId, "PUBLISH", 0)}, id) <=> Stored(Items, id)
    BY IdsAssumption DEF Stored, NewItem
  <2>2. QED  BY <1>1, <1>6, <2>1, KeepsStored DEF Qos0Step, Quiet
<1>7. CASE ConnectedStep
  <2> DEFINE New(i) == [Requeued(i) EXCEPT !.old = TRUE]
  <2>1. \A i \in Items : New(i).id = i.id /\ New(i).type = i.type
    BY ItemsSound, RequeuedType
  <2>2. Keeps({New(i) : i \in Items}) /\ promise' = promise
    BY <1>7 DEF ConnectedStep
  <2> HIDE DEF New
  <2>3. Stored({New(i) : i \in Items}, id) <=> Stored(Items, id)
    BY <2>1 DEF Stored
  <2>4. QED  BY <1>1, <2>2, <2>3, KeepsStored
<1>8. CASE PurgeStep
  BY <1>1, <1>8 DEF PurgeStep, Stored
<1>9. ASSUME NEW x \in FreshIds, UnsentStep(x) \/ SentStep(x)
      PROVE  promise'[id] = "accepted" <=> Stored(Items', id)
  <2>1. PICK new : new.type = "PUBLISH" /\ new.id = x /\ Keeps(Items \cup {new})
    BY <1>9 DEF UnsentStep, SentStep, NewItem
  <2>2. promise' = [promise EXCEPT ![x] = "accepted"]
    BY <1>9 DEF UnsentStep, SentStep
  <2>3. Stored(Items', id) <=> Stored(Items, id) \/ id = x
    BY <2>1, KeepsStored DEF Stored
  <2>4. QED  BY <1>1, <2>2, <2>3
<1>10. ASSUME NEW x \in FreshIds, NEW type \in Requests, RequestStep(x, type)
       PROVE  promise'[id] = "accepted" <=> Stored(Items', id)
  <2>1. PICK new : new.type # "PUBLISH" /\ Keeps(Items \cup {new})
    BY <1>10 DEF RequestStep, NewItem, Requests
  <2>2. Stored(Items', id) <=> Stored(Items, id)
    BY <2>1, KeepsStored DEF Stored
  <2>3. QED  BY <1>1, <1>10, <2>2 DEF RequestStep, Quiet
<1>11. ASSUME NEW i \in Items, ResentStep(i)
       PROVE  promise'[id] = "accepted" <=> Stored(Items', id)
  <2>1. Stored(Items', id) <=> Stored(Items, id)
    BY <1>1, <1>11, KeepsStored, MarkedStored DEF ResentStep
  <2>2. QED  BY <1>1, <1>11, <2>1 DEF ResentStep
<1>12. ASSUME NEW i \in Items, RetransmitStep(i)
       PROVE  promise'[id] = "accepted" <=> Stored(Items', id)
  <2>1. Retried(i).id = i.id /\ Retried(i).type = i.type
    BY <1>2, RetriedItem
  <2>2. Stored((Items \ {i}) \cup {Retried(i)}, id) <=> Stored(Items, id)
    BY <2>1 DEF Stored
  <2>3. QED  BY <1>1, <1>12, <2>2, KeepsStored DEF RetransmitStep, Quiet
<1>13. ASSUME NEW i \in Items, PubrelStep(i)
       PROVE  promise'[id] = "accepted" <=> Stored(Items', id)
  BY <1>3, <1>13 DEF PubrelStep, Quiet
<1>14. ASSUME NEW i \in Items, ExpiredStep(i)
       PROVE  promise'[id] = "accepted" <=> Stored(Items', id)
  <2>1. promise' = [x \in Ids |-> IF x \notin (IF i.type = "PUBLISH" THEN {i.id} ELSE {})
                                  THEN promise[x]
                                  ELSE IF promise[x] = "accepted" THEN "deleted" ELSE "twice"]
    BY <1>14 DEF ExpiredStep, Reported
  <2>2. CASE i.type = "PUBLISH" /\ i.id = id
    <3>1. \A j \in Items : j.id = id => j = i
      BY <2>2, SameItem, IdsAssumption DEF IdInv, Items
    <3>2. ~Stored(Items', id)
      BY <1>14, <2>2, <3>1, KeepsStored, IdsAssumption DEF ExpiredStep, Stored
    <3>3. QED  BY <2>1, <2>2, <3>2
  <2>3. CASE ~(i.type = "PUBLISH" /\ i.id = id)
    <3>1. Stored(Items', id) <=> Stored(Items, id)
      BY <1>14, <2>3, KeepsStored DEF ExpiredStep, Stored
    <3>2. promise'[id] = promise[id]
      BY <2>1, <2>3
    <3>3. QED  BY <1>1, <3>1, <3>2
  <2>4. QED  BY <2>2, <2>3
<1>15. ASSUME NEW a, TakenStep(a)
       PROVE  promise'[id] = "accepted" <=> Stored(Items', id)
  BY <1>3, <1>15 DEF TakenStep
<1>16. ASSUME NEW a, FinishedStep(a)
       PROVE  promise'[id] = "accepted" <=> Stored(Items', id)
  <2>1. Stored(Items', id) <=> Stored(Items, id) /\ id # a.id
    BY <1>16, KeepsStored DEF FinishedStep, Stored
  <2>2. CASE Stored(Items, a.id)
    <3>1. promise' = [x \in Ids |-> IF x \notin {a.id} THEN promise[x]
                                    ELSE IF promise[x] = "accepted" THEN "published" ELSE "twice"]
      BY <1>16, <2>2 DEF FinishedStep, Reported, Stored
    <3>2. QED  BY <1>1, <2>1, <3>1
  <2>3. CASE ~Stored(Items, a.id)
    <3>1. promise' = promise
      BY <1>16, <2>3 DEF FinishedStep, Stored
    <3>2. QED  BY <1>1, <2>1, <2>3, <3>1
  <2>4. QED  BY <2>2, <2>3
<1>17. ASSUME NEW a, AckedStep(a)
       PROVE  promise'[id] = "accepted" <=> Stored(Items', id)
  <2>1. Stored(Items', id) <=> Stored(Items, id)
    BY <1>1, <1>17, KeepsStored, MarkedStored DEF AckedStep
  <2>2. QED  BY <1>1, <1>17, <2>1 DEF AckedStep
<1>18. ASSUME NEW p, BrokerStep(p)
       PROVE  promise'[id] = "accepted" <=> Stored(Items', id)
  BY <1>3, <1>18 DEF BrokerStep
<1>19. QED
  BY <1>4, <1>5, <1>6, <1>7, <1>8, <1>9, <1>10, <1>11, <1>12, <1>13, <1>14, <1>15, <1>16, <1>17,
     <1>18 DEF Steps

-----------------------------------------------------------------------------
(***************************************************************************)
(* DUP: what was written before.                                           *)
(***************************************************************************)

\* A queued publish is marked if and only if it was written before, and one
\* that waits for its answer was written.
ItemWritten(i, ids) ==
    /\ i.type = "PUBLISH" /\ i.pending = "QUEUED" => (i.dup <=> i.id \in ids)
    /\ i.type = "PUBLISH" /\ i.pending # "QUEUED" => i.id \in ids
    /\ i.pending = "ACKNOWLEDGED" => i.id \in ids

Honest(p) == p.type = "PUBLISH" /\ p.qos > 0 => p.dup = p.again

\* Whatever is under way, counted or carried over was written.
WriteInv ==
    /\ \A i \in Items : i.id # NoId => ItemWritten(i, written)
    /\ \A p \in Packets : p.id \in written \cup {NoId} /\ Honest(p)
    /\ \A a \in Replies : a.id \in written \cup {NoId}
    /\ inflight \subseteq written /\ carried \subseteq written

LEMMA PacketFields ==
    ASSUME NEW item \in Item, NEW dup \in BOOLEAN
    PROVE  LET p == PacketOf(item, dup)
           IN  /\ p.type = item.type /\ p.id = item.id /\ p.qos = item.qos
               /\ p.dup = dup /\ p.again = (item.id \in written)
BY DEF PacketOf

\* An item that was written before is resent with DUP, and only such an item.
LEMMA HonestPacket ==
    ASSUME NEW item \in Item, SoundItem(item), NEW dup \in BOOLEAN,
           item.type = "PUBLISH" /\ item.id # NoId => (dup <=> item.id \in written)
    PROVE  Honest(PacketOf(item, dup)) /\ PacketOf(item, dup).id = item.id
<1> DEFINE p == PacketOf(item, dup)
<1>1. /\ p.type = item.type /\ p.id = item.id /\ p.qos = item.qos
      /\ p.dup = dup /\ p.again = (item.id \in written)
  BY PacketFields
<1> HIDE DEF p
<1>2. ASSUME p.type = "PUBLISH", p.qos > 0 PROVE item.type = "PUBLISH" /\ item.id # NoId
  BY <1>1, <1>2 DEF SoundItem
<1>3. ASSUME item.type = "PUBLISH", item.id # NoId PROVE p.dup = p.again
  <2>1. dup = (item.id \in written)
    BY <1>3
  <2>2. QED  BY <1>1, <2>1
<1>4. QED  BY <1>1, <1>2, <1>3 DEF Honest, p

LEMMA ControlFields ==
    ASSUME NEW type, NEW id
    PROVE  Control(type, id).type = type /\ Control(type, id).id = id
BY DEF Control

\* The packet is one more, and it was written now.
LEMMA SendsWritten ==
    ASSUME WriteInv, NEW p, Sends(p), Honest(p)
    PROVE  /\ \A q \in Packets' : q.id \in written' \cup {NoId} /\ Honest(q)
           /\ \A a \in Replies : a.id \in written' \cup {NoId}
           /\ inflight \subseteq written' /\ carried \subseteq written' /\ written \subseteq written'
           /\ p.id # NoId => p.id \in written'
BY DEF WriteInv, Sends

LEMMA SilentWritten ==
    ASSUME WriteInv, Silent
    PROVE  /\ \A q \in Packets' : q.id \in written' \cup {NoId} /\ Honest(q)
           /\ \A a \in Replies : a.id \in written' \cup {NoId}
           /\ inflight \subseteq written' /\ carried \subseteq written' /\ written' = written
BY DEF WriteInv, Silent

LEMMA MarkedIn ==
    ASSUME DataInv, NEW x, NEW pending \in PendingStates, NEW new \in Marked(Items, x, pending)
    PROVE  /\ new \in Item
           /\ \/ new \in Items /\ new.id # x
              \/ \E i \in Items : /\ i.id = x /\ new.id = x /\ new.pending = pending
                                  /\ new.type = i.type /\ new.qos = i.qos /\ new.dup = i.dup
<1>1. CASE new \in Items /\ new.id # x
  BY <1>1, ItemsSound
<1>2. ASSUME NEW i \in Items, i.id = x, new = [i EXCEPT !.pending = pending]
      PROVE  /\ new \in Item /\ new.id = x /\ new.pending = pending
             /\ new.type = i.type /\ new.qos = i.qos /\ new.dup = i.dup
  BY <1>2, ItemsSound, MarkedItem
<1>3. QED  BY <1>1, <1>2 DEF Marked

\* Every step keeps the marks of the items.
LEMMA WriteItems ==
    ASSUME DataInv, IdInv, WriteInv, Steps
    PROVE  \A i \in Items' : i.id # NoId => ItemWritten(i, written')
<1> SUFFICES ASSUME NEW n \in Items', n.id # NoId PROVE ItemWritten(n, written')
  OBVIOUS
<1>1. /\ \A i \in Items : i.id # NoId => ItemWritten(i, written)
      /\ "TRANSMITTED" \in PendingStates /\ "ACKNOWLEDGED" \in PendingStates
  BY DEF WriteInv, PendingStates
<1>2. \A i \in Items : i \in Item /\ SoundItem(i)
  BY ItemsSound
<1>3. \A i, j \in Items : i.id = j.id /\ i.id # NoId => i = j
  BY SameItem DEF IdInv, Items
<1>4. ASSUME n \in Items, written' = written PROVE ItemWritten(n, written')
  BY <1>1, <1>4
<1>5. ASSUME NEW p, Sends(p), n \in Items, n.id # p.id PROVE ItemWritten(n, written')
  <2>1. n.id \in written' <=> n.id \in written
    BY <1>5 DEF Sends
  <2>2. QED  BY <1>1, <1>5, <2>1 DEF ItemWritten
<1>6. CASE UNCHANGED data
  BY <1>4, <1>6 DEF data, Items
<1>7. CASE CutStep \/ LostStep
  BY <1>4, <1>7 DEF CutStep, LostStep, Keeps, Silent
<1>8. CASE PlainStep
  <2>1. PICK p \in Plain : Sends(p)
    BY <1>8 DEF PlainStep
  <2>2. n \in Items /\ n.id # p.id
    BY <1>8 DEF PlainStep, Keeps, Plain
  <2>3. QED  BY <1>5, <2>1, <2>2
<1>9. CASE Qos0Step
  BY <1>4, <1>9 DEF Qos0Step, Keeps, NewItem, Silent
<1>10. CASE ConnectedStep
  <2> DEFINE New(i) == [Requeued(i) EXCEPT !.old = TRUE]
  <2>1. PICK i \in Items : n = New(i)
    BY <1>10 DEF ConnectedStep, Keeps
  <2>2. /\ New(i).id = i.id /\ New(i).type = i.type
        /\ \/ New(i).pending = i.pending /\ New(i).dup = i.dup
           \/ /\ i.pending = "TRANSMITTED" /\ New(i).pending = "QUEUED"
              /\ New(i).dup = (i.dup \/ i.type = "PUBLISH")
    BY <1>2, RequeuedType
  <2> HIDE DEF New
  <2>3. ItemWritten(i, written) /\ written' = written /\ i \in Item
    BY <1>1, <1>2, <1>10, <2>1, <2>2 DEF ConnectedStep
  <2>4. CASE New(i).pending = i.pending /\ New(i).dup = i.dup
    BY <2>1, <2>2, <2>3, <2>4 DEF ItemWritten
  <2>5. CASE /\ i.pending = "TRANSMITTED" /\ New(i).pending = "QUEUED"
             /\ New(i).dup = (i.dup \/ i.type = "PUBLISH")
    BY <2>1, <2>2, <2>3, <2>5 DEF ItemWritten
  <2>6. QED  BY <2>2, <2>4, <2>5
<1>11. CASE PurgeStep
  BY <1>11 DEF PurgeStep
<1>12. ASSUME NEW x \in FreshIds, UnsentStep(x) PROVE ItemWritten(n, written')
  <2>1. written' = written /\ x \notin written
    BY <1>12 DEF UnsentStep, Silent, FreshIds
  <2>2. CASE n = NewItem(x, "PUBLISH", QosOf[x])
    <3>1. n.pending = "QUEUED" /\ n.dup = FALSE /\ n.id = x
      BY <2>2 DEF NewItem
    <3>2. QED  BY <2>1, <3>1 DEF ItemWritten
  <2>3. QED  BY <1>4, <1>12, <2>1, <2>2 DEF UnsentStep, Keeps
<1>13. ASSUME NEW x \in FreshIds, SentStep(x) PROVE ItemWritten(n, written')
  <2> DEFINE item == NewItem(x, "PUBLISH", QosOf[x])
  <2>1. Sends(PacketOf(item, FALSE)) /\ PacketOf(item, FALSE).id = x
    BY <1>13 DEF SentStep, PacketOf, NewItem
  <2>2. CASE n = [item EXCEPT !.pending = "TRANSMITTED"]
    <3>1. n.pending = "TRANSMITTED" /\ n.id = x
      BY <2>2 DEF NewItem
    <3>2. x \in written'
      BY <2>1, <3>1 DEF Sends
    <3>3. QED  BY <3>1, <3>2 DEF ItemWritten
  <2>3. CASE n \in Items
    BY <1>5, <2>1, <2>3, FreshItem
  <2>4. QED  BY <1>13, <2>2, <2>3 DEF SentStep, Keeps
<1>14. ASSUME NEW x \in FreshIds, NEW type \in Requests, RequestStep(x, type)
       PROVE  ItemWritten(n, written')
  <2> DEFINE item == [NewItem(x, type, 0) EXCEPT !.pending = "TRANSMITTED"]
  <2>1. /\ item.type # "PUBLISH" /\ item.pending # "ACKNOWLEDGED"
        /\ PacketOf(item, FALSE).id = x
    BY DEF NewItem, Requests, PacketOf
  <2>2. n = item \/ n \in Items
    BY <1>14 DEF RequestStep, Keeps
  <2>3. Sends(PacketOf(item, FALSE)) \/ Silent
    BY <1>14 DEF RequestStep
  <2> HIDE DEF item
  <2>4. CASE n = item
    BY <2>1, <2>4 DEF ItemWritten
  <2>5. CASE n \in Items
    BY <1>4, <1>5, <2>1, <2>3, <2>5, FreshItem DEF Silent
  <2>6. QED  BY <2>2, <2>4, <2>5
<1>15. ASSUME NEW i \in Items, ResentStep(i) PROVE ItemWritten(n, written')
  <2> DEFINE p == PacketOf(i, i.dup)
  <2>1. Sends(p) /\ p.id = i.id
    BY <1>15 DEF ResentStep, PacketOf
  <2> HIDE DEF p
  <2>2. CASE i.id = NoId
    BY <1>5, <1>15, <2>1, <2>2 DEF ResentStep, Keeps
  <2>3. CASE i.id # NoId
    <3>1. n \in Marked(Items, i.id, "TRANSMITTED")
      BY <1>15, <2>3 DEF ResentStep, Keeps
    <3>2. (n \in Items /\ n.id # i.id) \/ (n.id = i.id /\ n.pending = "TRANSMITTED")
      BY <1>1, <3>1, MarkedIn
    <3>3. i.id \in written'
      BY <2>1, <2>3 DEF Sends
    <3>4. CASE n \in Items /\ n.id # i.id
      BY <1>5, <2>1, <3>4
    <3>5. CASE n.id = i.id /\ n.pending = "TRANSMITTED"
      BY <3>3, <3>5 DEF ItemWritten
    <3>6. QED  BY <3>2, <3>4, <3>5
  <2>4. QED  BY <2>2, <2>3
<1>16. ASSUME NEW i \in Items, RetransmitStep(i) PROVE ItemWritten(n, written')
  <2>1. i \in Item /\ i.pending = "TRANSMITTED" /\ i.id # NoId /\ ItemWritten(i, written)
    BY <1>1, <1>2, <1>16 DEF RetransmitStep
  <2>2. Retried(i).id = i.id /\ Retried(i).type = i.type /\ Retried(i).pending = i.pending
    BY <2>1, RetriedItem
  <2>3. (n \in Items /\ n.id # i.id) \/ n = Retried(i)
    BY <1>3, <1>16 DEF RetransmitStep, Keeps
  <2>4. (Sends(PacketOf(Retried(i), Retried(i).dup)) /\ PacketOf(Retried(i), Retried(i).dup).id = i.id)
        \/ written' = written
    BY <1>16, <2>2 DEF RetransmitStep, PacketOf, Silent
  <2>5. CASE n \in Items /\ n.id # i.id
    BY <1>4, <1>5, <2>4, <2>5
  <2>6. CASE n = Retried(i)
    <3>1. written \subseteq written'
      BY <2>4 DEF Sends
    <3>2. QED  BY <2>1, <2>2, <2>6, <3>1 DEF ItemWritten
  <2>7. QED  BY <2>3, <2>5, <2>6
<1>17. ASSUME NEW i \in Items, PubrelStep(i) PROVE ItemWritten(n, written')
  <2>1. i.id \in written /\ Sends(Control("PUBREL", i.id))
    BY <1>1, <1>17 DEF PubrelStep, ItemWritten
  <2>2. written' = written /\ n \in Items
    BY <1>17, <2>1, ControlFields DEF PubrelStep, Sends, Keeps
  <2>3. QED  BY <1>4, <2>2
<1>18. ASSUME NEW i \in Items, ExpiredStep(i) PROVE ItemWritten(n, written')
  BY <1>4, <1>18 DEF ExpiredStep, Keeps, Silent
<1>19. ASSUME NEW a \in Replies, TakenStep(a) \/ FinishedStep(a) PROVE ItemWritten(n, written')
  BY <1>4, <1>19 DEF TakenStep, FinishedStep, Keeps, Silent
<1>20. ASSUME NEW a \in Replies, AckedStep(a) PROVE ItemWritten(n, written')
  <2>1. a.id \in written
    BY <1>20, IdsAssumption DEF AckedStep, WriteInv
  <2>2. written' = written
    <3>1. CASE Sends(Control("PUBREL", a.id))
      BY <2>1, <3>1, ControlFields DEF Sends
    <3>2. CASE Silent
      BY <3>2 DEF Silent
    <3>3. QED  BY <1>20, <3>1, <3>2 DEF AckedStep
  <2>3. n \in Marked(Items, a.id, "ACKNOWLEDGED")
    BY <1>20 DEF AckedStep, Keeps
  <2>4. (n \in Items /\ n.id # a.id) \/ (n.id = a.id /\ n.pending = "ACKNOWLEDGED")
    BY <1>1, <2>3, MarkedIn
  <2>5. QED  BY <1>4, <2>1, <2>2, <2>4 DEF ItemWritten
<1>21. ASSUME NEW p, BrokerStep(p) PROVE ItemWritten(n, written')
  BY <1>4, <1>21 DEF BrokerStep, Keeps
<1>22. QED
  BY <1>6, <1>7, <1>8, <1>9, <1>10, <1>11, <1>12, <1>13, <1>14, <1>15, <1>16, <1>17, <1>18, <1>19,
     <1>20, <1>21 DEF Steps

\* The broker's answer is to the packet it took.
LEMMA BrokerReply ==
    ASSUME NEW p, BrokerStep(p), NEW a \in Replies'
    PROVE  a \in Replies \/ (link = "open" /\ a.id = p.id /\ a.type \in Answers(p))
<1>1. \/ Replies' = Replies
      \/ /\ link = "open"
         /\ \E type \in Answers(p) : Replies' = Replies \cup {[type |-> type, id |-> p.id]}
  BY Zenon DEF BrokerStep
<1>2. QED  BY <1>1

\* Every step keeps what is under way among what was written, and marks truthfully.
LEMMA WriteStep ==
    ASSUME DataInv, IdInv, WriteInv, Steps
    PROVE  WriteInv'
<1>1. \A i \in Items' : i.id # NoId => ItemWritten(i, written')
  BY WriteItems
<1> DEFINE Rest == /\ \A p \in Packets' : p.id \in written' \cup {NoId} /\ Honest(p)
                   /\ \A a \in Replies' : a.id \in written' \cup {NoId}
                   /\ inflight' \subseteq written' /\ carried' \subseteq written'
<1> SUFFICES Rest
  BY <1>1 DEF WriteInv, Honest
<1>2. \A i \in Items : i \in Item /\ SoundItem(i) /\ (i.id # NoId => ItemWritten(i, written))
  BY ItemsSound DEF WriteInv
<1>3. ASSUME Silent, Replies' \subseteq Replies, inflight' \subseteq inflight, carried' = carried
      PROVE  Rest
  BY <1>3, SilentWritten
<1>4. ASSUME NEW p, Sends(p), Honest(p), Replies' \subseteq Replies, carried' = carried,
             inflight' \subseteq inflight \cup ({p.id} \ {NoId})
      PROVE  Rest
  BY <1>4, SendsWritten
<1> HIDE DEF Rest
<1>5. CASE UNCHANGED data
  BY <1>3, <1>5 DEF data, Silent, Packets, Replies
<1>6. CASE CutStep \/ LostStep
  BY <1>3, <1>6 DEF CutStep, LostStep, Ends, Quiet
<1>7. CASE PlainStep
  <2>1. PICK p \in Plain : Sends(p)
    BY <1>7 DEF PlainStep
  <2>2. Honest(p)
    BY DEF Plain, Honest
  <2>3. Replies' \subseteq Replies /\ carried' = carried /\ inflight' = inflight
    BY <1>7 DEF PlainStep, Ends, Stays, Quiet
  <2>4. QED  BY <1>4, <2>1, <2>2, <2>3
<1>8. CASE Qos0Step
  BY <1>3, <1>8 DEF Qos0Step, Stays, Quiet
<1>9. CASE ConnectedStep
  <2>1. Packets' = {} /\ Replies' = {} /\ inflight' = {} /\ written' = written
    BY <1>9 DEF ConnectedStep
  <2>2. carried' \subseteq written
    BY <1>2, <1>9 DEF ConnectedStep, ItemWritten, SoundItem
  <2>3. QED  BY <2>1, <2>2 DEF Rest
<1>10. CASE PurgeStep
  BY <1>3, <1>10 DEF PurgeStep, Ends
<1>11. ASSUME NEW x \in FreshIds, UnsentStep(x) PROVE Rest
  BY <1>3, <1>11 DEF UnsentStep, Ends, Stays
<1>12. ASSUME NEW x \in FreshIds, SentStep(x) PROVE Rest
  <2> DEFINE item == NewItem(x, "PUBLISH", QosOf[x])
  <2>1. x \in Ids /\ x \notin written /\ x # NoId
    BY IdsAssumption DEF FreshIds
  <2>2. item \in Item /\ SoundItem(item) /\ item.id = x
    BY <2>1, StoredItem DEF NewItem
  <2>3. /\ Sends(PacketOf(item, FALSE)) /\ Counted(item)
        /\ Replies' = Replies /\ carried' = carried
    BY <1>12 DEF SentStep, Stays
  <2> HIDE DEF item
  <2>4. Honest(PacketOf(item, FALSE)) /\ PacketOf(item, FALSE).id = x
    BY <2>1, <2>2, HonestPacket
  <2>5. inflight' \subseteq inflight \cup {x}
    BY <2>2, <2>3 DEF Counted
  <2>6. QED  BY <1>4, <2>1, <2>3, <2>4, <2>5
<1>13. ASSUME NEW x \in FreshIds, NEW type \in Requests, RequestStep(x, type) PROVE Rest
  <2> DEFINE item == [NewItem(x, type, 0) EXCEPT !.pending = "TRANSMITTED"]
  <2>1. PacketOf(item, FALSE).type # "PUBLISH"
    BY DEF PacketOf, NewItem, Requests
  <2>2. Honest(PacketOf(item, FALSE))
    BY <2>1 DEF Honest
  <2>3. Sends(PacketOf(item, FALSE)) \/ Silent
    BY <1>13 DEF RequestStep
  <2>4. Replies' = Replies /\ inflight' = inflight /\ carried' = carried
    BY <1>13 DEF RequestStep, Stays, Quiet
  <2> HIDE DEF item
  <2>5. QED  BY <1>3, <1>4, <2>2, <2>3, <2>4
<1>14. ASSUME NEW i \in Items, ResentStep(i) PROVE Rest
  <2>1. /\ Sends(PacketOf(i, i.dup)) /\ Counted(i) /\ i.pending = "QUEUED"
        /\ Replies' = Replies /\ carried' = carried
    BY <1>14 DEF ResentStep, Stays
  <2>2. i \in Item /\ SoundItem(i) /\ i.dup \in BOOLEAN
    BY <1>2 DEF Item
  <2>3. i.type = "PUBLISH" /\ i.id # NoId => (i.dup <=> i.id \in written)
    BY <1>2, <2>1 DEF ItemWritten
  <2>4. Honest(PacketOf(i, i.dup)) /\ PacketOf(i, i.dup).id = i.id
    BY <2>2, <2>3, HonestPacket
  <2>5. inflight' \subseteq inflight \cup ({i.id} \ {NoId})
    BY <2>1, <2>2 DEF Counted, SoundItem
  <2>6. QED  BY <1>4, <2>1, <2>4, <2>5
<1>15. ASSUME NEW i \in Items, RetransmitStep(i) PROVE Rest
  <2> DEFINE r == Retried(i)
  <2>1. /\ i \in Item /\ i.id # NoId /\ i.pending = "TRANSMITTED"
        /\ inflight' = inflight /\ carried' = carried
    BY <1>2, <1>15 DEF RetransmitStep, Quiet
  <2>2. /\ r \in Item /\ r.dup = (i.dup \/ i.type = "PUBLISH") /\ r.pending = "TRANSMITTED"
        /\ r.id = i.id /\ r.type = i.type /\ r.qos = i.qos
    BY <2>1, RetriedItem
  <2>3. (Sends(PacketOf(r, r.dup)) /\ Replies' = Replies) \/ (Silent /\ Replies' = {})
    BY <1>15 DEF RetransmitStep, Stays, Ends
  <2> HIDE DEF r
  <2>4. SoundItem(r) /\ r.dup \in BOOLEAN
    BY <1>2, <2>1, <2>2 DEF SoundItem, Item
  <2>5. r.type = "PUBLISH" /\ r.id # NoId => (r.dup <=> r.id \in written)
    BY <1>2, <2>1, <2>2 DEF ItemWritten
  <2>6. Honest(PacketOf(r, r.dup))
    BY <2>2, <2>4, <2>5, HonestPacket
  <2>7. QED  BY <1>3, <1>4, <2>1, <2>3, <2>6
<1>16. ASSUME NEW i, PubrelStep(i) PROVE Rest
  <2>1. Honest(Control("PUBREL", i.id))
    BY ControlFields DEF Honest
  <2>2. QED  BY <1>4, <1>16, <2>1 DEF PubrelStep, Stays, Quiet
<1>17. ASSUME NEW i, ExpiredStep(i) PROVE Rest
  BY <1>3, <1>17 DEF ExpiredStep, Stays
<1>18. ASSUME NEW a, TakenStep(a) \/ FinishedStep(a) PROVE Rest
  BY <1>3, <1>18 DEF TakenStep, FinishedStep, Takes
<1>19. ASSUME NEW a, AckedStep(a) PROVE Rest
  <2>1. Honest(Control("PUBREL", a.id))
    BY ControlFields DEF Honest
  <2>2. Replies' \subseteq Replies /\ inflight' = inflight /\ carried' = carried
    BY <1>19 DEF AckedStep, Takes
  <2>3. Sends(Control("PUBREL", a.id)) \/ Silent
    BY <1>19 DEF AckedStep
  <2>4. QED  BY <1>3, <1>4, <2>1, <2>2, <2>3
<1>20. ASSUME NEW p \in Packets, BrokerStep(p) PROVE Rest
  <2>1. Packets' \subseteq Packets /\ UNCHANGED <<written, inflight, carried>>
    BY <1>20 DEF BrokerStep
  <2>2. \A a \in Replies' : a \in Replies \/ a.id = p.id
    BY <1>20, BrokerReply
  <2>3. QED  BY <2>1, <2>2 DEF Rest, WriteInv
<1>21. QED
  BY <1>5, <1>6, <1>7, <1>8, <1>9, <1>10, <1>11, <1>12, <1>13, <1>14, <1>15, <1>16, <1>17, <1>18,
     <1>19, <1>20 DEF Steps

\* What the theorems below need of identifiers and writes
THEOREM WritesSound == Spec => [](DataInv /\ IdInv /\ WriteInv)
<1>1. Init => DataInv /\ IdInv /\ WriteInv
  <2> SUFFICES ASSUME Init PROVE DataInv /\ IdInv /\ WriteInv
    OBVIOUS
  <2>1. DataInv
    BY InitialTypes
  <2>2. Items = {} /\ Packets = {} /\ Replies = {} /\ Distinct(outbox)
    BY DEF Init, Items, Packets, Replies, Range, Distinct
  <2>3. IdInv
    BY <2>2 DEF Init, IdInv, Stored
  <2>4. WriteInv
    BY <2>2 DEF Init, WriteInv
  <2>5. QED  BY <2>1, <2>3, <2>4
<1>2. DataInv /\ IdInv /\ WriteInv /\ [Next]_vars => (DataInv /\ IdInv /\ WriteInv)'
  BY StepsComplete, IdStep, WriteStep
<1>3. QED  BY <1>1, <1>2, PTL DEF Spec

\* Whatever is resent, on this connection or a later one, by whichever of the
\* three paths that write a publish: DUP is set exactly when the packet was
\* written before (mqtt_client.c:880-900, 1888-1893).
THEOREM DupAlwaysMarksRetry == Spec => []DupMarksRetry
<1>1. WriteInv => DupMarksRetry
  BY DEF WriteInv, Honest, DupMarksRetry, Packets, Range
<1>2. QED  BY <1>1, WritesSound, PTL

-----------------------------------------------------------------------------
(***************************************************************************)
(* Delivery: what the broker has.                                          *)
(***************************************************************************)

\* A packet is of a message that was accepted, and a PUBREL of one the broker
\* has; so is each answer, and each message whose PUBREC came.
PacketKnown(p, fate, count) ==
    /\ p.type = "PUBLISH" /\ p.qos > 0 => fate[p.id] # "none"
    /\ p.type = "PUBREL" => count[p.id] > 0

Known ==
    /\ \A id \in Ids : promise[id] = "none" => delivered[id] = 0
    /\ \A id \in held : delivered[id] > 0
    /\ \A p \in Packets : PacketKnown(p, promise, delivered)
    /\ \A a \in Replies : a.type \in {"PUBACK", "PUBREC", "PUBCOMP"} => delivered[a.id] > 0
    /\ \A i \in Items : i.pending = "ACKNOWLEDGED" => delivered[i.id] > 0

\* A promise is never taken back, and only the broker delivers.
LEMMA PromiseMoves ==
    ASSUME DataInv, Steps
    PROVE  \A id \in Ids : promise[id] # "none" => promise'[id] # "none"
<1>1. promise \in [Ids -> Fates]
  BY DEF DataInv
<1> SUFFICES ASSUME NEW id \in Ids, promise[id] # "none" PROVE promise'[id] # "none"
  OBVIOUS
<1>2. CASE promise' = promise
  BY <1>2
<1>3. ASSUME NEW x, UnsentStep(x) \/ SentStep(x) PROVE promise'[id] # "none"
  <2>1. promise' = [promise EXCEPT ![x] = "accepted"]
    BY <1>3 DEF UnsentStep, SentStep
  <2>2. QED  BY <1>1, <2>1
<1>4. ASSUME NEW a, FinishedStep(a) PROVE promise'[id] # "none"
  BY <1>4 DEF FinishedStep, Reported
<1>5. ASSUME NEW i, ExpiredStep(i) PROVE promise'[id] # "none"
  BY <1>5 DEF ExpiredStep, Reported
<1>6. CASE PurgeStep
  BY <1>6 DEF PurgeStep
<1>7. CASE CutStep \/ PlainStep \/ Qos0Step \/ LostStep \/ ConnectedStep
  BY <1>2, <1>7 DEF CutStep, PlainStep, Qos0Step, LostStep, ConnectedStep, Quiet
<1>8. ASSUME NEW i, NEW x, NEW type,
             ResentStep(i) \/ RetransmitStep(i) \/ PubrelStep(i) \/ RequestStep(x, type)
      PROVE  promise'[id] # "none"
  BY <1>2, <1>8 DEF ResentStep, RetransmitStep, PubrelStep, RequestStep, Quiet
<1>9. ASSUME NEW a, NEW p, TakenStep(a) \/ AckedStep(a) \/ BrokerStep(p)
      PROVE  promise'[id] # "none"
  BY <1>2, <1>9 DEF TakenStep, AckedStep, BrokerStep
<1>10. QED
  BY <1>2, <1>3, <1>4, <1>5, <1>6, <1>7, <1>8, <1>9 DEF Steps, data

\* What the broker does to the counters of delivery
LEMMA BrokerDelivers ==
    ASSUME DataInv, NEW p, BrokerStep(p)
    PROVE  /\ delivered' \in [Ids -> 0 .. 2] /\ \A id \in Ids : delivered'[id] >= delivered[id]
           /\ \A id \in Ids : delivered'[id] # delivered[id] =>
                 /\ p.type = "PUBLISH" /\ p.qos > 0 /\ id = p.id
                 /\ delivered'[id] = delivered[id] + 1 /\ ~(p.qos = 2 /\ id \in held)
           /\ p.type = "PUBLISH" /\ p.qos > 0 =>
                 p.id \in Ids /\ (delivered'[p.id] > 0 \/ (p.qos = 2 /\ p.id \in held))
           /\ p.type = "PUBREL" => p.id \in Ids
<1>1. /\ delivered \in [Ids -> 0 .. 2] /\ p \in Packet
      /\ p.type = "PUBLISH" /\ p.qos > 0 => p.id \in Ids
      /\ p.type = "PUBREL" => p.id \in Ids
  BY DEF DataInv, BrokerStep, SoundPacket
<1>2. delivered' = IF p.type # "PUBLISH" \/ p.qos = 0 \/ (p.qos = 2 /\ p.id \in held)
                   THEN delivered
                   ELSE [delivered EXCEPT ![p.id] = IF @ < 2 THEN @ + 1 ELSE @]
  BY DEF BrokerStep
<1>3. CASE p.type # "PUBLISH" \/ p.qos = 0 \/ (p.qos = 2 /\ p.id \in held)
  <2>1. delivered' = delivered
    BY <1>2, <1>3
  <2>2. \A id \in Ids : delivered[id] >= delivered[id]
    BY <1>1
  <2>3. QED  BY <1>1, <1>3, <2>1, <2>2
<1>4. CASE ~(p.type # "PUBLISH" \/ p.qos = 0 \/ (p.qos = 2 /\ p.id \in held))
  <2>1. p.qos > 0 /\ p.id \in Ids
    BY <1>1, <1>4 DEF Packet
  <2>2. delivered' = [delivered EXCEPT ![p.id] = IF delivered[p.id] < 2 THEN delivered[p.id] + 1
                                                 ELSE delivered[p.id]]
    BY <1>2, <1>4
  <2>3. /\ delivered[p.id] \in 0 .. 2
        /\ delivered'[p.id] = IF delivered[p.id] < 2 THEN delivered[p.id] + 1 ELSE delivered[p.id]
        /\ \A id \in Ids : id # p.id => delivered'[id] = delivered[id]
        /\ delivered' \in [Ids -> 0 .. 2]
    BY <1>1, <2>1, <2>2
  <2>4. QED  BY <1>1, <1>4, <2>1, <2>3
<1>5. QED  BY <1>3, <1>4

LEMMA KnownStep ==
    ASSUME DataInv, IdInv, IdInv', WriteInv, Known, Steps
    PROVE  Known'
<1>1. \A id \in Ids : promise[id] # "none" => promise'[id] # "none"
  BY PromiseMoves
<1>2. /\ \A i \in Items : i \in Item /\ SoundItem(i)
      /\ "TRANSMITTED" \in PendingStates /\ "ACKNOWLEDGED" \in PendingStates
      /\ \A p \in Packets : SoundPacket(p)
  BY ItemsSound DEF PendingStates, DataInv, SoundUp, Packets, Range
<1>3. ASSUME delivered' = delivered, held' \subseteq held, Replies' \subseteq Replies,
             \A p \in Packets' : p \in Packets \/ PacketKnown(p, promise', delivered'),
             \A i \in Items' : i.pending = "ACKNOWLEDGED" => delivered[i.id] > 0
      PROVE  Known'
  <2>1. \A p \in Packets : PacketKnown(p, promise', delivered')
    BY <1>1, <1>2, <1>3 DEF Known, PacketKnown, SoundPacket
  <2>2. QED  BY <1>1, <1>3, <2>1 DEF Known
<1>4. ASSUME Keeps(Items), Silent, delivered' = delivered, held' \subseteq held,
             Replies' \subseteq Replies
      PROVE  Known'
  BY <1>3, <1>4 DEF Keeps, Silent, Known
<1>5. CASE UNCHANGED data
  BY <1>4, <1>5 DEF data, Keeps, Silent, Items, Packets, Replies
<1>6. CASE CutStep \/ LostStep
  BY <1>4, <1>6 DEF CutStep, LostStep, Ends, Quiet
<1>7. CASE PlainStep
  <2>1. PICK p \in Plain : Sends(p)
    BY <1>7 DEF PlainStep
  <2>2. PacketKnown(p, promise', delivered')
    BY DEF PacketKnown, Plain
  <2>3. QED  BY <1>3, <1>7, <2>1, <2>2 DEF PlainStep, Sends, Keeps, Ends, Stays, Quiet, Known
<1>8. CASE Qos0Step
  BY <1>3, <1>8 DEF Qos0Step, Keeps, Silent, Stays, Quiet, Known, NewItem
<1>9. CASE ConnectedStep
  <2> DEFINE New(i) == [Requeued(i) EXCEPT !.old = TRUE]
  <2>1. \A i \in Items : /\ New(i).id = i.id
                         /\ New(i).pending = "ACKNOWLEDGED" => i.pending = "ACKNOWLEDGED"
    BY <1>2, RequeuedType
  <2>2. Items' \subseteq {New(i) : i \in Items}
    BY <1>9 DEF ConnectedStep, Keeps
  <2> HIDE DEF New
  <2>3. \A i \in Items' : i.pending = "ACKNOWLEDGED" => delivered[i.id] > 0
    BY <2>1, <2>2 DEF Known
  <2>4. QED  BY <1>3, <1>9, <2>3 DEF ConnectedStep
<1>10. CASE PurgeStep
  BY <1>3, <1>10 DEF PurgeStep, Silent, Ends
<1>11. ASSUME NEW x \in FreshIds, UnsentStep(x) PROVE Known'
  <2>1. \A i \in Items' : i.pending = "ACKNOWLEDGED" => delivered[i.id] > 0
    BY <1>11 DEF UnsentStep, Keeps, NewItem, Known
  <2>2. QED  BY <1>3, <1>11, <2>1 DEF UnsentStep, Silent, Ends, Stays
<1>12. ASSUME NEW x \in FreshIds, SentStep(x) PROVE Known'
  <2> DEFINE item == NewItem(x, "PUBLISH", QosOf[x])
             p == PacketOf(item, FALSE)
  <2>1. Sends(p) /\ Keeps(Items \cup {[item EXCEPT !.pending = "TRANSMITTED"]})
    BY <1>12 DEF SentStep
  <2>2. p.type = "PUBLISH" /\ p.id = x
    BY DEF PacketOf, NewItem
  <2>3. x \in Ids /\ promise'[x] = "accepted"
    BY <1>12 DEF SentStep, FreshIds, DataInv
  <2>4. PacketKnown(p, promise', delivered')
    BY <2>2, <2>3 DEF PacketKnown
  <2>5. \A i \in Items' : i.pending = "ACKNOWLEDGED" => delivered[i.id] > 0
    BY <2>1 DEF Keeps, NewItem, Known
  <2> HIDE DEF p
  <2>6. QED  BY <1>3, <1>12, <2>1, <2>4, <2>5 DEF SentStep, Sends, Stays
<1>13. ASSUME NEW x \in FreshIds, NEW type \in Requests, RequestStep(x, type) PROVE Known'
  <2> DEFINE item == [NewItem(x, type, 0) EXCEPT !.pending = "TRANSMITTED"]
             p == PacketOf(item, FALSE)
  <2>1. (Sends(p) \/ Silent) /\ Keeps(Items \cup {item}) /\ Stays /\ Quiet
    BY <1>13 DEF RequestStep
  <2>2. item.pending = "TRANSMITTED" /\ p.type \in Requests
    BY DEF PacketOf, NewItem
  <2> HIDE DEF p, item
  <2>3. PacketKnown(p, promise', delivered')
    BY <2>2 DEF PacketKnown, Requests
  <2>4. QED  BY <1>3, <2>1, <2>2, <2>3 DEF Sends, Silent, Keeps, Stays, Quiet, Known
<1>14. ASSUME NEW i \in Items, ResentStep(i) PROVE Known'
  <2> DEFINE p == PacketOf(i, i.dup)
  <2>1. /\ Sends(p) /\ Replies' = Replies
        /\ Keeps(IF i.id = NoId THEN Items ELSE Marked(Items, i.id, "TRANSMITTED"))
        /\ UNCHANGED <<held, promise, delivered, carried>>
    BY <1>14 DEF ResentStep, Stays
  <2>2. p.type = i.type /\ p.id = i.id /\ p.qos = i.qos
    BY DEF PacketOf
  <2> HIDE DEF p
  <2>3. PacketKnown(p, promise', delivered')
    <3>1. i.type = "PUBLISH" /\ i.qos > 0 => i.id \in Ids /\ promise[i.id] = "accepted"
      BY <1>2 DEF IdInv, Stored, SoundItem, Item
    <3>2. i.type # "PUBREL"
      BY <1>2 DEF Item, Requests
    <3>3. QED  BY <2>1, <2>2, <3>1, <3>2 DEF PacketKnown
  <2>4. \A n \in Items' : n.pending = "ACKNOWLEDGED" => n \in Items
    BY <1>2, <2>1, MarkedIn DEF Keeps
  <2>5. QED  BY <1>3, <2>1, <2>3, <2>4 DEF Sends, Known
<1>15. ASSUME NEW i \in Items, RetransmitStep(i) PROVE Known'
  <2> DEFINE r == Retried(i)
             p == PacketOf(r, r.dup)
  <2>1. /\ (Sends(p) /\ Stays) \/ (Silent /\ Ends)
        /\ Keeps((Items \ {i}) \cup {r}) /\ Quiet /\ i.pending = "TRANSMITTED"
    BY <1>15 DEF RetransmitStep
  <2>2. p.type = r.type /\ p.id = r.id /\ p.qos = r.qos
    BY DEF PacketOf
  <2>3. r.type = i.type /\ r.id = i.id /\ r.qos = i.qos /\ r.pending = i.pending
    BY <1>2, RetriedItem
  <2> HIDE DEF p, r
  <2>4. PacketKnown(p, promise', delivered')
    <3>1. i.type = "PUBLISH" /\ i.qos > 0 => i.id \in Ids /\ promise[i.id] = "accepted"
      BY <1>2 DEF IdInv, Stored, SoundItem, Item
    <3>2. i.type # "PUBREL"
      BY <1>2 DEF Item, Requests
    <3>3. QED  BY <2>1, <2>2, <2>3, <3>1, <3>2 DEF PacketKnown, Quiet
  <2>5. \A n \in Items' : n.pending = "ACKNOWLEDGED" => n \in Items
    BY <2>1, <2>3 DEF Keeps
  <2>6. QED  BY <1>3, <2>1, <2>4, <2>5 DEF Sends, Silent, Stays, Ends, Quiet, Known
<1>16. ASSUME NEW i \in Items, PubrelStep(i) PROVE Known'
  <2>1. /\ Sends(Control("PUBREL", i.id)) /\ Keeps(Items) /\ Stays /\ Quiet
        /\ delivered[i.id] > 0
    BY <1>16 DEF PubrelStep, Known
  <2>2. PacketKnown(Control("PUBREL", i.id), promise', delivered')
    BY <2>1, ControlFields DEF PacketKnown, Quiet
  <2>3. QED  BY <1>3, <2>1, <2>2 DEF Sends, Keeps, Stays, Quiet, Known
<1>17. ASSUME NEW i \in Items, ExpiredStep(i) PROVE Known'
  BY <1>3, <1>17 DEF ExpiredStep, Keeps, Silent, Stays, Known
<1>18. ASSUME NEW a, TakenStep(a) \/ FinishedStep(a) PROVE Known'
  BY <1>3, <1>18 DEF TakenStep, FinishedStep, Takes, Keeps, Silent, Known
<1>19. ASSUME NEW a \in Replies, AckedStep(a) PROVE Known'
  <2>1. /\ Sends(Control("PUBREL", a.id)) \/ Silent
        /\ Items' \subseteq Marked(Items, a.id, "ACKNOWLEDGED")
        /\ UNCHANGED <<delivered, held, promise>> /\ Replies' \subseteq Replies
        /\ delivered[a.id] > 0
    BY <1>19 DEF AckedStep, Takes, Keeps, Known
  <2>2. PacketKnown(Control("PUBREL", a.id), promise', delivered')
    BY <2>1, ControlFields DEF PacketKnown
  <2>3. \A n \in Items' : n.pending = "ACKNOWLEDGED" => n \in Items \/ n.id = a.id
    BY <1>2, <2>1, MarkedIn
  <2>4. QED  BY <1>3, <2>1, <2>2, <2>3 DEF Sends, Silent, Known
<1>20. ASSUME NEW p \in Packets, BrokerStep(p) PROVE Known'
  <2>1. /\ delivered \in [Ids -> 0 .. 2] /\ delivered' \in [Ids -> 0 .. 2]
        /\ \A id \in Ids : delivered'[id] >= delivered[id]
        /\ \A id \in Ids : delivered'[id] # delivered[id] =>
              p.type = "PUBLISH" /\ p.qos > 0 /\ id = p.id
        /\ p.type = "PUBLISH" /\ p.qos > 0 =>
              p.id \in Ids /\ (delivered'[p.id] > 0 \/ (p.qos = 2 /\ p.id \in held))
        /\ p.type = "PUBREL" => p.id \in Ids
    BY <1>20, BrokerDelivers DEF DataInv
  <2>2. \A id \in Ids : delivered[id] > 0 => delivered'[id] > 0
    BY <2>1
  <2>3. UNCHANGED promise /\ Items' \subseteq Items /\ Packets' \subseteq Packets
    BY <1>20 DEF BrokerStep, Keeps
  <2>4. PacketKnown(p, promise, delivered) /\ held \subseteq Ids
    BY DEF Known, DataInv
  <2>5. p.type = "PUBLISH" /\ p.qos > 0 => delivered'[p.id] > 0
    BY <2>1, <2>2 DEF Known
  <2>6. p.type = "PUBREL" => delivered'[p.id] > 0
    BY <2>1, <2>2, <2>4 DEF PacketKnown
  <2>7. \A id \in Ids : promise'[id] = "none" => delivered'[id] = 0
    BY <2>1, <2>3, <2>4 DEF Known, PacketKnown
  <2>8. \A id \in held' : delivered'[id] > 0
    <3>1. \A id \in held' : id \in held \/ (id = p.id /\ p.type = "PUBLISH" /\ p.qos = 2)
      BY <1>20 DEF BrokerStep
    <3>2. QED  BY <2>2, <2>4, <2>5, <3>1 DEF Known
  <2>9. \A q \in Packets' : PacketKnown(q, promise', delivered')
    BY <1>2, <2>2, <2>3 DEF Known, PacketKnown, SoundPacket
  <2>10. \A i \in Items' : i.pending = "ACKNOWLEDGED" => delivered'[i.id] > 0
    <3>1. \A i \in Items : i.pending = "ACKNOWLEDGED" => i.id \in Ids
      BY <1>2 DEF SoundItem, Item
    <3>2. QED  BY <2>2, <2>3, <3>1 DEF Known
  <2>11. \A a \in Replies' : a.type \in {"PUBACK", "PUBREC", "PUBCOMP"} => delivered'[a.id] > 0
    <3>1. \A a \in Replies : a.type \in {"PUBACK", "PUBREC", "PUBCOMP"} => a.id \in Ids
      BY DEF DataInv, SoundDown, Replies, Range
    <3>2. \A a \in Replies' : a \in Replies \/ (a.id = p.id /\ a.type \in Answers(p))
      BY <1>20, BrokerReply
    <3>3. p \in Packet
      BY <1>20 DEF BrokerStep
    <3>4. \A type \in Answers(p) : /\ type \in {"PUBACK", "PUBREC"} => p.type = "PUBLISH" /\ p.qos > 0
                                   /\ type = "PUBCOMP" => p.type = "PUBREL"
      BY <3>3, AnswersProperty
    <3>5. QED  BY <2>2, <2>5, <2>6, <3>1, <3>2, <3>4 DEF Known
  <2>12. QED  BY <2>7, <2>8, <2>9, <2>10, <2>11 DEF Known
<1>21. QED
  BY <1>5, <1>6, <1>7, <1>8, <1>9, <1>10, <1>11, <1>12, <1>13, <1>14, <1>15, <1>16, <1>17, <1>18,
     <1>19, <1>20 DEF Steps

\* The publish of this message may still be written: the broker does not have it,
\* or its PUBREC has not come.
Open(id) ==
    \/ delivered[id] = 0
    \/ \E i \in Items : i.type = "PUBLISH" /\ i.id = id /\ i.pending # "ACKNOWLEDGED"

\* Once its PUBREL is written, a message is not written again.
Ordered ==
    /\ \A j, k \in DOMAIN up :
          j < k /\ up[j].type = "PUBREL" /\ up[k].type = "PUBLISH" => up[j].id # up[k].id
    /\ \A p \in Packets, i \in Items :
          p.type = "PUBREL" /\ i.type = "PUBLISH" /\ i.id = p.id => i.pending = "ACKNOWLEDGED"

\* A QoS 2 message the broker has and does not hold any more is not written again.
Once ==
    ~CleanSession => \A id \in Ids : QosOf[id] = 2 /\ delivered[id] > 0 /\ id \notin held =>
        /\ \A p \in Packets : p.type = "PUBLISH" => p.id # id
        /\ \A i \in Items : i.type = "PUBLISH" /\ i.id = id => i.pending = "ACKNOWLEDGED"

\* A publish that is in the outbox after a step and waits for its PUBREC was open
\* before.
LEMMA OpenItems ==
    ASSUME DataInv, IdInv, Known, Steps
    PROVE  \A n \in Items' : n.type = "PUBLISH" /\ n.id # NoId /\ n.pending # "ACKNOWLEDGED"
                                => Open(n.id)
<1> SUFFICES ASSUME NEW n \in Items', n.type = "PUBLISH", n.id # NoId,
                    n.pending # "ACKNOWLEDGED"
             PROVE  Open(n.id)
  OBVIOUS
<1>1. /\ \A i \in Items : i \in Item /\ SoundItem(i)
      /\ "TRANSMITTED" \in PendingStates /\ "ACKNOWLEDGED" \in PendingStates
  BY ItemsSound DEF PendingStates
<1>2. CASE n \in Items
  BY <1>2 DEF Open
<1>3. ASSUME NEW i \in Items, i.id = n.id, i.type = "PUBLISH", i.pending # "ACKNOWLEDGED"
      PROVE  Open(n.id)
  BY <1>3 DEF Open
<1>4. CASE CutStep \/ PlainStep \/ LostStep \/ Qos0Step \/ PurgeStep
  BY <1>2, <1>4 DEF CutStep, PlainStep, LostStep, Qos0Step, PurgeStep, Keeps, NewItem
<1>5. CASE ConnectedStep
  <2> DEFINE New(i) == [Requeued(i) EXCEPT !.old = TRUE]
  <2>1. PICK i \in Items : n = New(i)
    BY <1>5 DEF ConnectedStep, Keeps
  <2>2. /\ New(i).id = i.id /\ New(i).type = i.type
        /\ i.pending = "ACKNOWLEDGED" => New(i).pending = "ACKNOWLEDGED"
    BY <1>1, RequeuedType
  <2> HIDE DEF New
  <2>3. QED  BY <1>3, <2>1, <2>2
<1>6. ASSUME NEW x \in FreshIds, UnsentStep(x) \/ SentStep(x) PROVE Open(n.id)
  <2>1. x \in Ids /\ delivered[x] = 0
    BY DEF FreshIds, Known
  <2>2. n \in Items \/ n.id = x
    <3>1. CASE UnsentStep(x)
      BY <3>1 DEF UnsentStep, Keeps, NewItem
    <3>2. CASE SentStep(x)
      BY <3>2 DEF SentStep, Keeps, NewItem
    <3>3. QED  BY <1>6, <3>1, <3>2
  <2>3. QED  BY <1>2, <2>1, <2>2 DEF Open
<1>7. ASSUME NEW x, NEW type \in Requests, RequestStep(x, type) PROVE Open(n.id)
  BY <1>2, <1>7 DEF RequestStep, Keeps, NewItem, Requests
<1>8. ASSUME NEW i \in Items, ResentStep(i) PROVE Open(n.id)
  <2>1. n \in Items \/ (n \in Marked(Items, i.id, "TRANSMITTED") /\ i.id # NoId)
    BY <1>8 DEF ResentStep, Keeps
  <2>2. CASE n \in Marked(Items, i.id, "TRANSMITTED") /\ i.id # NoId
    <3>1. n \in Items \/ \E j \in Items : j.id = i.id /\ n.id = i.id /\ n.type = j.type
      BY <1>1, <2>2, MarkedIn
    <3>2. \A j \in Items : j.id = i.id => j = i
      BY <2>2, SameItem DEF IdInv, Items
    <3>3. i.pending = "QUEUED"
      BY <1>8 DEF ResentStep
    <3>4. QED  BY <1>2, <1>3, <3>1, <3>2, <3>3
  <2>3. QED  BY <1>2, <2>1, <2>2
<1>9. ASSUME NEW i \in Items, RetransmitStep(i) PROVE Open(n.id)
  <2>1. Retried(i).id = i.id /\ Retried(i).type = i.type /\ Retried(i).pending = i.pending
    BY <1>1, RetriedItem
  <2>2. n \in Items \/ n = Retried(i)
    BY <1>9 DEF RetransmitStep, Keeps
  <2>3. QED  BY <1>2, <1>3, <2>1, <2>2
<1>10. ASSUME NEW i, PubrelStep(i) \/ ExpiredStep(i) PROVE Open(n.id)
  BY <1>2, <1>10 DEF PubrelStep, ExpiredStep, Keeps
<1>11. ASSUME NEW a, TakenStep(a) \/ FinishedStep(a) PROVE Open(n.id)
  BY <1>2, <1>11 DEF TakenStep, FinishedStep, Keeps
<1>12. ASSUME NEW a, AckedStep(a) PROVE Open(n.id)
  <2>1. n \in Marked(Items, a.id, "ACKNOWLEDGED")
    BY <1>12 DEF AckedStep, Keeps
  <2>2. n \in Items
    BY <1>1, <2>1, MarkedIn
  <2>3. QED  BY <1>2, <2>2
<1>13. ASSUME NEW p, BrokerStep(p) PROVE Open(n.id)
  BY <1>2, <1>13 DEF BrokerStep, Keeps
<1>14. CASE UNCHANGED data
  BY <1>2, <1>14 DEF data, Items
<1>15. QED
  BY <1>4, <1>5, <1>6, <1>7, <1>8, <1>9, <1>10, <1>11, <1>12, <1>13, <1>14 DEF Steps

\* A packet that is written: a publish is open, and the publish of a PUBREL is
\* acknowledged.
Fits(p) ==
    /\ p \in Packet /\ SoundPacket(p)
    /\ p.type = "PUBLISH" /\ p.id # NoId => Open(p.id)
    /\ p.type = "PUBREL" =>
          \A n \in Items' : n.type = "PUBLISH" /\ n.id = p.id => n.pending = "ACKNOWLEDGED"

LEMMA FittingPacket ==
    ASSUME DataInv, IdInv, Known, Steps
    PROVE  \/ \E p \in Packets : BrokerStep(p)
           \/ up' = up /\ Packets' = Packets
           \/ up' = << >> /\ Packets' = {}
           \/ \E p : Fits(p) /\ up' = Append(up, p) /\ Packets' = Packets \cup {p}
<1> DEFINE Goal == \/ up' = up /\ Packets' = Packets
                   \/ \E p : Fits(p) /\ up' = Append(up, p) /\ Packets' = Packets \cup {p}
<1>1. /\ \A i \in Items : i \in Item /\ SoundItem(i)
      /\ "ACKNOWLEDGED" \in PendingStates
  BY ItemsSound DEF PendingStates
<1>2. ASSUME Silent PROVE Goal
  BY <1>2 DEF Silent
<1>3. ASSUME NEW p, Sends(p), Fits(p) PROVE Goal
  BY <1>3 DEF Sends
<1> HIDE DEF Goal
<1>4. CASE PlainStep
  <2>1. PICK p \in Plain : Sends(p)
    BY <1>4 DEF PlainStep
  <2>2. Fits(p)
    BY <2>1 DEF Fits, Sends, Plain
  <2>3. QED  BY <1>3, <2>1, <2>2 DEF Goal
<1>5. ASSUME NEW x \in FreshIds, SentStep(x) PROVE Goal
  <2> DEFINE p == PacketOf(NewItem(x, "PUBLISH", QosOf[x]), FALSE)
  <2>1. Sends(p)
    BY <1>5 DEF SentStep
  <2>2. p.type = "PUBLISH" /\ p.id = x
    BY DEF PacketOf, NewItem
  <2>3. Open(x)
    BY DEF FreshIds, Known, Open
  <2> HIDE DEF p
  <2>4. Fits(p)
    BY <2>1, <2>2, <2>3 DEF Fits, Sends
  <2>5. QED  BY <1>3, <2>1, <2>4
<1>6. ASSUME NEW x \in FreshIds, NEW type \in Requests, RequestStep(x, type) PROVE Goal
  <2> DEFINE p == PacketOf([NewItem(x, type, 0) EXCEPT !.pending = "TRANSMITTED"], FALSE)
  <2>1. Sends(p) \/ Silent
    BY <1>6 DEF RequestStep
  <2>2. p.type \notin {"PUBLISH", "PUBREL"}
    BY DEF PacketOf, NewItem, Requests
  <2> HIDE DEF p
  <2>3. Sends(p) => Fits(p)
    BY <2>2 DEF Fits, Sends
  <2>4. QED  BY <1>2, <1>3, <2>1, <2>3
<1>7. ASSUME NEW i \in Items, ResentStep(i) PROVE Goal
  <2> DEFINE p == PacketOf(i, i.dup)
  <2>1. Sends(p) /\ i.pending = "QUEUED"
    BY <1>7 DEF ResentStep
  <2>2. p.type = i.type /\ p.id = i.id
    BY DEF PacketOf
  <2> HIDE DEF p
  <2>3. i.type = "PUBLISH" => Open(i.id)
    BY <2>1 DEF Open
  <2>4. i.type # "PUBREL"
    BY <1>1 DEF Item, Requests
  <2>5. Fits(p)
    BY <2>1, <2>2, <2>3, <2>4 DEF Fits, Sends
  <2>6. QED  BY <1>3, <2>1, <2>5
<1>8. ASSUME NEW i \in Items, RetransmitStep(i) PROVE Goal
  <2> DEFINE p == PacketOf(Retried(i), Retried(i).dup)
  <2>1. (Sends(p) \/ Silent) /\ i.pending = "TRANSMITTED"
    BY <1>8 DEF RetransmitStep
  <2>2. p.type = i.type /\ p.id = i.id
    BY <1>1, RetriedItem DEF PacketOf
  <2> HIDE DEF p
  <2>3. i.type = "PUBLISH" => Open(i.id)
    BY <2>1 DEF Open
  <2>4. i.type # "PUBREL"
    BY <1>1 DEF Item, Requests
  <2>5. Sends(p) => Fits(p)
    BY <2>2, <2>3, <2>4 DEF Fits, Sends
  <2>6. QED  BY <1>2, <1>3, <2>1, <2>5
<1>9. ASSUME NEW i \in Items, PubrelStep(i) PROVE Goal
  <2> DEFINE p == Control("PUBREL", i.id)
  <2>1. Sends(p) /\ i.pending = "ACKNOWLEDGED" /\ i.id # NoId /\ Items' \subseteq Items
    BY <1>9 DEF PubrelStep, Keeps
  <2>2. p.type = "PUBREL" /\ p.id = i.id
    BY ControlFields
  <2> HIDE DEF p
  <2>3. \A n \in Items' : n.id = i.id => n = i
    BY <2>1, SameItem DEF IdInv, Items
  <2>4. Fits(p)
    BY <2>1, <2>2, <2>3 DEF Fits, Sends
  <2>5. QED  BY <1>3, <2>1, <2>4
<1>10. ASSUME NEW a, AckedStep(a) PROVE Goal
  <2> DEFINE p == Control("PUBREL", a.id)
  <2>1. (Sends(p) \/ Silent) /\ Items' \subseteq Marked(Items, a.id, "ACKNOWLEDGED")
    BY <1>10 DEF AckedStep, Keeps
  <2>2. p.type = "PUBREL" /\ p.id = a.id
    BY ControlFields
  <2> HIDE DEF p
  <2>3. \A n \in Items' : n.id = a.id => n.pending = "ACKNOWLEDGED"
    BY <1>1, <2>1, MarkedIn
  <2>4. Sends(p) => Fits(p)
    BY <2>2, <2>3 DEF Fits, Sends
  <2>5. QED  BY <1>2, <1>3, <2>1, <2>4
<1>11. ASSUME NEW x, NEW i, NEW a,
              \/ CutStep \/ Qos0Step \/ LostStep \/ PurgeStep \/ UnsentStep(x) \/ ExpiredStep(i)
              \/ TakenStep(a) \/ FinishedStep(a) \/ UNCHANGED data
       PROVE  Goal
  <2>1. Silent
    BY <1>11 DEF CutStep, Qos0Step, LostStep, PurgeStep, UnsentStep, ExpiredStep, TakenStep,
                 FinishedStep, data, Silent, Packets
  <2>2. QED  BY <1>2, <2>1
<1>12. CASE ConnectedStep
  BY <1>12 DEF ConnectedStep
<1>13. QED
  BY <1>4, <1>5, <1>6, <1>7, <1>8, <1>9, <1>10, <1>11, <1>12 DEF Steps, Goal

\* No PUBREL of an open message is under way.
LEMMA OpenUnreleased ==
    ASSUME Known, Ordered, NEW id, Open(id), NEW p \in Packets, p.type = "PUBREL", p.id = id
    PROVE  FALSE
BY DEF Known, PacketKnown, Ordered, Open

LEMMA OrderedStep ==
    ASSUME DataInv, IdInv, Known, Ordered, Steps, DataInv'
    PROVE  Ordered'
<1>1. \A n \in Items' : n.type = "PUBLISH" /\ n.id # NoId /\ n.pending # "ACKNOWLEDGED" => Open(n.id)
  BY OpenItems
<1>2. \A p \in Packets : p.type = "PUBREL" => p.id # NoId
  BY IdsAssumption DEF DataInv, SoundUp, SoundPacket, Packets, Range
<1>3. \A p \in Packets, n \in Items' :
         p.type = "PUBREL" /\ n.type = "PUBLISH" /\ n.id = p.id => n.pending = "ACKNOWLEDGED"
  BY <1>1, <1>2, OpenUnreleased
<1>4. CASE up' = up /\ Packets' = Packets
  BY <1>3, <1>4 DEF Ordered
<1>5. CASE up' = << >> /\ Packets' = {}
  BY <1>5 DEF Ordered
<1>6. ASSUME NEW p \in Packets, BrokerStep(p) PROVE Ordered'
  <2>1. /\ Packets' \subseteq Packets
        /\ \A k \in DOMAIN up' : k + 1 \in DOMAIN up /\ up'[k] = up[k + 1]
    BY <1>6 DEF BrokerStep
  <2>2. \A k \in DOMAIN up' : k \in Int
    <3>1. up' \in Seq(Packet)
      BY DEF DataInv, SoundUp
    <3>2. QED  BY <3>1
  <2>3. QED  BY <1>3, <2>1, <2>2 DEF Ordered
<1>7. ASSUME NEW p, Fits(p), up' = Append(up, p), Packets' = Packets \cup {p} PROVE Ordered'
  <2>1. \A q \in Packets', n \in Items' :
           q.type = "PUBREL" /\ n.type = "PUBLISH" /\ n.id = q.id => n.pending = "ACKNOWLEDGED"
    BY <1>3, <1>7 DEF Fits
  <2>2. \A q \in Packets : q.type = "PUBREL" /\ p.type = "PUBLISH" => q.id # p.id
    BY <1>2, <1>7, OpenUnreleased DEF Fits
  <2>3. up \in Seq(Packet) /\ Len(up) \in Nat /\ p \in Packet /\ DOMAIN up = 1 .. Len(up)
    BY <1>7 DEF DataInv, SoundUp, Fits
  <2>4. /\ DOMAIN up' = 1 .. Len(up) + 1 /\ up'[Len(up) + 1] = p
        /\ \A k \in DOMAIN up : up'[k] = up[k] /\ up[k] \in Packets
    BY <1>7, <2>3 DEF Packets, Range
  <2>5. ASSUME NEW j \in DOMAIN up', NEW k \in DOMAIN up', j < k,
               up'[j].type = "PUBREL", up'[k].type = "PUBLISH"
        PROVE  up'[j].id # up'[k].id
    <3>1. j \in DOMAIN up
      BY <2>3, <2>4, <2>5
    <3>2. CASE k \in DOMAIN up
      BY <2>4, <2>5, <3>1, <3>2 DEF Ordered
    <3>3. CASE k = Len(up) + 1
      BY <2>2, <2>4, <2>5, <3>1, <3>3
    <3>4. QED  BY <2>3, <2>4, <3>2, <3>3
  <2>6. QED  BY <2>1, <2>5 DEF Ordered
<1>8. QED  BY <1>4, <1>5, <1>6, <1>7, FittingPacket

\* Steps but the broker's deliver nothing; and in a session that persists the
\* broker keeps what it holds.
LEMMA NotDelivered ==
    ASSUME Steps, ~\E p \in Packets : BrokerStep(p)
    PROVE  delivered' = delivered /\ (~CleanSession => held' = held)
<1>1. CASE UNCHANGED data
  BY <1>1 DEF data
<1>2. CASE CutStep \/ PlainStep \/ Qos0Step \/ LostStep \/ ConnectedStep \/ PurgeStep
  BY <1>2 DEF CutStep, PlainStep, Qos0Step, LostStep, ConnectedStep, PurgeStep, Quiet
<1>3. ASSUME NEW x, NEW type, UnsentStep(x) \/ SentStep(x) \/ RequestStep(x, type)
      PROVE  delivered' = delivered /\ held' = held
  BY <1>3 DEF UnsentStep, SentStep, RequestStep, Quiet
<1>4. ASSUME NEW i, ResentStep(i) \/ RetransmitStep(i) \/ PubrelStep(i) \/ ExpiredStep(i)
      PROVE  delivered' = delivered /\ held' = held
  BY <1>4 DEF ResentStep, RetransmitStep, PubrelStep, ExpiredStep, Quiet
<1>5. ASSUME NEW a, TakenStep(a) \/ FinishedStep(a) \/ AckedStep(a)
      PROVE  delivered' = delivered /\ held' = held
  BY <1>5 DEF TakenStep, FinishedStep, AckedStep, Takes
<1>6. QED  BY <1>1, <1>2, <1>3, <1>4, <1>5 DEF Steps

LEMMA OnceStep ==
    ASSUME DataInv, IdInv, Known, Ordered, Once, Steps, DataInv'
    PROVE  Once'
<1> SUFFICES ASSUME ~CleanSession, NEW id \in Ids, QosOf[id] = 2, delivered'[id] > 0, id \notin held'
             PROVE  /\ \A p \in Packets' : p.type = "PUBLISH" => p.id # id
                    /\ \A i \in Items' : i.type = "PUBLISH" /\ i.id = id
                                            => i.pending = "ACKNOWLEDGED"
  BY DEF Once
<1>1. id # NoId
  BY IdsAssumption
<1>2. ASSUME ~Open(id) PROVE \A i \in Items' : i.type = "PUBLISH" /\ i.id = id
                                                  => i.pending = "ACKNOWLEDGED"
  BY <1>1, <1>2, OpenItems
<1>3. CASE ~\E p \in Packets : BrokerStep(p)
  <2>1. delivered[id] > 0 /\ id \notin held
    BY <1>3, NotDelivered
  <2>2. (\A p \in Packets : p.type = "PUBLISH" => p.id # id) /\ ~Open(id)
    BY <2>1 DEF Once, Open
  <2>3. \A p \in Packets' : p \in Packets \/ Fits(p)
    BY <1>3, FittingPacket
  <2>4. QED  BY <1>1, <1>2, <2>2, <2>3 DEF Fits
<1>4. ASSUME NEW p \in Packets, BrokerStep(p)
      PROVE  /\ \A q \in Packets' : q.type = "PUBLISH" => q.id # id
             /\ \A i \in Items' : i.type = "PUBLISH" /\ i.id = id => i.pending = "ACKNOWLEDGED"
  <2>1. /\ Packets' \subseteq Packets /\ p \in Packet /\ SoundPacket(p)
        /\ \A k \in DOMAIN up' : k + 1 \in DOMAIN up /\ up'[k] = up[k + 1]
        /\ p = up[1]
        /\ held' = IF p.type = "PUBREL" THEN held \ {p.id}
                   ELSE IF p.type = "PUBLISH" /\ p.qos = 2 THEN held \cup {p.id} ELSE held
    BY <1>4 DEF BrokerStep
  <2>2. delivered'[id] # delivered[id] => p.type = "PUBLISH" /\ p.qos > 0 /\ id = p.id
    BY <1>4, BrokerDelivers
  <2>3. CASE p.type = "PUBREL" /\ p.id = id
    <3>1. delivered[id] > 0 /\ delivered[id] # 0
      BY <2>3 DEF Known, PacketKnown
    <3>2. ~Open(id)
      BY <2>3, OpenUnreleased
    <3>3. 1 \in DOMAIN up
      BY <2>3 DEF DataInv, SoundUp, Packets, Range
    <3>4. \A k \in DOMAIN up' : 1 < k + 1
      <4>1. up' \in Seq(Packet)
        BY DEF DataInv, SoundUp
      <4>2. \A k \in DOMAIN up' : k \in Nat /\ k >= 1
        BY <4>1
      <4>3. QED  BY <4>2
    <3>5. \A k \in DOMAIN up' : up'[k].type = "PUBLISH" => up'[k].id # id
      BY <2>1, <2>3, <3>3, <3>4 DEF Ordered
    <3>6. \A q \in Packets' : q.type = "PUBLISH" => q.id # id
      BY <3>5 DEF Packets, Range
    <3>7. QED  BY <1>2, <3>2, <3>6
  <2>4. CASE ~(p.type = "PUBREL" /\ p.id = id)
    <3>1. id \notin held
      BY <2>1, <2>4
    <3>2. delivered[id] > 0
      <4>1. ASSUME p.type = "PUBLISH", p.qos > 0, id = p.id PROVE FALSE
        BY <2>1, <4>1 DEF SoundPacket
      <4>2. QED  BY <2>2, <4>1
    <3>3. (\A q \in Packets : q.type = "PUBLISH" => q.id # id) /\ ~Open(id)
      BY <3>1, <3>2 DEF Once, Open
    <3>4. QED  BY <1>2, <2>1, <3>3
  <2>5. QED  BY <2>3, <2>4
<1>5. QED  BY <1>3, <1>4

DeliveryInv == DataInv /\ IdInv /\ WriteInv /\ Known /\ Ordered /\ Once

\* Nothing is under way that is not of an accepted message, and no message the
\* broker is done with is written again (mqtt_client.c:1762-1843, 1880-1955).
THEOREM DeliverySound == Spec => []DeliveryInv
<1>1. Init => Known /\ Ordered /\ Once
  <2> SUFFICES ASSUME Init PROVE Known /\ Ordered /\ Once
    OBVIOUS
  <2>1. Items = {} /\ Packets = {} /\ Replies = {} /\ DOMAIN up = {}
    BY DEF Init, Items, Packets, Replies, Range
  <2>2. Known
    BY <2>1 DEF Init, Known
  <2>3. Ordered /\ Once
    BY <2>1 DEF Ordered, Once
  <2>4. QED  BY <2>2, <2>3
<1>2. DeliveryInv /\ (DataInv /\ IdInv /\ WriteInv)' /\ [Next]_vars => DeliveryInv'
  <2> SUFFICES ASSUME DeliveryInv, (DataInv /\ IdInv /\ WriteInv)', [Next]_vars
               PROVE  DeliveryInv'
    OBVIOUS
  <2>1. Steps
    BY StepsComplete DEF DeliveryInv
  <2>2. Known'
    BY <2>1, KnownStep DEF DeliveryInv
  <2>3. Ordered'
    BY <2>1, OrderedStep DEF DeliveryInv
  <2>4. Once'
    BY <2>1, OnceStep DEF DeliveryInv
  <2>5. QED  BY <2>2, <2>3, <2>4 DEF DeliveryInv
<1>3. Init /\ DataInv /\ IdInv /\ WriteInv => DeliveryInv
  BY <1>1 DEF DeliveryInv
<1>4. QED  BY <1>2, <1>3, WritesSound, PTL DEF Spec

-----------------------------------------------------------------------------
(***************************************************************************)
(* The client implements MqttDelivery.                                     *)
(***************************************************************************)
DeliveryStep == Delivery!Next \/ UNCHANGED <<promise, delivered>>

\* A message is accepted when it is stored.
LEMMA AcceptStep ==
    ASSUME NEW id \in FreshIds, UnsentStep(id) \/ SentStep(id)
    PROVE  DeliveryStep
<1>1. id \in Ids /\ promise[id] = "none"
  BY DEF FreshIds
<1>2. promise' = [promise EXCEPT ![id] = "accepted"] /\ delivered' = delivered
  BY DEF UnsentStep, SentStep
<1>3. Delivery!Accept(id)
  BY <1>1, <1>2 DEF Delivery!Accept
<1>4. QED  BY <1>1, <1>3 DEF DeliveryStep, Delivery!Next

\* What Reported does to the promise of one message that is accepted
LEMMA ReportedOne ==
    ASSUME DataInv, NEW id \in Ids, promise[id] = "accepted", NEW fate, Reported({id}, fate)
    PROVE  promise' = [promise EXCEPT ![id] = fate]
<1>1. promise \in [Ids -> Fates]
  BY DEF DataInv
<1>2. promise' = [i \in Ids |-> IF i \notin {id} THEN promise[i]
                                ELSE IF promise[i] = "accepted" THEN fate ELSE "twice"]
  BY DEF Reported
<1>3. QED  BY <1>1, <1>2

\* and of none
LEMMA ReportedNone ==
    ASSUME DataInv, NEW ids, ids \cap Ids = {}, NEW fate, Reported(ids, fate)
    PROVE  promise' = promise
<1>1. promise \in [Ids -> Fates]
  BY DEF DataInv
<1>2. promise' = [i \in Ids |-> promise[i]]
  BY DEF Reported
<1>3. QED  BY <1>1, <1>2

\* PUBLISHED is reported once, of a message the broker has.
LEMMA PublishStep ==
    ASSUME DeliveryInv, NEW a \in Replies, FinishedStep(a)
    PROVE  DeliveryStep
<1>1. /\ a.type \in {"PUBACK", "PUBCOMP"} /\ a.id \in Ids /\ delivered' = delivered
      /\ IF \E i \in Items : i.id = a.id /\ i.type = "PUBLISH"
         THEN Reported({a.id}, "published") ELSE promise' = promise
  BY DEF FinishedStep, Takes
<1>2. CASE \E i \in Items : i.id = a.id /\ i.type = "PUBLISH"
  <2>1. promise[a.id] = "accepted"
    BY <1>1, <1>2 DEF DeliveryInv, IdInv, Stored
  <2>2. delivered[a.id] > 0
    BY <1>1 DEF DeliveryInv, Known
  <2>3. promise' = [promise EXCEPT ![a.id] = "published"]
    BY <1>1, <1>2, <2>1, ReportedOne DEF DeliveryInv
  <2>4. Delivery!Publish(a.id)
    BY <1>1, <2>1, <2>2, <2>3 DEF Delivery!Publish
  <2>5. QED  BY <1>1, <2>4 DEF DeliveryStep, Delivery!Next
<1>3. CASE ~\E i \in Items : i.id = a.id /\ i.type = "PUBLISH"
  BY <1>1, <1>3 DEF DeliveryStep
<1>4. QED  BY <1>2, <1>3

\* DELETED is reported once, of a message that was not PUBLISHED.
LEMMA ExpireStep ==
    ASSUME DeliveryInv, NEW i \in Items, ExpiredStep(i)
    PROVE  DeliveryStep
<1>1. /\ delivered' = delivered
      /\ Reported(IF i.type = "PUBLISH" THEN {i.id} ELSE {}, "deleted")
  BY DEF ExpiredStep
<1>2. CASE i.type = "PUBLISH" /\ i.id \in Ids
  <2>1. promise[i.id] = "accepted"
    BY <1>2 DEF DeliveryInv, IdInv, Stored
  <2>2. promise' = [promise EXCEPT ![i.id] = "deleted"]
    BY <1>1, <1>2, <2>1, ReportedOne DEF DeliveryInv
  <2>3. Delivery!Expire(i.id)
    BY <1>1, <2>1, <2>2 DEF Delivery!Expire
  <2>4. QED  BY <1>2, <2>3 DEF DeliveryStep, Delivery!Next
<1>3. CASE ~(i.type = "PUBLISH" /\ i.id \in Ids)
  <2>1. (IF i.type = "PUBLISH" THEN {i.id} ELSE {}) \cap Ids = {}
    BY <1>3
  <2>2. promise' = promise
    BY <1>1, <2>1, ReportedNone DEF DeliveryInv
  <2>3. QED  BY <1>1, <2>2 DEF DeliveryStep
<1>4. QED  BY <1>2, <1>3

\* The ending worker gives up all of the messages that are not reported.
LEMMA DropStep ==
    ASSUME DeliveryInv, PurgeStep
    PROVE  DeliveryStep
<1>1. /\ delivered' = delivered
      /\ promise' = [id \in Ids |-> IF Stored(Items, id)
                                    THEN IF promise[id] = "accepted" THEN "dropped" ELSE "twice"
                                    ELSE promise[id]]
  BY DEF PurgeStep, Stored
<1>2. \A id \in Ids : Stored(Items, id) <=> promise[id] = "accepted"
  BY DEF DeliveryInv, IdInv
<1>3. promise' = [id \in Ids |-> IF promise[id] = "accepted" THEN "dropped" ELSE promise[id]]
  BY <1>1, <1>2
<1>4. QED  BY <1>1, <1>3 DEF DeliveryStep, Delivery!Next, Delivery!Drop

\* The broker passes on accepted messages, at QoS 2 each once if the session
\* persists.
LEMMA DeliverStep ==
    ASSUME DeliveryInv, NEW p \in Packets, BrokerStep(p)
    PROVE  DeliveryStep
<1>1. /\ promise' = promise /\ delivered \in [Ids -> 0 .. 2] /\ delivered' \in [Ids -> 0 .. 2]
      /\ \A id \in Ids : delivered'[id] # delivered[id] =>
            /\ p.type = "PUBLISH" /\ p.qos > 0 /\ id = p.id
            /\ delivered'[id] = delivered[id] + 1 /\ ~(p.qos = 2 /\ id \in held)
  BY BrokerDelivers DEF DeliveryInv, DataInv, BrokerStep
<1>2. CASE \A id \in Ids : delivered'[id] = delivered[id]
  <2>1. delivered' = delivered
    BY <1>1, <1>2
  <2>2. QED  BY <1>1, <2>1 DEF DeliveryStep
<1>3. ASSUME NEW id \in Ids, delivered'[id] # delivered[id] PROVE DeliveryStep
  <2>1. /\ p.type = "PUBLISH" /\ p.qos > 0 /\ id = p.id
        /\ delivered'[id] = delivered[id] + 1 /\ ~(p.qos = 2 /\ id \in held)
        /\ \A x \in Ids : x # id => delivered'[x] = delivered[x]
    BY <1>1, <1>3
  <2>2. promise[id] # "none"
    BY <2>1 DEF DeliveryInv, Known, PacketKnown
  <2>3. p.qos = QosOf[id]
    BY <2>1 DEF BrokerStep, SoundPacket
  <2>4. QosOf[id] = 2 /\ ~CleanSession => delivered[id] < 1
    BY <1>1, <2>1, <2>3 DEF DeliveryInv, Once
  <2>5. delivered[id] < 2
    BY <1>1, <2>1
  <2>6. delivered' = [delivered EXCEPT ![id] = @ + 1]
    BY <1>1, <2>1
  <2>7. Delivery!Deliver(id)
    BY <1>1, <2>2, <2>4, <2>5, <2>6 DEF Delivery!Deliver
  <2>8. QED  BY <2>7 DEF DeliveryStep, Delivery!Next
<1>4. QED  BY <1>2, <1>3

LEMMA DeliverySteps ==
    ASSUME DeliveryInv, Steps
    PROVE  DeliveryStep
<1>1. CASE UNCHANGED data
  BY <1>1 DEF data, DeliveryStep
<1>2. CASE CutStep \/ PlainStep \/ Qos0Step \/ LostStep \/ ConnectedStep
  BY <1>2 DEF CutStep, PlainStep, Qos0Step, LostStep, ConnectedStep, Quiet, DeliveryStep
<1>3. ASSUME NEW i, NEW x, NEW type,
             ResentStep(i) \/ RetransmitStep(i) \/ PubrelStep(i) \/ RequestStep(x, type)
      PROVE  DeliveryStep
  BY <1>3 DEF ResentStep, RetransmitStep, PubrelStep, RequestStep, Quiet, DeliveryStep
<1>4. ASSUME NEW a, TakenStep(a) \/ AckedStep(a) PROVE DeliveryStep
  BY <1>4 DEF TakenStep, AckedStep, Takes, DeliveryStep
<1>5. QED
  BY <1>1, <1>2, <1>3, <1>4, AcceptStep, PublishStep, ExpireStep, DropStep, DeliverStep DEF Steps

\* The client implements MqttDelivery, for any number of messages, callers and
\* connections: PUBLISHED comes at most once and only after the broker has the
\* message, DELETED never after it, and QoS 2 delivers once when the session
\* persists (mqtt_client.c:1762-1843, 1957-1973, emqtt.h:17-18).
THEOREM ClientDelivers == Spec => DeliveryKept
<1>1. Init => Delivery!Init
  BY DEF Init, Delivery!Init
<1>2. DeliveryInv /\ [Next]_vars => [Delivery!Next]_(Delivery!vars)
  <2> SUFFICES ASSUME DeliveryInv, [Next]_vars PROVE [Delivery!Next]_(Delivery!vars)
    OBVIOUS
  <2>1. Steps
    BY StepsComplete DEF DeliveryInv
  <2>2. DeliveryStep
    BY <2>1, DeliverySteps
  <2>3. QED  BY <2>2 DEF DeliveryStep, Delivery!vars
<1>3. QED  BY <1>1, <1>2, DeliverySound, PTL DEF Spec, DeliveryKept, Delivery!Spec

-----------------------------------------------------------------------------
(***************************************************************************)
(* The broker's quota.                                                     *)
(***************************************************************************)

\* Where the answer to this message would free quota, the message is counted, or
\* it is one the connection took over.
Claim(id) == promise[id] = "accepted" => id \in inflight \cup carried

\* A publish or PUBREL under way, an answer under way, a publish that waits for
\* its answer: each is of a message with a claim.
Claims ==
    /\ \A p \in Packets : (p.type = "PUBLISH" /\ p.qos > 0) \/ p.type = "PUBREL" => Claim(p.id)
    /\ \A a \in Replies : a.type \in {"PUBACK", "PUBREC", "PUBCOMP"} => Claim(a.id)
    /\ \A i \in Items : i.type = "PUBLISH" /\ i.pending # "QUEUED" => Claim(i.id)

\* What a step but a completion and a connection does to promises: only messages
\* that were never written are new, and while messages do not expire none goes
\* without the connection.
PromisesKept ==
    /\ \A id \in Ids : promise'[id] = "accepted" => promise[id] = "accepted" \/ id \notin written
    /\ ~Expires /\ link' # "closed" =>
          \A id \in Ids : promise[id] = "accepted" => promise'[id] = "accepted"
    /\ link' # "closed" => link # "closed"

Uncharged == UNCHANGED <<sent, inflight, carried>> /\ PromisesKept

\* A publish is written for the first time on this connection.
Charged(id) ==
    /\ id \in Ids /\ (Version5 => sent' = sent + 1) /\ (~Version5 => sent' = sent)
    /\ inflight' = inflight \cup {id} /\ carried' = carried
    /\ promise'[id] = "accepted" /\ PromisesKept
    /\ id \notin written \/ \E i \in Items : i.type = "PUBLISH" /\ i.pending = "QUEUED" /\ i.id = id

LEMMA SamePromises ==
    ASSUME promise' = promise, link' # "closed" => link # "closed"
    PROVE  PromisesKept
BY DEF PromisesKept

\* What counts of a stored publish
LEMMA CountedItem ==
    ASSUME NEW i, Counted(i)
    PROVE  /\ ~(i.type = "PUBLISH" /\ i.qos > 0) => sent' = sent /\ inflight' = inflight
           /\ i.type = "PUBLISH" /\ i.qos > 0 =>
                 /\ (Version5 => sent' = sent + 1) /\ (~Version5 => sent' = sent)
                 /\ inflight' = inflight \cup {i.id}
BY DEF Counted

\* Every step leaves the counters alone, charges one publish, frees one, or begins
\* a connection.
LEMMA QuotaMoves ==
    ASSUME DataInv, IdInv, Steps
    PROVE  \/ ConnectedStep \/ (\E a \in Replies : FinishedStep(a))
           \/ Uncharged \/ (\E id : Charged(id))
<1> DEFINE Goal == \/ ConnectedStep \/ (\E a \in Replies : FinishedStep(a))
                   \/ Uncharged \/ (\E id : Charged(id))
<1>1. promise \in [Ids -> Fates]
  BY DEF DataInv
<1>2. ASSUME UNCHANGED <<sent, inflight, carried, promise>>, link' # "closed" => link # "closed"
      PROVE  Goal
  BY <1>2, SamePromises DEF Uncharged
<1>3. CASE UNCHANGED data
  BY <1>2, <1>3 DEF data
<1>4. CASE CutStep \/ PlainStep \/ Qos0Step \/ LostStep
  BY <1>2, <1>4 DEF CutStep, PlainStep, Qos0Step, LostStep, Quiet, Ends, Stays
<1>5. CASE PurgeStep
  <2>1. UNCHANGED <<sent, inflight, carried>> /\ link' = "closed"
    BY <1>5 DEF PurgeStep, Ends
  <2>2. \A id \in Ids : promise'[id] = "accepted" => promise[id] = "accepted"
    BY <1>5 DEF PurgeStep
  <2>3. QED  BY <2>1, <2>2 DEF Uncharged, PromisesKept
<1>6. ASSUME NEW x \in FreshIds, UnsentStep(x) \/ SentStep(x) PROVE Goal
  <2>1. x \in Ids /\ x \notin written
    BY DEF FreshIds
  <2>2. promise' = [promise EXCEPT ![x] = "accepted"]
    BY <1>6 DEF UnsentStep, SentStep
  <2>3. /\ promise'[x] = "accepted"
        /\ \A id \in Ids : promise'[id] = "accepted" => promise[id] = "accepted" \/ id = x
        /\ \A id \in Ids : promise[id] = "accepted" => promise'[id] = "accepted"
    BY <1>1, <2>1, <2>2
  <2>4. link' # "closed" => link # "closed"
    BY <1>6 DEF UnsentStep, SentStep, Ends, Stays
  <2>5. PromisesKept
    BY <2>1, <2>3, <2>4 DEF PromisesKept
  <2>6. CASE UnsentStep(x)
    BY <2>5, <2>6 DEF UnsentStep, Uncharged
  <2>7. CASE SentStep(x)
    <3> DEFINE item == NewItem(x, "PUBLISH", QosOf[x])
    <3>1. Counted(item) /\ carried' = carried
      BY <2>7 DEF SentStep
    <3>2. item.type = "PUBLISH" /\ item.qos > 0 /\ item.id = x
      BY <2>1, QosAssumption DEF NewItem
    <3> HIDE DEF item
    <3>3. Charged(x)
      BY <2>1, <2>3, <2>5, <3>1, <3>2, CountedItem DEF Charged
    <3>4. QED  BY <3>3
  <2>8. QED  BY <1>6, <2>6, <2>7
<1>7. ASSUME NEW i, NEW x, NEW type, RetransmitStep(i) \/ PubrelStep(i) \/ RequestStep(x, type)
      PROVE  Goal
  BY <1>2, <1>7 DEF RetransmitStep, PubrelStep, RequestStep, Quiet, Ends, Stays
<1>8. ASSUME NEW i \in Items, i \in Item, SoundItem(i), ResentStep(i) PROVE Goal
  <2>1. Counted(i) /\ UNCHANGED <<promise, carried, link>> /\ i.pending = "QUEUED"
    BY <1>8 DEF ResentStep, Stays
  <2>2. CASE i.type = "PUBLISH" /\ i.qos > 0
    <3>1. i.id \in Ids
      BY <1>8, <2>2 DEF Item, SoundItem
    <3>2. promise[i.id] = "accepted"
      BY <2>2, <3>1 DEF IdInv, Stored
    <3>3. Charged(i.id)
      BY <2>1, <2>2, <3>1, <3>2, CountedItem, SamePromises DEF Charged
    <3>4. QED  BY <3>3
  <2>3. CASE ~(i.type = "PUBLISH" /\ i.qos > 0)
    BY <1>2, <2>1, <2>3, CountedItem
  <2>4. QED  BY <2>2, <2>3
<1>9. ASSUME NEW i \in Items, ExpiredStep(i) PROVE Goal
  <2>1. Expires /\ UNCHANGED <<sent, inflight, carried, link>>
    BY <1>9 DEF ExpiredStep, Stays
  <2>2. \A id \in Ids : promise'[id] = "accepted" => promise[id] = "accepted"
    BY <1>9 DEF ExpiredStep, Reported
  <2>3. QED  BY <2>1, <2>2 DEF Uncharged, PromisesKept
<1>10. ASSUME NEW a, NEW p, TakenStep(a) \/ AckedStep(a) \/ BrokerStep(p) PROVE Goal
  <2>1. UNCHANGED <<sent, inflight, carried, promise>>
    BY <1>10 DEF TakenStep, AckedStep, BrokerStep, Takes
  <2>2. link' # "closed" => link # "closed"
    BY <1>10 DEF TakenStep, AckedStep, BrokerStep, Takes
  <2>3. QED  BY <1>2, <2>1, <2>2
<1>11. QED
  BY <1>3, <1>4, <1>5, <1>6, <1>7, <1>8, <1>9, <1>10 DEF Steps

\* A completion ends the promise of its message, and touches no other.
LEMMA FinishedPromises ==
    ASSUME DataInv, IdInv, NEW a, FinishedStep(a)
    PROVE  /\ a.id \in Ids /\ promise'[a.id] # "accepted"
           /\ \A id \in Ids : id # a.id => promise'[id] = promise[id]
           /\ promise[a.id] = "accepted" => Uncounted
           /\ promise[a.id] # "accepted" => sent' = sent
           /\ inflight' = inflight \ {a.id} /\ carried' = carried
<1>1. /\ a.id \in Ids /\ inflight' = inflight \ {a.id} /\ carried' = carried
      /\ IF \E i \in Items : i.id = a.id /\ i.type = "PUBLISH"
         THEN Uncounted /\ Reported({a.id}, "published") ELSE UNCHANGED <<sent, promise>>
  BY DEF FinishedStep, Takes
<1>2. promise[a.id] = "accepted" <=> \E i \in Items : i.id = a.id /\ i.type = "PUBLISH"
  BY <1>1 DEF IdInv, Stored
<1>3. CASE promise[a.id] = "accepted"
  BY <1>1, <1>2, <1>3 DEF Reported
<1>4. CASE promise[a.id] # "accepted"
  BY <1>1, <1>2, <1>4
<1>5. QED  BY <1>3, <1>4

\* A claim stays as long as the connection does.
LEMMA ClaimKept ==
    ASSUME DataInv, IdInv, Steps, ~ConnectedStep, NEW id \in Ids, id \in written, Claim(id)
    PROVE  Claim(id)'
<1>1. CASE Uncharged
  BY <1>1 DEF Uncharged, PromisesKept, Claim
<1>2. ASSUME NEW x, Charged(x) PROVE Claim(id)'
  BY <1>2 DEF Charged, PromisesKept, Claim
<1>3. ASSUME NEW a \in Replies, FinishedStep(a) PROVE Claim(id)'
  BY <1>3, FinishedPromises DEF Claim
<1>4. QED  BY <1>1, <1>2, <1>3, QuotaMoves

\* A publish that waits for its answer after a step has a claim.
LEMMA ItemClaims ==
    ASSUME DataInv, IdInv, WriteInv, Claims, Steps, Version5,
           NEW n \in Items', n.type = "PUBLISH", n.pending # "QUEUED", n.id \in Ids
    PROVE  Claim(n.id)'
<1>1. /\ \A i \in Items : i \in Item /\ SoundItem(i)
      /\ "TRANSMITTED" \in PendingStates /\ "ACKNOWLEDGED" \in PendingStates
  BY ItemsSound DEF PendingStates
<1>2. n.id # NoId
  BY IdsAssumption
<1>3. ASSUME ~ConnectedStep, NEW i \in Items, i.id = n.id, i.type = "PUBLISH", i.pending # "QUEUED"
      PROVE  Claim(n.id)'
  <2>1. Claim(n.id) /\ n.id \in written
    BY <1>2, <1>3 DEF Claims, WriteInv, ItemWritten
  <2>2. QED  BY <1>3, <2>1, ClaimKept
<1>4. CASE ConnectedStep
  <2> DEFINE New(i) == [Requeued(i) EXCEPT !.old = TRUE]
  <2>1. PICK i \in Items : n = New(i)
    BY <1>4 DEF ConnectedStep, Keeps
  <2>2. New(i).id = i.id /\ (New(i).pending # "QUEUED" => i.pending = "ACKNOWLEDGED")
    BY <1>1, RequeuedType DEF Item, PendingStates
  <2> HIDE DEF New
  <2>3. n.id \in carried'
    BY <1>4, <2>1, <2>2 DEF ConnectedStep
  <2>4. QED  BY <2>3 DEF Claim
<1> SUFFICES ASSUME ~ConnectedStep PROVE Claim(n.id)'
  BY <1>4
<1>5. CASE n \in Items
  BY <1>3, <1>5
<1>6. CASE CutStep \/ PlainStep \/ LostStep \/ Qos0Step \/ PurgeStep
  BY <1>2, <1>5, <1>6 DEF CutStep, PlainStep, LostStep, Qos0Step, PurgeStep, Keeps, NewItem
<1>7. ASSUME NEW x \in FreshIds, UnsentStep(x) PROVE Claim(n.id)'
  BY <1>5, <1>7 DEF UnsentStep, Keeps, NewItem
<1>8. ASSUME NEW x \in FreshIds, SentStep(x) PROVE Claim(n.id)'
  <2> DEFINE item == NewItem(x, "PUBLISH", QosOf[x])
  <2>1. Counted(item) /\ (n \in Items \/ n.id = x)
    BY <1>8 DEF SentStep, Keeps, NewItem
  <2>2. item.type = "PUBLISH" /\ item.qos > 0 /\ item.id = x
    BY QosAssumption DEF NewItem, FreshIds
  <2> HIDE DEF item
  <2>3. x \in inflight'
    BY <2>1, <2>2, CountedItem
  <2>4. QED  BY <1>5, <2>1, <2>3 DEF Claim
<1>9. ASSUME NEW x, NEW type \in Requests, RequestStep(x, type) PROVE Claim(n.id)'
  BY <1>5, <1>9 DEF RequestStep, Keeps, NewItem, Requests
<1>10. ASSUME NEW i \in Items, ResentStep(i) PROVE Claim(n.id)'
  <2>1. Counted(i) /\ (n \in Items \/ (n \in Marked(Items, i.id, "TRANSMITTED") /\ i.id # NoId))
    BY <1>10 DEF ResentStep, Keeps
  <2>2. CASE n \in Marked(Items, i.id, "TRANSMITTED") /\ i.id # NoId
    <3>1. n \in Items \/ \E j \in Items : j.id = i.id /\ n.id = i.id /\ n.type = j.type
      BY <1>1, <2>2, MarkedIn
    <3>2. \A j \in Items : j.id = i.id => j = i
      BY <2>2, SameItem DEF IdInv, Items
    <3>3. i.id \in Ids /\ i.type = "PUBLISH" => i.qos > 0
      BY <1>1, <2>2, QosAssumption DEF SoundItem
    <3>4. CASE n.id = i.id /\ i.type = "PUBLISH"
      BY <2>1, <3>3, <3>4, CountedItem DEF Claim
    <3>5. QED  BY <1>5, <3>1, <3>2, <3>4
  <2>3. QED  BY <1>5, <2>1, <2>2
<1>11. ASSUME NEW i \in Items, RetransmitStep(i) PROVE Claim(n.id)'
  <2>1. Retried(i).id = i.id /\ Retried(i).type = i.type /\ Retried(i).pending = i.pending
    BY <1>1, RetriedItem
  <2>2. n \in Items \/ n = Retried(i)
    BY <1>11 DEF RetransmitStep, Keeps
  <2>3. QED  BY <1>3, <1>5, <2>1, <2>2
<1>12. ASSUME NEW i, PubrelStep(i) \/ ExpiredStep(i) PROVE Claim(n.id)'
  BY <1>5, <1>12 DEF PubrelStep, ExpiredStep, Keeps
<1>13. ASSUME NEW a, TakenStep(a) \/ FinishedStep(a) PROVE Claim(n.id)'
  BY <1>5, <1>13 DEF TakenStep, FinishedStep, Keeps
<1>14. ASSUME NEW a, AckedStep(a) PROVE Claim(n.id)'
  <2>1. /\ n \in Marked(Items, a.id, "ACKNOWLEDGED")
        /\ a \in Replies /\ a.type = "PUBREC" /\ a.id \in Ids
    BY <1>14 DEF AckedStep, Keeps, Takes
  <2>2. Claim(a.id) /\ a.id \in written
    BY <2>1, IdsAssumption DEF Claims, WriteInv
  <2>3. n \in Items \/ n.id = a.id
    BY <1>1, <2>1, MarkedIn
  <2>4. QED  BY <1>5, <2>1, <2>2, <2>3, ClaimKept
<1>15. ASSUME NEW p, BrokerStep(p) PROVE Claim(n.id)'
  BY <1>5, <1>15 DEF BrokerStep, Keeps
<1>16. CASE UNCHANGED data
  BY <1>5, <1>16 DEF data, Items
<1>17. QED
  BY <1>6, <1>7, <1>8, <1>9, <1>10, <1>11, <1>12, <1>13, <1>14, <1>15, <1>16 DEF Steps

\* The packet is of a message whose answer may free quota.
Claiming(p) == (p.type = "PUBLISH" /\ p.qos > 0) \/ p.type = "PUBREL"

\* So has every publish and PUBREL on its way,
LEMMA PacketClaims ==
    ASSUME DataInv, IdInv, WriteInv, Claims, Steps, Version5, NEW q \in Packets', Claiming(q)
    PROVE  Claim(q.id)'
<1>1. \A i \in Items : i \in Item /\ SoundItem(i)
  BY ItemsSound
<1>2. CASE ConnectedStep
  BY <1>2 DEF ConnectedStep
<1> SUFFICES ASSUME ~ConnectedStep PROVE Claim(q.id)'
  BY <1>2
<1>3. CASE q \in Packets
  <2>1. q.id \in Ids
    BY <1>3 DEF DataInv, SoundUp, SoundPacket, Packets, Range, Claiming
  <2>2. Claim(q.id) /\ q.id \in written
    BY <1>3, <2>1, IdsAssumption DEF Claims, WriteInv, Claiming
  <2>3. QED  BY <2>1, <2>2, ClaimKept
<1>4. CASE Silent
  BY <1>3, <1>4 DEF Silent
<1>5. ASSUME NEW p, Sends(p) PROVE q \in Packets \/ (q = p /\ SoundPacket(q))
  BY <1>5 DEF Sends
<1>6. CASE PlainStep
  <2>1. PICK p \in Plain : Sends(p)
    BY <1>6 DEF PlainStep
  <2>2. ~Claiming(p)
    BY DEF Plain, Claiming
  <2>3. QED  BY <1>3, <1>5, <2>1, <2>2
<1>7. ASSUME NEW x \in FreshIds, SentStep(x) PROVE Claim(q.id)'
  <2> DEFINE item == NewItem(x, "PUBLISH", QosOf[x])
             p == PacketOf(item, FALSE)
  <2>1. Counted(item) /\ Sends(p)
    BY <1>7 DEF SentStep
  <2>2. item.type = "PUBLISH" /\ item.qos > 0 /\ item.id = x /\ p.id = x
    BY QosAssumption DEF NewItem, PacketOf, FreshIds
  <2> HIDE DEF item, p
  <2>3. x \in inflight'
    BY <2>1, <2>2, CountedItem
  <2>4. QED  BY <1>3, <1>5, <2>1, <2>2, <2>3 DEF Claim
<1>8. ASSUME NEW x \in FreshIds, NEW type \in Requests, RequestStep(x, type) PROVE Claim(q.id)'
  <2> DEFINE p == PacketOf([NewItem(x, type, 0) EXCEPT !.pending = "TRANSMITTED"], FALSE)
  <2>1. Sends(p) \/ Silent
    BY <1>8 DEF RequestStep
  <2>2. ~Claiming(p)
    BY DEF PacketOf, NewItem, Requests, Claiming
  <2> HIDE DEF p
  <2>3. QED  BY <1>3, <1>4, <1>5, <2>1, <2>2
<1>9. ASSUME NEW i \in Items, ResentStep(i) PROVE Claim(q.id)'
  <2> DEFINE p == PacketOf(i, i.dup)
  <2>1. Sends(p) /\ Counted(i)
    BY <1>9 DEF ResentStep
  <2>2. p.type = i.type /\ p.id = i.id /\ p.qos = i.qos /\ i.type # "PUBREL"
    BY <1>1 DEF PacketOf, Item, Requests
  <2> HIDE DEF p
  <2>3. Claiming(p) => i.id \in inflight'
    BY <2>1, <2>2, CountedItem DEF Claiming
  <2>4. QED  BY <1>3, <1>5, <2>1, <2>2, <2>3 DEF Claim
<1>10. ASSUME NEW i \in Items, RetransmitStep(i) PROVE Claim(q.id)'
  <2> DEFINE p == PacketOf(Retried(i), Retried(i).dup)
  <2>1. (Sends(p) \/ Silent) /\ i.pending = "TRANSMITTED" /\ i.id # NoId
    BY <1>10 DEF RetransmitStep
  <2>2. p.type = i.type /\ p.id = i.id /\ i.type # "PUBREL"
    BY <1>1, RetriedItem DEF PacketOf, Item, Requests
  <2> HIDE DEF p
  <2>3. Claiming(p) => i.type = "PUBLISH" /\ Claim(i.id) /\ i.id \in written
    BY <2>1, <2>2 DEF Claiming, Claims, WriteInv, ItemWritten
  <2>4. i.id \in Ids
    BY <1>1, <2>1 DEF Item
  <2>5. QED  BY <1>3, <1>4, <1>5, <2>1, <2>2, <2>3, <2>4, ClaimKept
<1>11. ASSUME NEW i \in Items, PubrelStep(i) PROVE Claim(q.id)'
  <2> DEFINE p == Control("PUBREL", i.id)
  <2>1. Sends(p) /\ i.pending = "ACKNOWLEDGED" /\ i.id # NoId
    BY <1>11 DEF PubrelStep
  <2>2. p.id = i.id
    BY ControlFields
  <2> HIDE DEF p
  <2>3. i.id \in Ids /\ i.id \in written
    BY <1>1, <2>1 DEF Item, WriteInv, ItemWritten
  <2>4. Claim(i.id)
    <3>1. ASSUME promise[i.id] = "accepted" PROVE i.type = "PUBLISH"
      <4>1. PICK j \in Items : j.type = "PUBLISH" /\ j.id = i.id
        BY <2>3, <3>1 DEF IdInv, Stored
      <4>2. j = i
        BY <2>1, <4>1, SameItem DEF IdInv, Items
      <4>3. QED  BY <4>1, <4>2
    <3>2. QED  BY <2>1, <3>1 DEF Claims, Claim
  <2>5. QED  BY <1>3, <1>5, <2>1, <2>2, <2>3, <2>4, ClaimKept
<1>12. ASSUME NEW a, AckedStep(a) PROVE Claim(q.id)'
  <2> DEFINE p == Control("PUBREL", a.id)
  <2>1. (Sends(p) \/ Silent) /\ a \in Replies /\ a.type = "PUBREC" /\ a.id \in Ids
    BY <1>12 DEF AckedStep, Takes
  <2>2. p.id = a.id
    BY ControlFields
  <2> HIDE DEF p
  <2>3. Claim(a.id) /\ a.id \in written
    BY <2>1, IdsAssumption DEF Claims, WriteInv
  <2>4. QED  BY <1>3, <1>4, <1>5, <2>1, <2>2, <2>3, ClaimKept
<1>13. ASSUME NEW x, NEW i, NEW a,
              \/ CutStep \/ Qos0Step \/ LostStep \/ PurgeStep \/ UnsentStep(x) \/ ExpiredStep(i)
              \/ TakenStep(a) \/ FinishedStep(a) \/ UNCHANGED data
       PROVE  Claim(q.id)'
  <2>1. Silent
    BY <1>13 DEF CutStep, Qos0Step, LostStep, PurgeStep, UnsentStep, ExpiredStep, TakenStep,
                 FinishedStep, data, Silent, Packets
  <2>2. QED  BY <1>4, <2>1
<1>14. ASSUME NEW p \in Packets, BrokerStep(p) PROVE Claim(q.id)'
  BY <1>3, <1>14 DEF BrokerStep
<1>15. QED
  BY <1>6, <1>7, <1>8, <1>9, <1>10, <1>11, <1>12, <1>13, <1>14 DEF Steps

\* Answers come from the broker alone, and only over a connection.
LEMMA RepliesKept ==
    ASSUME Steps, ~\E p \in Packets : BrokerStep(p)
    PROVE  Replies' \subseteq Replies /\ (link' = "closed" => link = "closed" \/ Replies' = {})
<1>1. CASE UNCHANGED data
  BY <1>1 DEF data, Replies
<1>2. CASE CutStep \/ PlainStep \/ Qos0Step \/ LostStep \/ ConnectedStep \/ PurgeStep
  BY <1>2 DEF CutStep, PlainStep, Qos0Step, LostStep, ConnectedStep, PurgeStep, Ends, Stays
<1>3. ASSUME NEW x, NEW type, UnsentStep(x) \/ SentStep(x) \/ RequestStep(x, type)
      PROVE  Replies' \subseteq Replies /\ (link' = "closed" => link = "closed" \/ Replies' = {})
  BY <1>3 DEF UnsentStep, SentStep, RequestStep, Ends, Stays
<1>4. ASSUME NEW i, ResentStep(i) \/ RetransmitStep(i) \/ PubrelStep(i) \/ ExpiredStep(i)
      PROVE  Replies' \subseteq Replies /\ (link' = "closed" => link = "closed" \/ Replies' = {})
  BY <1>4 DEF ResentStep, RetransmitStep, PubrelStep, ExpiredStep, Ends, Stays
<1>5. ASSUME NEW a, TakenStep(a) \/ FinishedStep(a) \/ AckedStep(a)
      PROVE  Replies' \subseteq Replies /\ (link' = "closed" => link = "closed" \/ Replies' = {})
  BY <1>5 DEF TakenStep, FinishedStep, AckedStep, Takes
<1>6. QED  BY <1>1, <1>2, <1>3, <1>4, <1>5 DEF Steps

\* and every answer.
LEMMA ReplyClaims ==
    ASSUME DataInv, IdInv, WriteInv, Claims, Steps, NEW a \in Replies',
           a.type \in {"PUBACK", "PUBREC", "PUBCOMP"}
    PROVE  Claim(a.id)'
<1>1. CASE ConnectedStep
  BY <1>1 DEF ConnectedStep
<1> SUFFICES ASSUME ~ConnectedStep PROVE Claim(a.id)'
  BY <1>1
<1>2. CASE a \in Replies
  <2>1. a.id \in Ids
    BY <1>2 DEF DataInv, SoundDown, Replies, Range
  <2>2. Claim(a.id) /\ a.id \in written
    BY <1>2, <2>1, IdsAssumption DEF Claims, WriteInv
  <2>3. QED  BY <2>1, <2>2, ClaimKept
<1>3. ASSUME NEW p \in Packets, BrokerStep(p), a \notin Replies PROVE Claim(a.id)'
  <2>1. p \in Packet /\ SoundPacket(p) /\ a.id = p.id /\ a.type \in Answers(p)
    BY <1>3, BrokerReply DEF BrokerStep
  <2>2. Claiming(p)
    BY <2>1, AnswersProperty DEF Claiming
  <2>3. p.id \in Ids
    BY <2>1, <2>2 DEF Claiming, SoundPacket
  <2>4. Claim(p.id) /\ p.id \in written
    BY <2>2, <2>3, IdsAssumption DEF Claims, WriteInv, Claiming
  <2>5. QED  BY <2>1, <2>3, <2>4, ClaimKept
<1>4. QED  BY <1>2, <1>3, RepliesKept

\* The messages that are not reported yet
Out == {id \in Ids : promise[id] = "accepted"}

\* The publishes the broker has not answered are those the counter knows, and as
\* many as there were PUBRELs taken over whose PUBCOMP freed the share of another.
Counts ==
    /\ IsFiniteSet(inflight) /\ IsFiniteSet(carried)
    /\ Cardinality(inflight) <= sent + Cardinality(carried \ Out)

LEMMA CarriedFinite ==
    ASSUME DataInv
    PROVE  IsFiniteSet({i.id : i \in {j \in Items : j.pending = "ACKNOWLEDGED"}})
<1> DEFINE f == [k \in DOMAIN outbox |-> outbox[k].id]
           T == {outbox[k].id : k \in DOMAIN outbox}
<1>1. outbox \in Seq(Item)
  BY DEF DataInv, SoundBox
<1>2. Len(outbox) \in Nat /\ DOMAIN outbox = 1 .. Len(outbox)
  BY <1>1
<1>3. IsFiniteSet(DOMAIN outbox)
  BY <1>2, FS_Interval
<1>4. f \in Surjection(DOMAIN outbox, T)
  BY DEF Surjection
<1>5. IsFiniteSet(T)
  BY <1>3, <1>4, FS_Surjection
<1>6. {i.id : i \in {j \in Items : j.pending = "ACKNOWLEDGED"}} \in SUBSET T
  BY DEF Items, Range
<1>7. QED  BY <1>5, <1>6, FS_Subset

LEMMA CountStep ==
    ASSUME DataInv, IdInv, WriteInv, Claims, Counts, Steps, Version5
    PROVE  Counts'
<1>1. /\ sent \in Nat /\ IsFiniteSet(inflight) /\ IsFiniteSet(carried)
      /\ Cardinality(inflight) <= sent + Cardinality(carried \ Out)
  BY BoundAssumption DEF DataInv, Counts
<1>2. /\ Cardinality(inflight) \in Nat /\ IsFiniteSet(carried \ Out)
      /\ Cardinality(carried \ Out) \in Nat
  BY <1>1, FS_CardinalityType, FS_Difference
<1>3. ASSUME carried' = carried, Out' \cap carried \subseteq Out
      PROVE  /\ IsFiniteSet(carried') /\ Cardinality(carried' \ Out') \in Nat
             /\ Cardinality(carried \ Out) <= Cardinality(carried' \ Out')
  <2>1. carried \ Out \in SUBSET (carried' \ Out')
    BY <1>3
  <2>2. IsFiniteSet(carried') /\ IsFiniteSet(carried' \ Out')
    BY <1>1, <1>3, FS_Difference
  <2>3. QED  BY <2>1, <2>2, FS_Subset, FS_CardinalityType
<1>4. ASSUME PromisesKept PROVE Out' \cap carried \subseteq Out
  BY <1>4 DEF PromisesKept, Out, WriteInv
<1>5. CASE Uncharged
  <2>1. UNCHANGED <<sent, inflight, carried>> /\ PromisesKept
    BY <1>5 DEF Uncharged
  <2>2. Cardinality(carried \ Out) <= Cardinality(carried' \ Out') /\ Cardinality(carried' \ Out') \in Nat
    BY <1>3, <1>4, <2>1
  <2>3. Cardinality(inflight') <= sent' + Cardinality(carried' \ Out')
    BY <1>1, <1>2, <2>1, <2>2
  <2>4. QED  BY <1>1, <2>1, <2>3 DEF Counts
<1>6. ASSUME NEW id, Charged(id) PROVE Counts'
  <2>1. /\ sent' = sent + 1 /\ inflight' = inflight \cup {id} /\ carried' = carried /\ PromisesKept
    BY <1>6 DEF Charged
  <2>2. Cardinality(carried \ Out) <= Cardinality(carried' \ Out') /\ Cardinality(carried' \ Out') \in Nat
    BY <1>3, <1>4, <2>1
  <2>3. /\ IsFiniteSet(inflight')
        /\ Cardinality(inflight') = IF id \in inflight THEN Cardinality(inflight)
                                    ELSE Cardinality(inflight) + 1
    BY <1>1, <2>1, FS_AddElement
  <2>4. Cardinality(inflight') <= sent' + Cardinality(carried' \ Out')
    BY <1>1, <1>2, <2>1, <2>2, <2>3
  <2>5. QED  BY <1>1, <2>1, <2>3, <2>4 DEF Counts
<1>7. ASSUME NEW a \in Replies, FinishedStep(a) PROVE Counts'
  <2>1. /\ a.id \in Ids /\ promise'[a.id] # "accepted" /\ promise \in [Ids -> Fates]
        /\ \A id \in Ids : id # a.id => promise'[id] = promise[id]
        /\ promise[a.id] = "accepted" => Uncounted
        /\ promise[a.id] # "accepted" => sent' = sent
        /\ inflight' = inflight \ {a.id} /\ carried' = carried
    BY <1>7, FinishedPromises DEF DataInv
  <2>2. Out' = Out \ {a.id}
    BY <2>1 DEF Out
  <2>3. /\ IsFiniteSet(inflight')
        /\ Cardinality(inflight') = IF a.id \in inflight THEN Cardinality(inflight) - 1
                                    ELSE Cardinality(inflight)
    BY <1>1, <2>1, FS_RemoveElement
  <2>4. /\ Cardinality(carried \ Out) <= Cardinality(carried' \ Out')
        /\ Cardinality(carried' \ Out') \in Nat /\ IsFiniteSet(carried')
    BY <1>3, <2>1, <2>2
  <2>5. sent' \in Nat /\ sent' >= sent - 1
    BY <1>1, <2>1 DEF Uncounted
  <2>6. Cardinality(inflight') \in Nat
    BY <2>3, FS_CardinalityType
  <2>7. CASE promise[a.id] # "accepted"
    <3>1. Cardinality(inflight') <= sent' + Cardinality(carried' \ Out')
      BY <1>1, <1>2, <2>1, <2>3, <2>4, <2>7
    <3>2. QED  BY <2>3, <2>4, <3>1 DEF Counts
  <2>8. CASE promise[a.id] = "accepted" /\ a.id \in inflight
    <3>1. Cardinality(inflight') <= sent' + Cardinality(carried' \ Out')
      BY <1>1, <1>2, <2>3, <2>4, <2>5, <2>8
    <3>2. QED  BY <2>3, <2>4, <3>1 DEF Counts
  <2>9. CASE promise[a.id] = "accepted" /\ a.id \notin inflight
    <3>1. a.type \in {"PUBACK", "PUBCOMP"}
      BY <1>7 DEF FinishedStep
    <3>2. a.id \in carried /\ a.id \in Out
      BY <2>1, <2>9, <3>1 DEF Claims, Claim, Out
    <3>3. carried' \ Out' = (carried \ Out) \cup {a.id} /\ a.id \notin carried \ Out
      BY <2>1, <2>2, <3>2
    <3>4. Cardinality(carried' \ Out') = Cardinality(carried \ Out) + 1
      BY <1>2, <3>3, FS_AddElement
    <3>5. Cardinality(inflight') <= sent' + Cardinality(carried' \ Out')
      BY <1>1, <1>2, <2>3, <2>5, <2>9, <3>4
    <3>6. QED  BY <2>3, <2>4, <3>5 DEF Counts
  <2>10. QED  BY <2>7, <2>8, <2>9
<1>8. CASE ConnectedStep
  <2>1. sent' = 0 /\ inflight' = {} /\ IsFiniteSet(carried')
    BY <1>8, CarriedFinite DEF ConnectedStep, CounterReset
  <2>2. IsFiniteSet(inflight') /\ Cardinality(inflight') = 0
    BY <2>1, FS_EmptySet
  <2>3. Cardinality(carried' \ Out') \in Nat
    BY <2>1, FS_Difference, FS_CardinalityType
  <2>4. Cardinality(inflight') <= sent' + Cardinality(carried' \ Out')
    BY <2>1, <2>2, <2>3
  <2>5. QED  BY <2>1, <2>2, <2>4 DEF Counts
<1>9. QED  BY <1>5, <1>6, <1>7, <1>8, QuotaMoves

QuotaInv == Version5 => Claims /\ Counts

\* The counter covers every publish that is unanswered on the connection, and the
\* messages whose answers would free quota are known (mqtt_client.c:874-900).
THEOREM QuotaSound == Spec => []QuotaInv
<1>1. Init => QuotaInv
  <2> SUFFICES ASSUME Init, Version5 PROVE Claims /\ Counts
    BY DEF QuotaInv
  <2>1. Items = {} /\ Packets = {} /\ Replies = {} /\ inflight = {} /\ carried = {} /\ sent = 0
    BY DEF Init, Items, Packets, Replies, Range
  <2>2. /\ IsFiniteSet(inflight) /\ IsFiniteSet(carried) /\ Cardinality(inflight) = 0
        /\ carried \ Out = {} /\ Cardinality(carried \ Out) = 0
    BY <2>1, FS_EmptySet
  <2>3. Counts
    BY <2>1, <2>2 DEF Counts
  <2>4. QED  BY <2>1, <2>3 DEF Claims
<1>2. /\ DataInv /\ IdInv /\ WriteInv /\ QuotaInv /\ (DataInv /\ IdInv /\ WriteInv)' /\ [Next]_vars
      => QuotaInv'
  <2> SUFFICES ASSUME DataInv, IdInv, WriteInv, Claims, Counts, Version5, [Next]_vars,
                      (DataInv /\ IdInv /\ WriteInv)'
               PROVE  Claims' /\ Counts'
    BY DEF QuotaInv
  <2>1. Steps
    BY StepsComplete
  <2>2. Counts'
    BY <2>1, CountStep
  <2>3. \A n \in Items' : n \in Item /\ SoundItem(n)
    <3>1. outbox' \in Seq(Item) /\ \A k \in DOMAIN outbox' : SoundItem(outbox'[k])
      BY DEF DataInv, SoundBox
    <3>2. \A k \in DOMAIN outbox' : outbox'[k] \in Item
      BY <3>1
    <3>3. QED  BY <3>1, <3>2 DEF Items, Range
  <2>4. \A n \in Items' : n.type = "PUBLISH" /\ n.pending # "QUEUED" => Claim(n.id)'
    <3>1. \A n \in Items' : n.type = "PUBLISH" /\ n.pending # "QUEUED" => n.id \in Ids
      BY <2>3 DEF Item, SoundItem
    <3>2. QED  BY <2>1, <3>1, ItemClaims
  <2>5. \A p \in Packets' : Claiming(p) => Claim(p.id)'
    BY <2>1, PacketClaims
  <2>6. \A a \in Replies' : a.type \in {"PUBACK", "PUBREC", "PUBCOMP"} => Claim(a.id)'
    BY <2>1, ReplyClaims
  <2>7. QED  BY <2>2, <2>4, <2>5, <2>6 DEF Claims, Claiming
<1>3. QED  BY <1>1, <1>2, WritesSound, PTL DEF Spec

\* The client never has more publishes above QoS 0 unanswered on a connection than
\* the broker's Receive Maximum, but for the PUBRELs it carried over, whatever is
\* retransmitted, expires or is cut off meanwhile (mqtt_client.c:874-900, 2120-2135).
THEOREM WithinReceiveMaximumAlways == Spec => []WithinReceiveMaximum
<1>1. DataInv /\ QuotaInv => WithinReceiveMaximum
  <2> SUFFICES ASSUME DataInv, Counts, Version5
               PROVE  Cardinality(inflight) <= ReceiveMaximum + Cardinality(carried)
    BY DEF QuotaInv, WithinReceiveMaximum
  <2>1. sent \in 0 .. ReceiveMaximum /\ ReceiveMaximum \in Nat
    BY BoundAssumption DEF DataInv
  <2>2. /\ IsFiniteSet(inflight) /\ IsFiniteSet(carried)
        /\ Cardinality(inflight) <= sent + Cardinality(carried \ Out)
    BY DEF Counts
  <2>3. carried \ Out \in SUBSET carried
    OBVIOUS
  <2>4. /\ Cardinality(carried \ Out) <= Cardinality(carried) /\ IsFiniteSet(carried \ Out)
    BY <2>2, <2>3, FS_Subset
  <2>5. Cardinality(inflight) \in Nat /\ Cardinality(carried) \in Nat /\ Cardinality(carried \ Out) \in Nat
    BY <2>2, <2>4, FS_CardinalityType
  <2>6. QED  BY <2>1, <2>2, <2>4, <2>5
<1>2. QED  BY <1>1, WritesSound, QuotaSound, PTL

\* While messages do not expire: whatever is counted is unanswered, a message that
\* waits to be sent is not counted, and on a connection everything that is
\* unanswered still is in the outbox, so that its answer frees what it took.
Returnable ==
    /\ sent <= Cardinality(inflight)
    /\ \A i \in Items : i.type = "PUBLISH" /\ i.pending = "QUEUED" => i.id \notin inflight
    /\ link # "closed" => inflight \subseteq Out
    /\ link = "closed" => Replies = {}

\* A message that waits to be sent after a step is not counted.
LEMMA QueuedItems ==
    ASSUME DataInv, IdInv, WriteInv, Returnable, Steps,
           NEW n \in Items', n.type = "PUBLISH", n.pending = "QUEUED", n.id \in Ids
    PROVE  n.id \notin inflight'
<1>1. /\ \A i \in Items : i \in Item /\ SoundItem(i)
      /\ "TRANSMITTED" \in PendingStates /\ "ACKNOWLEDGED" \in PendingStates
  BY ItemsSound DEF PendingStates
<1>2. n.id # NoId
  BY IdsAssumption
<1>3. ASSUME n \in Items, inflight' \subseteq inflight PROVE n.id \notin inflight'
  BY <1>3 DEF Returnable
<1>4. CASE ConnectedStep
  BY <1>4 DEF ConnectedStep
<1>5. CASE CutStep \/ PlainStep \/ LostStep \/ Qos0Step \/ PurgeStep
  BY <1>2, <1>3, <1>5 DEF CutStep, PlainStep, LostStep, Qos0Step, PurgeStep, Keeps, NewItem, Quiet
<1>6. ASSUME NEW x \in FreshIds, UnsentStep(x) PROVE n.id \notin inflight'
  <2>1. inflight' = inflight /\ (n \in Items \/ n.id = x)
    BY <1>6 DEF UnsentStep, Keeps, NewItem
  <2>2. x \notin inflight
    BY DEF FreshIds, WriteInv
  <2>3. QED  BY <1>3, <2>1, <2>2
<1>7. ASSUME NEW x \in FreshIds, SentStep(x) PROVE n.id \notin inflight'
  <2> DEFINE item == NewItem(x, "PUBLISH", QosOf[x])
  <2>1. n \in Items \/ n.pending = "TRANSMITTED"
    BY <1>7 DEF SentStep, Keeps, NewItem
  <2>2. n \in Items /\ n.id # x
    BY <2>1, FreshItem
  <2>3. Counted(item)
    BY <1>7 DEF SentStep
  <2>4. item.id = x
    BY DEF NewItem
  <2> HIDE DEF item
  <2>5. inflight' \subseteq inflight \cup {x}
    BY <2>3, <2>4, CountedItem
  <2>6. QED  BY <2>2, <2>5 DEF Returnable
<1>8. ASSUME NEW x, NEW type \in Requests, RequestStep(x, type) PROVE n.id \notin inflight'
  BY <1>3, <1>8 DEF RequestStep, Keeps, NewItem, Requests, Quiet
<1>9. ASSUME NEW i \in Items, ResentStep(i) PROVE n.id \notin inflight'
  <2>1. /\ Counted(i)
        /\ Items' \subseteq IF i.id = NoId THEN Items ELSE Marked(Items, i.id, "TRANSMITTED")
    BY <1>9 DEF ResentStep, Keeps
  <2>2. inflight' \subseteq inflight \cup {i.id}
    BY <2>1, CountedItem
  <2>3. n \in Items /\ n.id # i.id
    <3>1. CASE i.id = NoId
      BY <1>2, <2>1, <3>1
    <3>2. CASE i.id # NoId
      BY <1>1, <2>1, <3>2, MarkedIn
    <3>3. QED  BY <3>1, <3>2
  <2>4. QED  BY <2>2, <2>3 DEF Returnable
<1>10. ASSUME NEW i \in Items, RetransmitStep(i) PROVE n.id \notin inflight'
  <2>1. Retried(i).pending = i.pending
    BY <1>1, RetriedItem
  <2>2. /\ n \in Items \/ n = Retried(i)
        /\ i.pending = "TRANSMITTED" /\ inflight' = inflight
    BY <1>10 DEF RetransmitStep, Keeps, Quiet
  <2>3. QED  BY <1>3, <2>1, <2>2
<1>11. ASSUME NEW i, PubrelStep(i) \/ ExpiredStep(i) PROVE n.id \notin inflight'
  BY <1>3, <1>11 DEF PubrelStep, ExpiredStep, Keeps, Quiet
<1>12. ASSUME NEW a, TakenStep(a) \/ FinishedStep(a) PROVE n.id \notin inflight'
  BY <1>3, <1>12 DEF TakenStep, FinishedStep, Keeps
<1>13. ASSUME NEW a, AckedStep(a) PROVE n.id \notin inflight'
  <2>1. n \in Marked(Items, a.id, "ACKNOWLEDGED") /\ inflight' = inflight
    BY <1>13 DEF AckedStep, Keeps
  <2>2. n \in Items
    BY <1>1, <2>1, MarkedIn
  <2>3. QED  BY <1>3, <2>1, <2>2
<1>14. ASSUME NEW p, BrokerStep(p) PROVE n.id \notin inflight'
  BY <1>3, <1>14 DEF BrokerStep, Keeps
<1>15. CASE UNCHANGED data
  BY <1>3, <1>15 DEF data, Items
<1>16. QED
  BY <1>4, <1>5, <1>6, <1>7, <1>8, <1>9, <1>10, <1>11, <1>12, <1>13, <1>14, <1>15 DEF Steps

LEMMA ReturnStep ==
    ASSUME DataInv, IdInv, WriteInv, Counts, Returnable, Steps, Version5, ~Expires
    PROVE  /\ sent' <= Cardinality(inflight')
           /\ link' # "closed" => inflight' \subseteq Out'
           /\ link' = "closed" => Replies' = {}
<1>1. /\ sent \in Nat /\ IsFiniteSet(inflight) /\ Cardinality(inflight) \in Nat
      /\ sent <= Cardinality(inflight)
  BY BoundAssumption, FS_CardinalityType DEF DataInv, Counts, Returnable
<1>2. link' = "closed" => Replies' = {}
  <2>1. CASE ~\E p \in Packets : BrokerStep(p)
    <3>1. link = "closed" => Replies = {}
      BY DEF Returnable
    <3>2. QED  BY <2>1, <3>1, RepliesKept
  <2>2. ASSUME NEW p \in Packets, BrokerStep(p), link' = "closed" PROVE Replies' = {}
    <3>1. link = "closed"
      BY <2>2 DEF BrokerStep
    <3>2. \A a \in Replies' : a \in Replies
      BY <2>2, <3>1, BrokerReply
    <3>3. QED  BY <3>1, <3>2 DEF Returnable
  <2>3. QED  BY <2>1, <2>2
<1>3. CASE Uncharged
  BY <1>1, <1>2, <1>3 DEF Uncharged, PromisesKept, Returnable, Out
<1>4. ASSUME NEW id, Charged(id)
      PROVE  sent' <= Cardinality(inflight') /\ (link' # "closed" => inflight' \subseteq Out')
  <2>1. /\ id \in Ids /\ sent' = sent + 1 /\ inflight' = inflight \cup {id}
        /\ promise'[id] = "accepted" /\ PromisesKept
    BY <1>4 DEF Charged
  <2>2. id \notin inflight
    BY <1>4 DEF Charged, Returnable, WriteInv
  <2>3. Cardinality(inflight') = Cardinality(inflight) + 1
    BY <1>1, <2>1, <2>2, FS_AddElement
  <2>4. link' # "closed" => inflight' \subseteq Out'
    BY <2>1 DEF PromisesKept, Returnable, Out
  <2>5. QED  BY <1>1, <2>1, <2>3, <2>4
<1>5. ASSUME NEW a \in Replies, FinishedStep(a)
      PROVE  sent' <= Cardinality(inflight') /\ (link' # "closed" => inflight' \subseteq Out')
  <2>1. /\ a.id \in Ids
        /\ \A id \in Ids : id # a.id => promise'[id] = promise[id]
        /\ promise[a.id] = "accepted" => Uncounted
        /\ promise[a.id] # "accepted" => sent' = sent
        /\ inflight' = inflight \ {a.id}
    BY <1>5, FinishedPromises
  <2>2. inflight \subseteq Out
    BY <1>5 DEF Returnable
  <2>3. inflight' \subseteq Out'
    BY <2>1, <2>2 DEF Out
  <2>4. Cardinality(inflight') = IF a.id \in inflight THEN Cardinality(inflight) - 1
                                 ELSE Cardinality(inflight)
    BY <1>1, <2>1, FS_RemoveElement
  <2>5. IsFiniteSet(inflight')
    BY <1>1, <2>1, FS_RemoveElement
  <2>6. Cardinality(inflight') \in Nat
    BY <2>5, FS_CardinalityType
  <2>7. CASE promise[a.id] = "accepted"
    <3>1. sent' = IF sent > 0 THEN sent - 1 ELSE sent
      BY <2>1, <2>7 DEF Uncounted
    <3>2. QED  BY <1>1, <2>3, <2>4, <2>6, <3>1
  <2>8. CASE promise[a.id] # "accepted"
    <3>1. a.id \notin inflight /\ sent' = sent
      BY <2>1, <2>2, <2>8 DEF Out
    <3>2. QED  BY <1>1, <2>3, <2>4, <3>1
  <2>9. QED  BY <2>7, <2>8
<1>6. CASE ConnectedStep
  <2>1. sent' = 0 /\ inflight' = {}
    BY <1>6 DEF ConnectedStep, CounterReset
  <2>2. Cardinality(inflight') = 0
    BY <2>1, FS_EmptySet
  <2>3. QED  BY <1>2, <2>1, <2>2
<1>7. QED  BY <1>2, <1>3, <1>4, <1>5, <1>6, QuotaMoves

ReturnInv ==
    /\ Version5 /\ ~Expires => Returnable
    /\ ~Version5 => sent = 0

\* Until messages expire, what the counter holds is what the broker still has to
\* answer (mqtt_client.c:2122-2156).
THEOREM ReturnSound == Spec => []ReturnInv
<1>1. Init => ReturnInv
  <2> SUFFICES ASSUME Init PROVE ReturnInv
    OBVIOUS
  <2>1. Items = {} /\ Replies = {} /\ inflight = {} /\ sent = 0
    BY DEF Init, Items, Replies, Range
  <2>2. Cardinality(inflight) = 0
    BY <2>1, FS_EmptySet
  <2>3. QED  BY <2>1, <2>2 DEF ReturnInv, Returnable
<1>2. DataInv /\ IdInv /\ WriteInv /\ QuotaInv /\ ReturnInv /\ DataInv' /\ [Next]_vars => ReturnInv'
  <2> SUFFICES ASSUME DataInv, IdInv, WriteInv, QuotaInv, ReturnInv, DataInv', [Next]_vars
               PROVE  ReturnInv'
    OBVIOUS
  <2>1. Steps
    BY StepsComplete
  <2>2. ASSUME Version5, ~Expires PROVE Returnable'
    <3>1. Returnable /\ Counts
      BY <2>2 DEF ReturnInv, QuotaInv
    <3>2. \A n \in Items' : n.type = "PUBLISH" /\ n.pending = "QUEUED" => n.id \notin inflight'
      <4>1. inflight' \subseteq Ids
        BY DEF DataInv
      <4>2. QED  BY <2>1, <3>1, <4>1, QueuedItems
    <3>3. QED  BY <2>1, <2>2, <3>1, <3>2, ReturnStep DEF Returnable
  <2>3. ASSUME ~Version5 PROVE sent' = 0
    <3>1. sent = 0
      BY <2>3 DEF ReturnInv
    <3>2. CASE Uncharged
      BY <3>1, <3>2 DEF Uncharged
    <3>3. ASSUME NEW id, Charged(id) PROVE sent' = 0
      BY <2>3, <3>1, <3>3 DEF Charged
    <3>4. ASSUME NEW a \in Replies, FinishedStep(a) PROVE sent' = 0
      BY <3>1, <3>4, FinishedPromises DEF Uncounted
    <3>5. CASE ConnectedStep
      BY <2>3, <3>1, <3>5 DEF ConnectedStep, CounterReset
    <3>6. QED  BY <2>1, <3>2, <3>3, <3>4, <3>5, QuotaMoves
  <2>4. QED  BY <2>2, <2>3 DEF ReturnInv
<1>3. QED  BY <1>1, <1>2, WritesSound, QuotaSound, PTL DEF Spec

\* While no message expires, the counter is at its limit only as long as the broker
\* owes an answer: a message that waits for quota is not stuck behind a count that
\* nothing will free (include/mqtt_client.h:573-574; mqtt_client.c:2122-2156).
THEOREM QuotaAlwaysReturned == Spec => [](~Expires => QuotaReturned)
<1>1. DataInv /\ QuotaInv /\ ReturnInv /\ ~Expires => QuotaReturned
  <2> SUFFICES ASSUME DataInv, QuotaInv, ReturnInv, ~Expires, sent >= ReceiveMaximum, inflight = {}
               PROVE  FALSE
    BY DEF QuotaReturned
  <2>1. sent > 0
    BY BoundAssumption DEF DataInv
  <2>2. Cardinality(inflight) = 0
    BY FS_EmptySet
  <2>3. sent <= Cardinality(inflight)
    BY <2>1 DEF ReturnInv, Returnable
  <2>4. QED  BY <2>1, <2>2, <2>3 DEF DataInv
<1>2. QED  BY <1>1, WritesSound, QuotaSound, ReturnSound, PTL
=============================================================================
