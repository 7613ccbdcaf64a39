---------------------------- MODULE MqttDelivery ----------------------------
(***************************************************************************)
(* What the client promises for the messages it stores, with nothing of    *)
(* connections, packets or the outbox.  promise is what became of each     *)
(* message, delivered how often the broker passed it on (2 is "more than   *)
(* once").                                                                 *)
(***************************************************************************)
EXTENDS Naturals

CONSTANTS Ids, QosOf, CleanSession

VARIABLES promise, delivered

vars == <<promise, delivered>>

Init == /\ promise = [i \in Ids |-> "none"]
        /\ delivered = [i \in Ids |-> 0]

Accept(i) ==
    /\ promise[i] = "none"
    /\ promise' = [promise EXCEPT ![i] = "accepted"]
    /\ UNCHANGED delivered

\* At least once at QoS 1; at QoS 2 once, as long as the broker remembers.
Deliver(i) ==
    /\ promise[i] # "none"
    /\ delivered[i] < IF QosOf[i] = 2 /\ ~CleanSession THEN 1 ELSE 2
    /\ delivered' = [delivered EXCEPT ![i] = @ + 1]
    /\ UNCHANGED promise

\* MQTT_EVENT_PUBLISHED: the broker has it.
Publish(i) ==
    /\ promise[i] = "accepted" /\ delivered[i] > 0
    /\ promise' = [promise EXCEPT ![i] = "published"]
    /\ UNCHANGED delivered

\* MQTT_EVENT_DELETED
Expire(i) ==
    /\ promise[i] = "accepted"
    /\ promise' = [promise EXCEPT ![i] = "deleted"]
    /\ UNCHANGED delivered

\* The client stops: everything unanswered is given up together.
Drop ==
    /\ promise' = [i \in Ids |-> IF promise[i] = "accepted" THEN "dropped" ELSE promise[i]]
    /\ UNCHANGED delivered

Next == \/ \E i \in Ids : Accept(i) \/ Deliver(i) \/ Publish(i) \/ Expire(i)
        \/ Drop

Spec == Init /\ [][Next]_vars
=============================================================================
