--------------------------- MODULE MCMqtt5Session ---------------------------
(***************************************************************************)
(* Small instances of Mqtt5Session for TLC.                                *)
(***************************************************************************)
EXTENDS Mqtt5Session, TLC

\* Two topics of the same length, and a longer one
MCTopics == {"a", "b", "cc"}
MCLength == [topic \in MCTopics |-> IF topic = "cc" THEN 2 ELSE 1]

\* A broker that says nothing, one that allows little and one that allows aliases
MCConnacks ==
    {Silent,
     [Silent EXCEPT !["receive_maximum"] = 1, !["max_qos"] = 1, !["retain_available"] = 0,
                    !["shared_subscribe_available"] = 0, !["topic_alias_maximum"] = 1],
     [Silent EXCEPT !["topic_alias_maximum"] = 2, !["shared_subscribe_available"] = 1]}
=============================================================================
