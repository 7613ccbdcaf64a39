---------------------------- MODULE TopicAliases ----------------------------
(***************************************************************************)
(* What topic aliases promise to the application: a message that comes     *)
(* with an alias in place of its topic is shown with the topic the broker  *)
(* last gave that alias on this connection.                                *)
(***************************************************************************)
CONSTANTS Aliases, Topics, NoTopic

VARIABLES
    dictionary,  \* the topic of each alias, NoTopic if it has none
    shown        \* the topic of the last message the application was given

Empty == [alias \in Aliases |-> NoTopic]

Init == dictionary = Empty /\ shown = NoTopic

Define(alias, topic) == /\ dictionary' = [dictionary EXCEPT ![alias] = topic]
                        /\ shown' = topic

Use(alias) == /\ dictionary[alias] # NoTopic
              /\ shown' = dictionary[alias]
              /\ UNCHANGED dictionary

\* The connection ends, perhaps within a message that is not shown.
Reset == dictionary' = Empty /\ UNCHANGED shown

Next == \/ \E alias \in Aliases : Use(alias) \/ \E topic \in Topics : Define(alias, topic)
        \/ Reset

Spec == Init /\ [][Next]_<<dictionary, shown>>
=============================================================================
