\* Three connections to brokers that say different things, two aliases and three
\* calls that set properties.  What is received and what is sent touch nothing in
\* common but the connection, so a program does one or the other.
CONSTANTS
    Programs = {{"receive"}, {"send"}}
    Aliases = {1, 2}
    Topics <- MCTopics
    Length <- MCLength
    NoTopic = NoTopic
    Connacks <- MCConnacks
    Unsaid = Unsaid
    Maxima = {0, 1, 2}
    MaxConnections = 3
    MaxSets = 3
SPECIFICATION Spec
CHECK_DEADLOCK FALSE
INVARIANTS TypeOK AliasesHeld ConnackKept OneTime
PROPERTIES AliasesPromised
