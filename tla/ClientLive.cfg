\* Stopping, a dead connection, and a stored message that is published in the end.
CONSTANTS
    m1 = m1
    m2 = m2
    m3 = m3
    c1 = c1
    c2 = c2
    Ids = {m2}
    NoId = NoId
    QosOf <- MCQosOf
    Callers = {c1}
    Calls = {"start", "stop", "enqueue"}
    SendsQos0 = FALSE
    Version5 = FALSE
    CleanSession = FALSE
    AutoReconnect = TRUE
    Refreshes = FALSE
    Expires = FALSE
    Timely = TRUE
    ReceiveMaximum = 1
    OutboxMax = 1
    ChannelMax = 2
    MaxFaults = 1
SPECIFICATION FairSpec
PROPERTIES PublishSettles StopReturns DeadLinkFound
