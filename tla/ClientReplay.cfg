\* A SUBSCRIBE stored after its connection ended is sent on the next one.
CONSTANTS
    m1 = m1
    m2 = m2
    m3 = m3
    c1 = c1
    c2 = c2
    Ids = {m1}
    NoId = NoId
    QosOf <- MCQosOf
    Callers = {c1}
    Calls = {"start", "stop", "SUBSCRIBE"}
    SendsQos0 = FALSE
    Version5 = FALSE
    CleanSession = TRUE
    AutoReconnect = TRUE
    Refreshes = FALSE
    Expires = FALSE
    Timely = FALSE
    ReceiveMaximum = 1
    OutboxMax = 1
    ChannelMax = 1
    MaxFaults = 1
SPECIFICATION Spec
INVARIANTS NoReplayedRequest
