\* Two tasks start, stop, disconnect, reconnect, publish and subscribe.
CONSTANTS
    m1 = m1
    m2 = m2
    m3 = m3
    c1 = c1
    c2 = c2
    Ids = {m1}
    NoId = NoId
    QosOf <- MCQosOf
    Callers = {c1, c2}
    Calls = {"start", "stop", "disconnect", "reconnect", "publish", "SUBSCRIBE", "UNSUBSCRIBE"}
    SendsQos0 = TRUE
    Version5 = FALSE
    CleanSession = TRUE
    AutoReconnect = FALSE
    Refreshes = TRUE
    Expires = TRUE
    Timely = FALSE
    ReceiveMaximum = 1
    OutboxMax = 1
    ChannelMax = 1
    MaxFaults = 1
SPECIFICATION Spec
INVARIANTS OneWorker
SYMMETRY CallerSymmetry
