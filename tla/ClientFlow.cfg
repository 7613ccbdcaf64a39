\* MQTT 5: the Receive Maximum of the broker, over a reconnect.
CONSTANTS
    m1 = m1
    m2 = m2
    m3 = m3
    c1 = c1
    c2 = c2
    Ids = {m1, m2}
    NoId = NoId
    QosOf <- MCQosOf
    Callers = {c1}
    Calls = {"start", "stop", "enqueue"}
    SendsQos0 = TRUE
    Version5 = TRUE
    CleanSession = FALSE
    AutoReconnect = TRUE
    Refreshes = FALSE
    Expires = FALSE
    Timely = FALSE
    ReceiveMaximum = 1
    OutboxMax = 3
    ChannelMax = 1
    MaxFaults = 1
SPECIFICATION Spec
INVARIANTS TypeOK WithinReceiveMaximum QuotaReturned DupMarksRetry
PROPERTIES DeliveryKept
