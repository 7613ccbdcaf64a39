\* Subscriptions, acknowledgements, publishes and reconnects; no inbound message.
CONSTANTS
    fa = fa
    fb = fb
    i1 = i1
    i2 = i2
    i3 = i3
    Filters = {fa, fb}
    NoFilter = NoFilter
    QosOf <- MCQosOf
    ConfigSubs <- MCOneSub
    SubscriptionsMax = 2
    Ids = {i1, i2, i3}
    NoId = NoId
    OutboxLimit = 0
    MessageSlots = 1
    NoticeCapacity = 2
    PayloadMax = 0
    InboundLengths = {}
    StopMayFail = FALSE
SPECIFICATION Spec
INVARIANTS TypeOK ReadyMeansSubscribed ControlInv
PROPERTIES OnlyAcknowledgedChange
SYMMETRY IdSymmetry
