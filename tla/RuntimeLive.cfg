\* What must happen in the end: waits end, losses end the session, messages leave.
CONSTANTS
    fa = fa
    fb = fb
    i1 = i1
    i2 = i2
    i3 = i3
    Filters = {fa}
    NoFilter = NoFilter
    QosOf <- MCQosOf
    ConfigSubs <- MCOneSub
    SubscriptionsMax = 1
    Ids = {i1}
    NoId = NoId
    OutboxLimit = 1
    MessageSlots = 2
    NoticeCapacity = 1
    PayloadMax = 1
    InboundLengths = {1}
    StopMayFail = FALSE
SPECIFICATION FairSpec
INVARIANTS NoSilentLoss
PROPERTIES WaitEnds LossEndsSession MessageConsumed
