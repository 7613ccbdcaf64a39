\* Messages, slots and the notice queue; no subscription, no publish.
CONSTANTS
    fa = fa
    fb = fb
    i1 = i1
    i2 = i2
    i3 = i3
    Filters = {}
    NoFilter = NoFilter
    QosOf <- MCQosOf
    ConfigSubs <- MCNoSubs
    SubscriptionsMax = 0
    Ids = {}
    NoId = NoId
    OutboxLimit = 0
    MessageSlots = 2
    NoticeCapacity = 3
    PayloadMax = 2
    InboundLengths = {0, 1, 2, 3}
    StopMayFail = TRUE
SPECIFICATION Spec
INVARIANTS SlotHasOneOwner NoSlotLost MessageHasBuffer QuietWhenStopped
