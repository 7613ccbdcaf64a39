\* A fragmented message is stored, and a small one published.
CONSTANTS
    Versions = {FALSE}
    Blocks = {0}
    Calls = {"connect", "publish", "enqueue"}
    Topics = {1, 6}
    Payloads = {0, 1, 5}
    Enqueued = {0, 1, 5, 6, 30, 122}
    BufferLength = 20
    MaxCalls = 3
    TopicMax = 6
    HostSize = 9
    LabelMax = 3
    StringMax = 4
    NoText = NoText
SPECIFICATION Spec
CHECK_DEADLOCK FALSE
INVARIANTS PacketWhole
