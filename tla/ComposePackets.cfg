\* Packets of every kind, composed after one another; what is enqueued fits.
\* Texts: topics of up to 6, host names of up to 8, labels of up to 3 and
\* properties of up to 4 characters.
CONSTANTS
    Versions = {FALSE, TRUE}
    Blocks = {0, 4}
    Calls = {"connect", "subscribe", "control", "publish", "hold", "enqueue", "enqueue_unstored", "no_memory"}
    Topics = {1, 6}
    Payloads = {0, 1, 6, 7, 11, 12, 122}
    Enqueued = {0, 1, 5}
    BufferLength = 26
    MaxCalls = 5
    TopicMax = 6
    HostSize = 9
    LabelMax = 3
    StringMax = 4
    NoText = NoText
SPECIFICATION Spec
CHECK_DEADLOCK FALSE
INVARIANTS
    TypeOK PacketWhole
    NamesByParts Utf8ByEncoding RoundTrip CredentialsKept
    PacketsReadBack BlockGuarded AcksRead
