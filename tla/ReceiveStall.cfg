\* A payload that stops in the middle is acknowledged.
CONSTANTS
    Packets <- LongPayload
    BufferLength = 9
    Prompt = FALSE
    Stalls = TRUE
    MaxPackets = 2
SPECIFICATION Spec
CHECK_DEADLOCK FALSE
INVARIANTS AnsweredWhole
