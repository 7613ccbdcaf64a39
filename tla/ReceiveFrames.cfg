\* Packets of all sizes, cut anywhere; a payload may stall.
CONSTANTS
    Packets <- PlainPackets
    BufferLength = 9
    Prompt = TRUE
    Stalls = TRUE
    MaxPackets = 3
SPECIFICATION FairSpec
CHECK_DEADLOCK FALSE
INVARIANTS TypeOK FramesKept
PROPERTIES NotGivenUp FramesArrive
