SPECIFICATION FairSpec
CONSTANTS
    Width = 2
    FifoDepth = 2
    MaxPayload = 3
    Payloads <- MCPayloads
    Addresses <- MCAddresses
    Batch = 2
INVARIANTS
    TypeOK
    IdleLevels
    StatusAgreesWithPins
PROPERTIES
    FramesKept
    SpiFrameEnds
    UartDelivered
