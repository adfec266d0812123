SPECIFICATION Spec
CONSTANTS
    Keys = {"a"}
    LineLen = 2
    LongLines <- MCLong
    PacketLen = 2
    OutRoom = 2
    Size <- MCSize
    MaxAttempts = 1
    MaxSent = 5
    MaxLeaves = 1
INVARIANTS
    TypeOK
    ExecutedAsTyped
PROPERTIES
    PiecesInOrder
    WholeUnlessGivenUp
    ServiceRecurs
    InputTaken
