SPECIFICATION Spec

CONSTANTS
    Messages <- SomeMessages
    Ids = {19789}
    Key = 2
    Signature = 3
    Amount = 2
    MaxChunkData = 15
    MaxChunks = 3
    Patterns = {1, 2, 4, 8, 16, 32, 49, 64, 128, 255}
    MaxDamage = 1

INVARIANTS
    TypeOK
    ReceivedAsSent
    FittingArrives

\* A refused message is never sent.
CHECK_DEADLOCK FALSE
