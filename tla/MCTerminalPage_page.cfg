\* Attachment, keys, messages and replies, and the debounced painting.
CONSTANTS
    OpenSize <- MCOpenSize
    Geometries <- MCGeometries
    MaxMessages = 2
    MaxKeys = 2
    MaxAsked = 2
SPECIFICATION FairSpec
INVARIANTS
    TypeOK
    OneAttachment
    NeverThrows
    StaleRowsOrdered
    KeysSentOnce
    MessagesWrittenOnce
    RepliesInOrder
PROPERTIES
    DisplayCatchesUp
    QueueDrains
