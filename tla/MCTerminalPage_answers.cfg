\* A query, and a reset before its reply is sent.
CONSTANTS
    OpenSize <- MCOpenSize
    Geometries <- MCTwo
    MaxMessages = 2
    MaxKeys = 0
    MaxAsked = 1
SPECIFICATION Spec
INVARIANTS
    QueriesAnswered
