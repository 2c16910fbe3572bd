\* Two copiers, a rune that a read can cut, a socket with room for one frame and a
\* half, and a client frame of every kind.
CONSTANTS
    Byte <- MCByte
    PatternLen = 2
    IgnoredInputs <- MCIgnoredInputs
    BufLen = 2
    MaxOut = 2
    Wide <- MCWide
    Mode = "text"
    PtyCap = 2
    InCap = 1
    NetCap = 3
    MaxPayload = 3
    ClientFrames <- MCFrames
    MaxSent = 1
SPECIFICATION Spec
INVARIANTS
    TypeOK
    WellFramed
    NoOutputTwice
    NoOutputLost
    CopierInOrder
    RuneWholeOrReplaced
    InputFaithful
    TornDownInOrder
PROPERTIES
    ImplementsPipe
