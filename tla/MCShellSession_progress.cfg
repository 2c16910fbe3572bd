\* Two frames, each a message longer than the terminal's input queue or a ping,
\* with a browser that may stop reading and jobs left in the background.
CONSTANTS
    Byte <- MCByte
    PatternLen = 2
    IgnoredInputs <- MCIgnoredInputs
    BufLen = 2
    MaxOut = 1
    Wide <- MCNone
    Mode = "text"
    PtyCap = 1
    InCap = 1
    NetCap = 2
    MaxPayload = 3
    ClientFrames <- MCPaste
    MaxSent = 2
SPECIFICATION FairSpec
INVARIANTS
    InputFaithful
PROPERTIES
    ExitReleases
    InputDrains
