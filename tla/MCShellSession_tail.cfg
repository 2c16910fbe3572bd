\* The end of the output when bash exits.
CONSTANTS
    Byte <- MCByte
    PatternLen = 2
    IgnoredInputs <- MCIgnoredInputs
    BufLen = 2
    MaxOut = 1
    Wide <- MCNone
    Mode = "text"
    PtyCap = 2
    InCap = 1
    NetCap = 3
    MaxPayload = 3
    ClientFrames <- MCPaste
    MaxSent = 0
SPECIFICATION Spec
INVARIANTS
    OutputComplete
