\* The order of the output across the two copiers.
CONSTANTS
    Byte <- MCByte
    PatternLen = 2
    IgnoredInputs <- MCIgnoredInputs
    BufLen = 2
    MaxOut = 2
    Wide <- MCWide
    Mode = "text"
    PtyCap = 2
    InCap = 1
    NetCap = 3
    MaxPayload = 3
    ClientFrames <- MCPaste
    MaxSent = 0
SPECIFICATION Spec
INVARIANTS
    OutputInOrder
