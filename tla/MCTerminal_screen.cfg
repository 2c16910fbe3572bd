\* Three rows, a scrollback of three, every sequence and the timer.
SPECIFICATION Spec
CONSTANTS
    Rows = 3
    Scrollback = 3
    Text = {"blank", "text"}
    Space = "blank"
    Regions <- MCRegions
    MaxOps = 4
INVARIANTS TypeOK NothingElseThrows BufferBounded Displayed
PROPERTY HistoryKept
