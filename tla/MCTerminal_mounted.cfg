\* A scroll region below the last row.
SPECIFICATION Spec
CONSTANTS
    Rows = 3
    Scrollback = 2
    Text = {"blank", "text"}
    Space = "blank"
    Regions <- MCRegions
    MaxOps = 5
INVARIANT RowsStayMounted
