\* Two widths, and a cursor that gets behind both.
SPECIFICATION Spec
CONSTANTS
    Columns <- MCColumns
    MaxX = 4
INVARIANTS  Solid
