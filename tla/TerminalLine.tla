---------------------------- MODULE TerminalLine ----------------------------
(***************************************************************************)
(* One line of the terminal emulator (xterm.js): an array whose elements   *)
(* are cells, and the column of the cursor, which an assignment behind the *)
(* end of the array, a splice, a pop and a change of the width act on.     *)
(* JavaScript leaves the elements between the old end and an assigned one  *)
(* missing, and reading a property of a missing one throws.                *)
(*                                                                         *)
(* The cursor may be on another line, where it moves all the same.  What a *)
(* cell shows is left out; Terminal has the rows.                          *)
(***************************************************************************)
EXTENDS Integers, Sequences, SequencesExt

CONSTANTS
    Columns,    \* the widths the terminal has, by fit and by mode 3
    MaxX        \* bound: the column that the cursor gets to

ASSUME LineAssumption ==
    /\ Columns \subseteq Nat \ {0} /\ Columns # {}
    /\ MaxX \in Nat /\ \A c \in Columns : c < MaxX

VARIABLES
    line,       \* the array: "cell" or "hole" at each index
    cols,       \* term.cols
    x,          \* the cursor's column, from 0
    here,       \* the cursor is on this line
    savedX,     \* savedX, 0 when it is not set
    insertMode, wraparoundMode,
    normal,     \* the line and x of the saved normal screen, or NoScreen
    gapped,     \* history: a line was written to behind its end
    thrown      \* history: a missing cell has been read

vars == <<line, cols, x, here, savedX, insertMode, wraparoundMode, normal, gapped,
          thrown>>

Cells == {"cell", "hole"}
NoScreen == [line |-> <<>>]

-----------------------------------------------------------------------------
(* Arrays *)

blankLine(width) == [i \in 1 .. width |-> "cell"]

\* line[j] = ch, for j in from .. to: the array grows, and what is between its
\* old end and `from' is missing.
Assigned(l, from, to) ==
    IF from > to THEN l
    ELSE [i \in 1 .. (IF to < Len(l) THEN Len(l) ELSE to + 1) |->
             IF i - 1 \in from .. to THEN "cell"
             ELSE IF i <= Len(l) THEN l[i] ELSE "hole"]

\* splice(j, 0, ch) and splice(j, 1): an index behind the end is the end.
Inserted(l, j) == InsertAt(l, IF j < Len(l) THEN j + 1 ELSE Len(l) + 1, "cell")
Deleted(l, j)  == IF j < Len(l) THEN RemoveAt(l, j + 1) ELSE l
Popped(l)      == IF l = <<>> THEN l ELSE Front(l)

\* What pop gives is no cell.
PopsNothing(l) == l = <<>> \/ Last(l) = "hole"

\* The line after k rounds of insert mode's loop at column j, of which a character
\* of two columns makes two.
MovedOn(l, j) == Inserted(Popped(l), j)
Moved(l, j, k) == CASE k = 0 -> l [] k = 1 -> MovedOn(l, j)
                    [] k = 2 -> MovedOn(MovedOn(l, j), j)

-----------------------------------------------------------------------------
\* The page after createTerminal and fit.
Init ==
    /\ cols \in Columns /\ line = blankLine(cols)
    /\ x = 0 /\ here \in BOOLEAN /\ savedX = 0
    /\ insertMode = FALSE /\ wraparoundMode = TRUE
    /\ normal = NoScreen /\ gapped = FALSE /\ thrown = FALSE

\* What changes only the line, and only if the cursor is on it.
Edits(l) ==
    /\ line' = IF here THEN l ELSE line
    /\ UNCHANGED <<cols, x, here, savedX, insertMode, wraparoundMode, normal, gapped,
                   thrown>>

\* The cursor goes to a column, of the same line or of any.
Moves(column, lines) ==
    /\ x' = column /\ here' \in lines
    /\ UNCHANGED <<line, cols, savedX, insertMode, wraparoundMode, normal, gapped,
                   thrown>>

\* A character of w columns.  It wraps if it would overflow, and the cursor is on
\* some line then, or it is put into the last column.  A combining character
\* gets here in the first column only.  Insert mode makes room by taking the
\* last cell off, once for each column, and throws if there is none.
PutChar ==
    \E w \in 0 .. 2, there \in BOOLEAN :
        LET over  == x + w - 1 >= cols
            wraps == over /\ wraparoundMode
            at    == IF wraps THEN 0 ELSE IF over THEN cols - 1 ELSE x
            on    == IF wraps THEN there ELSE here
            next  == at + (IF w = 2 THEN 2 ELSE 1)
            moves == IF insertMode THEN w ELSE 0
            fails == {k \in 1 .. moves : on /\ PopsNothing(Moved(line, at, k - 1))}
        IN  /\ w = 0 => x = 0
            /\ wraps \/ ~there
            /\ here' = on
            /\ IF over /\ ~wraparoundMode /\ w = 2
               THEN x' = at /\ UNCHANGED <<line, thrown>>
               ELSE IF fails # {}
               THEN /\ x' = at /\ thrown' = TRUE
                    /\ line' = Popped(Moved(line, at, (CHOOSE k \in fails :
                                                  \A j \in fails : k <= j) - 1))
               ELSE /\ x' = next /\ UNCHANGED thrown
                    /\ line' = IF on THEN Assigned(Moved(line, at, moves), at, next - 1)
                               ELSE line
            /\ UNCHANGED <<cols, savedX, insertMode, wraparoundMode, normal, gapped>>

\* cursorForward, HPositionRelative, charPosAbsolute, cursorPos, HVPosition,
\* cursorNextLine, cursorPrecedingLine, the tabs, CR: the cursor is within the
\* width afterwards.
MoveWithin == \E column \in 0 .. cols - 1 : Moves(column, BOOLEAN)


\* BS and cursorBackward, which leave the cursor behind the last column if it
\* was further behind.
CursorBackward == \E n \in 1 .. x : Moves(x - n, {here})

\* CSI G: the column is not compared with the width.
CursorCharAbsolute == \E column \in 0 .. MaxX : Moves(column, {here})

SaveCursor ==
    /\ savedX' = x
    /\ UNCHANGED <<line, cols, x, here, insertMode, wraparoundMode, normal, gapped, thrown>>

\* savedX may be of another width.
RestoreCursor == Moves(savedX, BOOLEAN)

\* The row changes: cursorUp, cursorDown, linePosAbsolute, LF without a scroll.
MoveRow == Moves(x, BOOLEAN)

\* eraseChars, and eraseRight to the end of the line.
EraseRight == \E to \in x .. cols - 1 : Edits(Assigned(line, x, to))

EraseLeft == x < MaxX /\ Edits(Assigned(line, 0, x))

\* eraseLine, by the erasures of several rows.
EraseLine ==
    /\ line' = Assigned(line, 0, cols - 1)
    /\ UNCHANGED <<cols, x, here, savedX, insertMode, wraparoundMode, normal, gapped, thrown>>

InsertChars == x < cols /\ Edits(Popped(Inserted(line, x)))

DeleteChars == Len(line) <= MaxX /\ Edits(Append(Deleted(line, x), "cell"))

\* CSI b: the assignment is behind the end if the cursor is.
RepeatPrecedingCharacter ==
    /\ x < MaxX
    /\ x' = x + 1
    /\ line' = IF here THEN Assigned(line, x, x) ELSE line
    /\ gapped' = (gapped \/ (here /\ x > Len(line)))
    /\ UNCHANGED <<cols, here, savedX, insertMode, wraparoundMode, normal, thrown>>

\* scroll, insertLines and the like: a new line, which is the one to look at from
\* now on.
BlankLine ==
    /\ line' = blankLine(cols) /\ here' \in BOOLEAN
    /\ UNCHANGED <<cols, x, savedX, insertMode, wraparoundMode, normal, gapped, thrown>>

\* Modes 4 and 7.
SetModes ==
    /\ insertMode' \in BOOLEAN /\ wraparoundMode' \in BOOLEAN
    /\ UNCHANGED <<line, cols, x, here, savedX, normal, gapped, thrown>>

\* CSI ! p, which turns the wrapping off.
SoftReset ==
    /\ insertMode' = FALSE /\ wraparoundMode' = FALSE
    /\ x' = 0 /\ here' \in BOOLEAN
    /\ UNCHANGED <<line, cols, savedX, normal, gapped, thrown>>

\* The constructor again, on the same width.
Reset(saved) ==
    /\ line' = blankLine(cols) /\ x' = 0 /\ here' \in BOOLEAN
    /\ insertMode' = FALSE /\ wraparoundMode' = TRUE
    /\ normal' = saved
    /\ UNCHANGED <<cols, savedX, gapped, thrown>>

HardReset == Reset(NoScreen)

SetAlternate ==
    normal = NoScreen /\ Reset([line |-> line, x |-> x])

ResetAlternate ==
    /\ normal # NoScreen
    /\ line' = normal.line /\ x' = normal.x /\ here' \in BOOLEAN
    /\ normal' = NoScreen
    /\ UNCHANGED <<cols, savedX, insertMode, wraparoundMode, gapped, thrown>>

\* Mutant: the saved screen survives, with lines of the old width.
ResizeKeeping ==
    \E width \in Columns \ {cols} :
        /\ cols' = width
        /\ line' = IF cols < width THEN Assigned(line, Len(line), width - 1)
                   ELSE IF width < Len(line) THEN SubSeq(line, 1, width) ELSE line
        /\ x' = IF x >= width THEN width - 1 ELSE x
        /\ UNCHANGED <<here, savedX, insertMode, wraparoundMode, normal, gapped, thrown>>

\* resize to another width, by mode 3 or by fit: lines that are too short are
\* filled up when it grows, those too long are cut when it shrinks.  The saved
\* screen is forgotten.
Resize ==
    \E width \in Columns \ {cols} :
        /\ cols' = width
        /\ line' = IF cols < width THEN Assigned(line, Len(line), width - 1)
                   ELSE IF width < Len(line) THEN SubSeq(line, 1, width) ELSE line
        /\ x' = IF x >= width THEN width - 1 ELSE x
        /\ normal' = NoScreen
        /\ UNCHANGED <<here, savedX, insertMode, wraparoundMode, gapped, thrown>>

HasCell(i) == i <= Len(line) /\ line[i] = "cell"

\* The painting reads every cell within the width.
Paint ==
    /\ thrown' = (thrown \/ \E i \in 1 .. cols : ~HasCell(i))
    /\ UNCHANGED <<line, cols, x, here, savedX, insertMode, wraparoundMode, normal, gapped>>

Next ==
    \/ PutChar \/ MoveWithin \/ CursorBackward \/ CursorCharAbsolute
    \/ SaveCursor \/ RestoreCursor \/ MoveRow
    \/ EraseRight \/ EraseLeft \/ EraseLine
    \/ InsertChars \/ DeleteChars \/ RepeatPrecedingCharacter \/ BlankLine
    \/ SetModes \/ SoftReset \/ HardReset \/ SetAlternate \/ ResetAlternate
    \/ Resize \/ Paint

Spec == Init /\ [][Next]_vars

-----------------------------------------------------------------------------
(* Properties *)

\* The types of the variables: the cursor is never to the left of the line, and
\* a line has its bound.
TypeOK ==
    /\ line \in Seq(Cells) /\ Len(line) <= MaxX + 1
    /\ cols \in Columns /\ x \in 0 .. MaxX /\ savedX \in 0 .. MaxX
    /\ here \in BOOLEAN /\ insertMode \in BOOLEAN /\ wraparoundMode \in BOOLEAN
    /\ normal = NoScreen \/ normal \in [line : Seq(Cells), x : 0 .. MaxX]
    /\ gapped \in BOOLEAN /\ thrown \in BOOLEAN

\* Until a character is repeated behind the end of a line, every column of the
\* line has its cell, whatever is inserted, deleted, wrapped, reset and resized
\* in whichever order, the cursor being behind the last column or not, so that
\* neither the painting nor insert mode throws (insertChars, deleteChars, resize,
\* the insert mode of write, the two screens).
Solid == ~gapped => ~thrown /\ \A i \in 1 .. Len(line) \cup 1 .. cols : HasCell(i)
=============================================================================
