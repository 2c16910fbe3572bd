------------------------------ MODULE Terminal ------------------------------
(***************************************************************************)
(* The rows of the terminal emulator (xterm.js): the buffer of lines with  *)
(* its scrollback, the cursor's row, the scroll region, the two screens,   *)
(* and the rows of the DOM that are painted from the buffer later, by a    *)
(* timer.  Columns are left out (TerminalLine has them): a line is a text, *)
(* and whether a cell of it may be missing; a print may wrap.              *)
(*                                                                         *)
(* One call of write is a BeginWrite, an action per control sequence or    *)
(* character, and an EndWrite that orders the painting of the rows that    *)
(* updateRange has collected.  JavaScript runs to completion, so the user  *)
(* and the timer act between two writes.                                   *)
(*                                                                         *)
(* The number of rows does not change: the page calls resize only with the *)
(* geometry it measured before the first message, and the 132 column mode  *)
(* calls it with the same rows.                                            *)
(***************************************************************************)
EXTENDS Integers, Sequences, SequencesExt, RefreshQueue

CONSTANTS
    Rows,           \* term.rows
    Scrollback,     \* where scroll halves the buffer, 1000 in the program
    Text,           \* what the cells of a line may hold
    Space,          \* what the cells of a blank line hold
    Regions,        \* the parameters of CSI r, 0 if absent
    MaxOps          \* bound: control sequences and characters written

\* A line: its text, and whether it may lack a cell, having been written to
\* behind its end.
Content == [text : Text, gap : BOOLEAN]
Blank   == [text |-> Space, gap |-> FALSE]

ASSUME TerminalAssumption ==
    /\ Rows \in Nat \ {0} /\ Scrollback \in Nat \ {0, 1}
    /\ Space \in Text
    /\ Regions \subseteq [top : Nat, bottom : Nat]
    /\ MaxOps \in Nat

VARIABLES
    screen,     \* lines, ybase, ydisp, y, scrollTop and scrollBottom
    normal,     \* the saved normal screen, or NoScreen
    savedY,     \* savedY, 0 when it is not set
    cursor,     \* cursorState
    hidden,     \* cursorHidden
    writing,    \* inside write
    range,      \* refreshStart and refreshEnd, inside write
    painter,    \* the debounce of refresh
    dom,        \* what each row of the DOM shows
    mounted,    \* the rows are in the document
    thrown,     \* history: an exception has escaped to the event loop
    bad,        \* history: a scroll region off the screen has been set
    unmarked,   \* history: a row has changed that nothing marked, and the
                \* rows have not all been painted since
    shared,     \* the screens, "screen" and "normal", where lines may have a
                \* cell in common
    smeared,    \* history: a combining character has changed several lines
    gapped,     \* history: a line has been written to behind its end
    ops         \* history: how many sequences and characters were written

cellVars == <<shared, smeared, gapped>>
vars == <<screen, normal, savedY, cursor, hidden, writing, range, painter, dom,
          mounted, thrown, bad, unmarked, cellVars, ops>>

NoScreen == [lines |-> <<>>]

-----------------------------------------------------------------------------
(* Array.prototype.splice, for one line: an index past the end appends, or *)
(* removes nothing.  And slice(-n).                                        *)

InsertLine(lines, i, line) ==
    IF i >= Len(lines) THEN Append(lines, line) ELSE InsertAt(lines, i + 1, line)

RemoveLine(lines, i) == IF i >= Len(lines) THEN lines ELSE RemoveAt(lines, i + 1)

LastLines(lines, n) == IF n >= Len(lines) THEN lines
                       ELSE SubSeq(lines, Len(lines) - n + 1, Len(lines))

\* The line that row y of the screen stands for, if there is one.
HasLine(s, y) == s.ybase + y < Len(s.lines)
LineOf(s, y)  == s.lines[s.ybase + y + 1]
SetLine(s, y, c) == [s EXCEPT !.lines[s.ybase + y + 1] = c]

\* Cells of the row are assigned: a missing one stays missing or not, which
\* `gap' leaves open.
Written(s, y, t) == SetLine(s, y, [text |-> t, gap |-> LineOf(s, y).gap])

\* eraseLine, for some rows: the cells within the width, not those behind it.
Erased(s, ys) == [s EXCEPT !.lines = [i \in DOMAIN s.lines |->
                    IF i - 1 - s.ybase \in ys
                    THEN [text |-> Space, gap |-> s.lines[i].gap] ELSE s.lines[i]]]

-----------------------------------------------------------------------------
(* updateRange and maxRange *)

Updated(r, y) == [start |-> IF y < r.start THEN y ELSE r.start,
                  end   |-> IF y > r.end THEN y ELSE r.end]
NoRange  == [start |-> 0, end |-> 0]
MaxRange == [start |-> 0, end |-> Rows - 1]
RegionUpdated(r, s) == Updated(Updated(r, s.top), s.bottom)

-----------------------------------------------------------------------------
(* scroll, and the line feed that every index and wrap performs. *)

\* Mutant: the trimmed buffer keeps one line too many.
ScrolledKeeping(s) ==
    LET full == s.ybase + 1 = Scrollback
        base == IF full THEN (s.ybase + 1) \div 2 ELSE s.ybase + 1
        kept == IF full THEN LastLines(s.lines, base + Rows) ELSE s.lines
        more == InsertLine(kept, base + s.bottom, Blank)
    IN  IF s.top = 0 THEN [s EXCEPT !.lines = more, !.ybase = base, !.ydisp = base]
        ELSE [s EXCEPT !.lines = RemoveLine(more, base - 1 + s.top),
                       !.ybase = base - 1, !.ydisp = base - 1]

\* scroll(): a new line at the bottom of the region; the top line goes to the
\* scrollback, or away if the region starts further down.  When the scrollback
\* is full its older half is dropped.
Scrolled(s) ==
    LET full == s.ybase + 1 = Scrollback
        base == IF full THEN (s.ybase + 1) \div 2 ELSE s.ybase + 1
        kept == IF full THEN LastLines(s.lines, base + Rows - 1) ELSE s.lines
        more == InsertLine(kept, base + s.bottom, Blank)
    IN  IF s.top = 0 THEN [s EXCEPT !.lines = more, !.ybase = base, !.ydisp = base]
        ELSE [s EXCEPT !.lines = RemoveLine(more, base - 1 + s.top),
                       !.ybase = base - 1, !.ydisp = base - 1]

LineFed(s) == IF s.y + 1 > s.bottom THEN Scrolled(s) ELSE [s EXCEPT !.y = @ + 1]

\* Mutant: scroll marks the bottom of the region only.
LineFedRangeBottom(s, r) == IF s.y + 1 > s.bottom THEN Updated(r, s.bottom) ELSE r

LineFedRange(s, r) == IF s.y + 1 > s.bottom THEN RegionUpdated(r, s) ELSE r

\* The constructor, and reset with it: an empty screen.
Fresh == [lines |-> [i \in 1 .. Rows |-> Blank], ybase |-> 0, ydisp |-> 0,
          y |-> 0, top |-> 0, bottom |-> Rows - 1]

-----------------------------------------------------------------------------
\* What row y of the DOM shows when it is painted.
Shown(y) == [text   |-> screen.lines[screen.ydisp + y + 1].text,
             cursor |-> /\ cursor /\ ~hidden
                        /\ screen.y = y - (screen.ybase - screen.ydisp)]

\* The page after createTerminal: an empty screen, all painted, with the
\* cursor if the window has the focus.  fit has resized it, and a wider line was
\* filled up with one cell that all lines share.
Init ==
    /\ screen = Fresh /\ normal = NoScreen /\ savedY = 0
    /\ cursor \in BOOLEAN /\ hidden = FALSE
    /\ writing = FALSE /\ range = NoRange
    /\ painter = [queued |-> FALSE, full |-> FALSE, timers |-> <<>>]
    /\ dom = [y \in 0 .. Rows - 1 |-> Shown(y)]
    /\ mounted = TRUE /\ thrown = FALSE /\ bad = FALSE /\ unmarked = FALSE
    /\ shared \in {{}, {"screen"}} /\ smeared = FALSE /\ gapped = FALSE
    /\ ops = 0

BeginWrite ==
    /\ ~writing
    /\ writing' = TRUE
    /\ screen' = [screen EXCEPT !.ydisp = screen.ybase]
    /\ range' = IF screen.ybase # screen.ydisp THEN MaxRange
                ELSE [start |-> screen.y, end |-> screen.y]
    /\ UNCHANGED <<normal, savedY, cursor, hidden, painter, dom, mounted, thrown,
                   bad, unmarked, cellVars, ops>>

EndWrite ==
    /\ writing
    /\ writing' = FALSE
    /\ range' = NoRange
    /\ LET r == Updated(range, screen.y)
       IN  painter' = Refresh(painter, r.start, r.end)
    /\ UNCHANGED <<screen, normal, savedY, cursor, hidden, dom, mounted, thrown,
                   bad, unmarked, cellVars, ops>>

-----------------------------------------------------------------------------
(* Between the two: control sequences and characters.  A counted sequence  *)
(* repeats what it does, so CSI 3 L is three steps InsertLines.            *)

Op == writing /\ ops < MaxOps /\ ops' = ops + 1

\* It leaves this screen and this range, and nothing else is touched.
Becomes(s, r) ==
    /\ screen' = s /\ range' = r
    /\ UNCHANGED <<normal, savedY, cursor, hidden, writing, painter, dom, mounted,
                   thrown, bad, unmarked, cellVars>>

\* It throws, having made this of the screen: the rest of the data is not
\* looked at and nothing is ordered, so the rows changed so far stay unpainted.
Throws(s) ==
    /\ screen' = s /\ range' = NoRange
    /\ writing' = FALSE /\ thrown' = TRUE /\ unmarked' = TRUE
    /\ UNCHANGED <<normal, savedY, cursor, hidden, painter, dom, mounted, bad,
                   cellVars>>

\* LF, VT, FF, index and nextLine.
LineFeed == Op /\ Becomes(LineFed(screen), LineFedRange(screen, range))

\* A printable character, which may wrap first.  In insert mode it takes the
\* last cell off the line, and throws if there was none.
PutChar ==
    /\ Op
    /\ \E wraps \in BOOLEAN, t \in Text :
          LET s == IF wraps THEN LineFed(screen) ELSE screen
              r == IF wraps THEN LineFedRange(screen, range) ELSE range
          IN  IF HasLine(s, s.y)
              THEN \/ Becomes(Written(s, s.y, t), Updated(r, s.y))
                   \/ LineOf(s, s.y).gap /\ Throws(Written(s, s.y, t))
              ELSE Throws(s)

\* A combining character is added to the cell before the cursor, in place: if
\* that is the cell of resize, to some other lines as well, which are not marked.
PutCombining ==
    /\ Op
    /\ IF HasLine(screen, screen.y)
       THEN \/ Becomes(screen, range)
            \/ \E t \in Text :
                  Becomes(Written(screen, screen.y, t), Updated(range, screen.y))
            \/ /\ "screen" \in shared
               /\ \E t \in Text, others \in SUBSET DOMAIN screen.lines :
                     /\ others # {}
                     /\ \A i \in others : screen.lines[i].text # t
                     /\ screen.ybase + screen.y + 1 \notin others
                     /\ screen' = [Written(screen, screen.y, t) EXCEPT !.lines =
                          [i \in DOMAIN @ |-> IF i \in others
                             THEN [text |-> t, gap |-> @[i].gap] ELSE @[i]]]
               /\ range' = Updated(range, screen.y)
               /\ smeared' = TRUE /\ unmarked' = TRUE
               /\ UNCHANGED <<normal, savedY, cursor, hidden, writing, painter, dom,
                              mounted, thrown, bad, shared, gapped>>
       ELSE Throws(screen)

\* Above the region the cursor's row scrolls, although it is not marked.
ReverseIndex ==
    /\ Op
    /\ IF screen.y - 1 >= screen.top
       THEN Becomes([screen EXCEPT !.y = @ - 1], range)
       ELSE /\ screen' = [screen EXCEPT !.lines =
                 RemoveLine(InsertLine(@, screen.ybase + screen.y, Blank),
                            screen.ybase + screen.bottom + 1)]
            /\ range' = RegionUpdated(range, screen)
            /\ unmarked' = (unmarked \/ screen.y < screen.top)
            /\ UNCHANGED <<normal, savedY, cursor, hidden, writing, painter, dom,
                           mounted, thrown, bad, cellVars>>

\* Mutant: not clamped to the top of the screen.
CursorUpOff == Op /\ Becomes([screen EXCEPT !.y = @ - 1], range)

\* cursorUp, cursorPrecedingLine
CursorUp == Op /\ Becomes([screen EXCEPT !.y = IF @ = 0 THEN 0 ELSE @ - 1], range)

\* Mutant: not clamped to the bottom of the screen.
CursorDownOff == Op /\ Becomes([screen EXCEPT !.y = @ + 1], range)

\* cursorDown, cursorNextLine, VPositionRelative
CursorDown ==
    Op /\ Becomes([screen EXCEPT !.y = IF @ + 1 >= Rows THEN Rows - 1 ELSE @ + 1], range)

\* cursorPos, linePosAbsolute, HVPosition
CursorPos == Op /\ \E y \in 0 .. Rows - 1 : Becomes([screen EXCEPT !.y = y], range)

\* eraseRight and eraseLeft: a part of the cursor's row.  A row without a line
\* throws, unless the cursor stands behind the last column.
EraseInLine ==
    /\ Op
    /\ IF HasLine(screen, screen.y)
       THEN \E t \in Text :
               Becomes(Written(screen, screen.y, t), Updated(range, screen.y))
       ELSE Throws(screen) \/ Becomes(screen, Updated(range, screen.y))

\* Erase below: eraseRight, and every row further down.
EraseBelow ==
    /\ Op
    /\ LET y == screen.y
           r == IF y + 1 < Rows THEN Updated(Updated(range, y), Rows - 1)
                ELSE Updated(range, y)
       IN  IF HasLine(screen, y)
           THEN \E t \in Text :
                   Becomes(Erased(Written(screen, y, t), y + 1 .. Rows - 1), r)
           ELSE Throws(screen) \/ Becomes(screen, r)

\* Erase above: eraseLeft, and every row further up.
EraseAbove ==
    /\ Op
    /\ LET y == screen.y
       IN  IF HasLine(screen, y)
           THEN \E t \in Text : Becomes(Erased(Written(screen, y, t), 0 .. y - 1),
                                        Updated(Updated(range, y), 0))
           ELSE Throws(screen)

EraseAll == Op /\ Becomes(Erased(screen, 0 .. Rows - 1),
                          Updated(Updated(range, Rows - 1), 0))

InsertLines ==
    Op /\ Becomes([screen EXCEPT !.lines =
                     RemoveLine(InsertLine(@, screen.ybase + screen.y, Blank),
                                screen.ybase + screen.bottom + 1)],
                  Updated(Updated(range, screen.y), screen.bottom))

DeleteLines ==
    Op /\ Becomes([screen EXCEPT !.lines =
                     RemoveLine(InsertLine(@, screen.ybase + screen.bottom + 1, Blank),
                                screen.ybase + screen.y)],
                  Updated(Updated(range, screen.y), screen.bottom))

ScrollUp ==
    Op /\ Becomes([screen EXCEPT !.lines =
                     InsertLine(RemoveLine(@, screen.ybase + screen.top),
                                screen.ybase + screen.bottom, Blank)],
                  RegionUpdated(range, screen))

\* Mutant: the blank line goes to the row, not to its place in the buffer.
ScrollDownAbsolute ==
    Op /\ Becomes([screen EXCEPT !.lines =
                     InsertLine(RemoveLine(@, screen.ybase + screen.bottom),
                                screen.top, Blank)],
                  RegionUpdated(range, screen))

ScrollDown ==
    Op /\ Becomes([screen EXCEPT !.lines =
                     InsertLine(RemoveLine(@, screen.ybase + screen.bottom),
                                screen.ybase + screen.top, Blank)],
                  RegionUpdated(range, screen))

\* insertChars, deleteChars, eraseChars: the cursor's row changes and is not
\* marked.
EditChars ==
    /\ Op
    /\ IF HasLine(screen, screen.y)
       THEN /\ \E t \in Text : screen' = Written(screen, screen.y, t)
            /\ unmarked' = TRUE
            /\ UNCHANGED <<normal, savedY, cursor, hidden, writing, range, painter,
                           dom, mounted, thrown, bad, cellVars>>
       ELSE Throws(screen) \/ Becomes(screen, range)

\* repeatPrecedingCharacter, which does not mark the row either.  Nothing keeps
\* the cursor within the line: what is between its end and the cursor is missing.
RepeatChar ==
    /\ Op
    /\ IF HasLine(screen, screen.y)
       THEN /\ \E t \in Text, g \in {LineOf(screen, screen.y).gap, TRUE} :
                  /\ screen' = SetLine(screen, screen.y, [text |-> t, gap |-> g])
                  /\ gapped' = (gapped \/ g)
            /\ unmarked' = TRUE
            /\ UNCHANGED <<normal, savedY, cursor, hidden, writing, range, painter,
                           dom, mounted, thrown, bad, shared, smeared>>
       ELSE Throws(screen)

\* CSI r: the parameters are not compared with the size of the screen.
SetScrollRegion ==
    /\ Op
    /\ \E p \in Regions :
          LET top    == (IF p.top = 0 THEN 1 ELSE p.top) - 1
              bottom == (IF p.bottom = 0 THEN Rows ELSE p.bottom) - 1
          IN  /\ screen' = [screen EXCEPT !.top = top, !.bottom = bottom, !.y = 0]
              /\ bad' = (bad \/ top >= Rows \/ bottom >= Rows)
    /\ UNCHANGED <<normal, savedY, cursor, hidden, writing, range, painter, dom,
                   mounted, thrown, unmarked, cellVars>>

SaveCursor ==
    /\ Op
    /\ savedY' = screen.y
    /\ UNCHANGED <<screen, normal, cursor, hidden, writing, range, painter, dom,
                   mounted, thrown, bad, unmarked, cellVars>>

RestoreCursor == Op /\ Becomes([screen EXCEPT !.y = savedY], range)

\* Modes 25 and the two screens, 47, 1047 and 1049.
SetCursorHidden ==
    /\ Op
    /\ hidden' \in BOOLEAN
    /\ UNCHANGED <<screen, normal, savedY, cursor, writing, range, painter, dom,
                   mounted, thrown, bad, unmarked, cellVars>>

\* ESC c: the constructor on the same object.  savedY stays.
Reset ==
    /\ Op
    /\ screen' = Fresh /\ normal' = NoScreen
    /\ cursor' = FALSE /\ hidden' = FALSE
    /\ painter' = Refresh(painter, 0, Rows - 1)
    /\ shared' = {}
    /\ UNCHANGED <<savedY, writing, range, dom, mounted, thrown, bad, unmarked,
                   smeared, gapped>>

\* CSI ! p
SoftReset ==
    /\ Op
    /\ screen' = [screen EXCEPT !.top = 0, !.bottom = Rows - 1, !.y = 0]
    /\ hidden' = FALSE
    /\ UNCHANGED <<normal, savedY, cursor, writing, range, painter, dom, mounted,
                   thrown, bad, unmarked, cellVars>>

\* reset, then showCursor.
SetAlternate ==
    /\ Op /\ normal = NoScreen
    /\ normal' = screen /\ screen' = Fresh
    /\ cursor' = TRUE /\ hidden' = FALSE
    /\ painter' = Refresh(Refresh(painter, 0, Rows - 1), 0, 0)
    /\ shared' = IF "screen" \in shared THEN {"normal"} ELSE {}
    /\ UNCHANGED <<savedY, writing, range, dom, mounted, thrown, bad, unmarked,
                   smeared, gapped>>

ResetAlternate ==
    /\ Op /\ normal # NoScreen
    /\ screen' = normal /\ normal' = NoScreen
    /\ cursor' = TRUE
    /\ painter' = LET p == Refresh(painter, 0, Rows - 1)
                  IN  IF cursor THEN p ELSE Refresh(p, normal.y, normal.y)
    /\ shared' = IF "normal" \in shared THEN {"screen"} ELSE {}
    /\ UNCHANGED <<savedY, hidden, writing, range, dom, mounted, thrown, bad,
                   unmarked, smeared, gapped>>

\* resize to another number of columns: the cursor stays on the screen, the
\* region is the whole screen, the saved screen is forgotten.  A wider screen
\* pushes one and the same cell to the end of all lines; a narrower one may take
\* the last of them away.
Widened ==
    /\ screen' = [screen EXCEPT !.y = IF @ >= Rows THEN Rows - 1 ELSE @,
                                !.top = 0, !.bottom = Rows - 1]
    /\ normal' = NoScreen
    /\ painter' = Refresh(painter, 0, Rows - 1)
    /\ shared' \in {{}, shared \ {"normal"}, {"screen"}}
    /\ UNCHANGED <<savedY, cursor, hidden, writing, range, dom, mounted, thrown,
                   bad, unmarked, smeared, gapped>>

\* Mode 3, set and reset.
SetColumns == Op /\ Widened

-----------------------------------------------------------------------------
(* The page, the user and the timer, between two writes. *)

\* setTerminalSize on an event of the socket, if mode 3 has changed the width.
Resize == ~writing /\ Widened /\ UNCHANGED ops

\* The wheel and shifted page keys, a line at a time.
ScrollDisp ==
    /\ ~writing
    /\ screen' \in { [screen EXCEPT !.ydisp = IF @ < screen.ybase THEN @ + 1 ELSE @],
                     [screen EXCEPT !.ydisp = IF @ = 0 THEN 0 ELSE @ - 1] }
    /\ painter' = Refresh(painter, 0, Rows - 1)
    /\ UNCHANGED <<normal, savedY, cursor, hidden, writing, range, dom, mounted,
                   thrown, bad, unmarked, cellVars, ops>>

\* A key, or the focus: the cursor's row on the screen is ordered, which is
\* not where it is displayed if the user has scrolled.
ShowCursor ==
    /\ ~writing /\ ~cursor
    /\ cursor' = TRUE
    /\ painter' = Refresh(painter, screen.y, screen.y)
    /\ unmarked' = (unmarked \/ screen.ydisp # screen.ybase)
    /\ UNCHANGED <<screen, normal, savedY, hidden, writing, range, dom, mounted,
                   thrown, bad, cellVars, ops>>

\* The rows that may lack a cell.
Gaps == {y \in 0 .. Rows - 1 : /\ screen.ydisp + y < Len(screen.lines)
                               /\ screen.lines[screen.ydisp + y + 1].gap}

\* refresh(start, end, false).  A painting of half of the rows or more takes
\* them out of the document first, which throws if they are out already.  The
\* rows are painted in order; one that does not exist, or lacks a cell within the
\* width, throws, and the rows stay out.  The guard against `end' compares with
\* rows.length, of a number.
RefreshTimer ==
    /\ ~writing /\ painter.timers # <<>>
    /\ painter' = Fired(painter)
    /\ \E halts \in {{}} \cup {{y} : y \in Gaps} :
          LET rows == Paint(painter, Rows)
              big  == \E first, last \in rows : 2 * (last - first) >= Rows
              lost == big /\ ~mounted
              done == ~lost /\ halts = {} /\ rows \subseteq 0 .. Rows - 1
          IN  /\ halts \subseteq rows
              /\ dom' = [y \in 0 .. Rows - 1 |->
                            IF y \in rows /\ ~lost /\ \A h \in halts : y < h
                            THEN Shown(y) ELSE dom[y]]
              /\ mounted' = IF big THEN done ELSE mounted
              /\ thrown' = (thrown \/ ~done)
              /\ unmarked' = IF done /\ rows = 0 .. Rows - 1 THEN FALSE
                             ELSE unmarked \/ ~done
    /\ UNCHANGED <<screen, normal, savedY, cursor, hidden, writing, range, bad,
                   cellVars, ops>>

-----------------------------------------------------------------------------
Next ==
    \/ BeginWrite \/ EndWrite
    \/ LineFeed \/ PutChar \/ PutCombining \/ ReverseIndex
    \/ CursorUp \/ CursorDown \/ CursorPos
    \/ EraseInLine \/ EraseBelow \/ EraseAbove \/ EraseAll
    \/ InsertLines \/ DeleteLines \/ ScrollUp \/ ScrollDown
    \/ EditChars \/ RepeatChar
    \/ SetScrollRegion \/ SaveCursor \/ RestoreCursor \/ SetCursorHidden
    \/ Reset \/ SoftReset \/ SetAlternate \/ ResetAlternate \/ SetColumns
    \/ Resize \/ ScrollDisp \/ ShowCursor \/ RefreshTimer

Spec == Init /\ [][Next]_vars

-----------------------------------------------------------------------------
(* Properties *)

Screen == [lines : Seq(Content), ybase : Nat, ydisp : Nat, y : Nat, top : Nat,
           bottom : Nat]

RowTypes ==
    /\ screen \in Screen /\ normal \in Screen \cup {NoScreen} /\ savedY \in Nat
    /\ cursor \in BOOLEAN /\ hidden \in BOOLEAN /\ writing \in BOOLEAN
    /\ range \in [start : Nat, end : Nat]
    /\ painter \in Painter
    /\ dom \in [0 .. Rows - 1 -> [text : Text, cursor : BOOLEAN]]
    /\ mounted \in BOOLEAN /\ thrown \in BOOLEAN /\ bad \in BOOLEAN
    /\ unmarked \in BOOLEAN /\ ops \in Nat

CellTypes == /\ shared \subseteq {"screen", "normal"}
             /\ smeared \in BOOLEAN /\ gapped \in BOOLEAN

\* The types of the variables.
TypeOK == RowTypes /\ CellTypes

\* Nothing throws and the rows stay in the document, whatever is written, until
\* a scroll region reaches below the screen or a character is repeated behind
\* the end of a line: every row that is written to has a line, every row that is
\* painted an element, and no splice, scroll or resize makes a hole (write,
\* refresh).
NothingElseThrows == thrown \/ ~mounted => bad \/ gapped

\* The buffer is the scrollback and one line for each row, never more than the
\* limit, whatever is inserted, deleted or scrolled in a region, upside down or
\* not, and whichever screen is displayed; the cursor is on the screen (scroll,
\* insertLines, deleteLines, scrollUp, scrollDown, reverseIndex).
OnScreen(s) == /\ Len(s.lines) = s.ybase + Rows /\ s.ybase < Scrollback
               /\ s.ydisp <= s.ybase
               /\ s.y < Rows /\ s.top < Rows /\ s.bottom < Rows
BufferBounded ==
    ~bad => OnScreen(screen) /\ (normal # NoScreen => OnScreen(normal))

Ordered(y) == painter.timers # <<>> /\ y \in Paint(painter, Rows)
Marked(y)  == writing /\ (y = screen.y \/ y \in range.start .. range.end)

\* A row that does not show what the buffer holds, or the cursor where it is,
\* will be painted: the timer covers it, or the write that goes on will order
\* it (updateRange, write, refresh).
Displayed ==
    ~bad /\ ~unmarked =>
        \A y \in 0 .. Rows - 1 : dom[y] # Shown(y) => Ordered(y) \/ Marked(y)

History(s) == SubSeq(s.lines, 1, s.ybase)

\* What has scrolled off the screen stays as it was: a step leaves it alone, adds
\* the top line of the screen, or drops the oldest lines when the limit is
\* reached, half of them being left (scroll; splice in the region functions).  The
\* exception is a combining character that is added to a shared cell.
HistoryKept ==
    [][~bad /\ ~smeared' /\ normal' = normal /\ screen' # Fresh =>
          LET before == History(screen)
              grown  == Append(before, screen.lines[screen.ybase + 1])
              after  == History(screen')
          IN  \/ after = before \/ after = grown
              \/ /\ screen.ybase + 1 = Scrollback
                 /\ \/ Len(after) = Scrollback \div 2 /\ IsSuffix(after, grown)
                    \/ Len(after) = Scrollback \div 2 - 1 /\ IsSuffix(after, before)]_vars

-----------------------------------------------------------------------------
(* What the sources say and the code does not do. *)

\* xterm.js, refresh: "`end` is too large. Most likely a bad CSR.", and of start
\* and end that they are "between 0 and terminal's height terminal - 1".  The
\* rows stay in the document when such a range is ordered, all lines having
\* their cells.
RowsStayMounted == gapped \/ mounted
=============================================================================
