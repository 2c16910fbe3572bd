------------------------- MODULE TerminalLineProofs -------------------------
(***************************************************************************)
(* Proofs about TerminalLine, for all widths of the terminal.              *)
(***************************************************************************)
EXTENDS TerminalLine, TLAPS

-----------------------------------------------------------------------------
(* Arrays without a missing element *)

Full == Seq({"cell"})

LEMMA BlankIsFull ==
    ASSUME NEW n \in Nat
    PROVE  blankLine(n) \in Full /\ Len(blankLine(n)) = n
  BY DEF blankLine, Full

\* An assignment at the end at most leaves no hole.
LEMMA AssignedFull ==
    ASSUME NEW l \in Full, NEW from \in Nat, from <= Len(l), NEW to \in Int
    PROVE  /\ Assigned(l, from, to) \in Full
           /\ Len(Assigned(l, from, to)) >= Len(l)
           /\ from <= to => Len(Assigned(l, from, to)) > to
  <1>1. CASE from > to
    BY <1>1 DEF Assigned, Full
  <1>2. CASE from <= to
    <2> DEFINE n == IF to < Len(l) THEN Len(l) ELSE to + 1
               m == [i \in 1 .. n |-> IF i - 1 \in from .. to THEN "cell"
                                      ELSE IF i <= Len(l) THEN l[i] ELSE "hole"]
    <2>1. Assigned(l, from, to) = m
      BY <1>2 DEF Assigned
    <2>2. Len(l) \in Nat /\ n \in Nat /\ n >= Len(l) /\ n > to
      BY <1>2 DEF Full
    <2>3. \A i \in 1 .. n : m[i] \in {"cell"}
      <3> TAKE i \in 1 .. n
      <3>1. CASE i <= Len(l)
        <4>1. l[i] = "cell"
          BY <3>1, <2>2 DEF Full
        <4> QED BY <3>1, <4>1
      <3>2. CASE i > Len(l)
        <4>1. i - 1 \in from .. to
          BY <3>2, <2>2, <1>2
        <4> QED BY <4>1
      <3> QED BY <3>1, <3>2, <2>2
    <2> HIDE DEF n
    <2>4. m \in Seq({"cell"}) /\ Len(m) = n
      BY <2>2, <2>3
    <2> HIDE DEF m
    <2> QED BY <2>1, <2>2, <2>4 DEF Full
  <1> QED BY <1>1, <1>2 DEF Full

\* The library's operators.
LEMMA InsertAtIs ==
    ASSUME NEW l, NEW i, NEW c
    PROVE  InsertAt(l, i, c) = SubSeq(l, 1, i - 1) \o <<c>> \o SubSeq(l, i, Len(l))
  BY Zenon DEF InsertAt

LEMMA RemoveAtIs ==
    ASSUME NEW l, NEW i
    PROVE  RemoveAt(l, i) = SubSeq(l, 1, i - 1) \o SubSeq(l, i + 1, Len(l))
  BY Zenon DEF RemoveAt

LEMMA FrontIs ==
    ASSUME NEW l PROVE Front(l) = SubSeq(l, 1, Len(l) - 1)
  BY Zenon DEF Front

LEMMA HeadFull ==
    ASSUME NEW l \in Full, NEW n \in Nat, n <= Len(l)
    PROVE  SubSeq(l, 1, n) \in Full /\ Len(SubSeq(l, 1, n)) = n
  BY DEF Full

LEMMA InsertedFull ==
    ASSUME NEW l \in Full, NEW j \in Nat
    PROVE  Inserted(l, j) \in Full /\ Len(Inserted(l, j)) = Len(l) + 1
  <1> DEFINE i == IF j < Len(l) THEN j + 1 ELSE Len(l) + 1
             front == SubSeq(l, 1, i - 1)
             back  == SubSeq(l, i, Len(l))
  <1>1. Inserted(l, j) = front \o <<"cell">> \o back
    <2>1. Inserted(l, j) = InsertAt(l, i, "cell")
      BY DEF Inserted
    <2> QED BY <2>1, InsertAtIs, Zenon
  <1>2. Len(l) \in Nat /\ i \in 1 .. Len(l) + 1
    BY DEF Full
  <1> HIDE DEF i
  <1>3. front \in Seq({"cell"}) /\ Len(front) = i - 1
    BY <1>2 DEF Full
  <1>4. back \in Seq({"cell"}) /\ Len(back) = Len(l) - i + 1
    BY <1>2 DEF Full
  <1>5. <<"cell">> \in Seq({"cell"}) /\ Len(<<"cell">>) = 1
    OBVIOUS
  <1> HIDE DEF front, back
  <1> DEFINE fb == front \o <<"cell">>
  <1>6. fb \in Seq({"cell"}) /\ Len(fb) = i
    BY <1>2, <1>3, <1>5
  <1>7. Inserted(l, j) = fb \o back
    BY <1>1
  <1> HIDE DEF fb
  <1>8. fb \o back \in Seq({"cell"}) /\ Len(fb \o back) = Len(l) + 1
    BY <1>2, <1>4, <1>6
  <1> QED BY <1>7, <1>8 DEF Full

LEMMA DeletedFull ==
    ASSUME NEW l \in Full, NEW j \in Nat
    PROVE  Append(Deleted(l, j), "cell") \in Full /\ Len(Append(Deleted(l, j), "cell")) >= Len(l)
  <1>1. CASE j < Len(l)
    <2> DEFINE front == SubSeq(l, 1, (j + 1) - 1)
               back  == SubSeq(l, (j + 1) + 1, Len(l))
    <2>1. Deleted(l, j) = front \o back
      <3>1. Deleted(l, j) = RemoveAt(l, j + 1)
        BY <1>1 DEF Deleted
      <3> QED BY <3>1, RemoveAtIs, Zenon
    <2>2. front \in Seq({"cell"}) /\ Len(front) = j
      BY <1>1 DEF Full
    <2>3. back \in Seq({"cell"}) /\ Len(back) = Len(l) - j - 1
      BY <1>1 DEF Full
    <2> HIDE DEF front, back
    <2>4. Len(l) \in Nat
      BY DEF Full
    <2>5. front \o back \in Seq({"cell"}) /\ Len(front \o back) = Len(l) - 1
      BY <2>2, <2>3, <2>4
    <2> QED BY <2>1, <2>4, <2>5 DEF Full
  <1>2. CASE ~(j < Len(l))
    BY <1>2 DEF Deleted, Full
  <1> QED BY <1>1, <1>2

\* pop takes a cell off, if there is one.
LEMMA PoppedFull ==
    ASSUME NEW l \in Full, Len(l) > 0
    PROVE  /\ Popped(l) \in Full /\ Len(Popped(l)) = Len(l) - 1
           /\ ~PopsNothing(l)
  <1>1. Len(l) \in Nat /\ l # <<>>
    BY DEF Full
  <1>2. Popped(l) = SubSeq(l, 1, Len(l) - 1)
    BY <1>1, FrontIs DEF Popped
  <1>3. Last(l) = l[Len(l)]
    BY Zenon DEF Last
  <1>4. l[Len(l)] = "cell"
    BY <1>1 DEF Full
  <1>5. ~PopsNothing(l)
    BY <1>1, <1>3, <1>4 DEF PopsNothing
  <1> DEFINE m == SubSeq(l, 1, Len(l) - 1)
  <1>6. m \in Full /\ Len(m) = Len(l) - 1
    <2>1. Len(l) - 1 \in Nat /\ Len(l) - 1 <= Len(l)
      BY <1>1
    <2> HIDE DEF m
    <2> QED BY <2>1, HeadFull DEF m
  <1>7. Popped(l) = m
    BY <1>2
  <1> HIDE DEF m
  <1> QED BY <1>5, <1>6, <1>7 DEF Full

\* Insert mode keeps the length.
LEMMA MovedFull ==
    ASSUME NEW l \in Full, Len(l) > 0, NEW j \in Nat, NEW k \in 0 .. 2
    PROVE  Moved(l, j, k) \in Full /\ Len(Moved(l, j, k)) = Len(l)
  <1>1. ASSUME NEW m \in Full, Len(m) > 0
        PROVE  MovedOn(m, j) \in Full /\ Len(MovedOn(m, j)) = Len(m)
    <2>1. Len(m) \in Nat
      BY DEF Full
    <2>2. Popped(m) \in Full /\ Len(Popped(m)) = Len(m) - 1
      BY <1>1, PoppedFull
    <2> DEFINE p == Popped(m)
    <2>3. MovedOn(m, j) = Inserted(p, j)
      BY DEF MovedOn
    <2> HIDE DEF p
    <2>4. p \in Full /\ Len(p) = Len(m) - 1
      BY <2>2 DEF p
    <2>5. Inserted(p, j) \in Full /\ Len(Inserted(p, j)) = Len(p) + 1
      BY <2>4, InsertedFull
    <2> QED BY <2>1, <2>3, <2>4, <2>5
  <1>2. CASE k = 0
    BY <1>2 DEF Moved
  <1>3. CASE k = 1
    BY <1>1, <1>3 DEF Moved
  <1>4. CASE k = 2
    <2>1. MovedOn(l, j) \in Full /\ Len(MovedOn(l, j)) > 0
      BY <1>1
    <2>2. Moved(l, j, k) = MovedOn(MovedOn(l, j), j)
      BY <1>4 DEF Moved
    <2> QED BY <1>1, <2>1, <2>2
  <1> QED BY <1>2, <1>3, <1>4

-----------------------------------------------------------------------------
(* The inductive invariant *)

Covers(l, width) == l \in Full /\ Len(l) >= width

\* The saved line counts as well: it comes back with the width it was saved at.
LineInv ==
    /\ cols \in Columns /\ x \in Nat /\ savedX \in Nat
    /\ normal # NoScreen => normal.x \in Nat
    /\ ~gapped => /\ ~thrown /\ Covers(line, cols)
                  /\ normal # NoScreen => Covers(normal.line, cols)

LEMMA Widths == ASSUME NEW c \in Columns PROVE c \in Nat /\ c > 0
  BY LineAssumption

LEMMA InitLine == Init => LineInv
  <1> SUFFICES ASSUME Init PROVE LineInv
    OBVIOUS
  <1>1. cols \in Nat /\ cols > 0
    BY Widths DEF Init
  <1>2. Covers(line, cols)
    BY <1>1, BlankIsFull DEF Init, Covers
  <1> QED BY <1>2 DEF Init, LineInv

\* A step that leaves the modes of the screen, and a line that is wide enough.
LEMMA LineKept ==
    ASSUME LineInv, x' \in Nat, UNCHANGED <<cols, savedX, normal>>,
           ~gapped' => ~gapped,
           ~gapped' /\ Covers(line, cols) /\ ~thrown => Covers(line', cols) /\ ~thrown'
    PROVE  LineInv'
  BY DEF LineInv

LEMMA PutCharLine == ASSUME LineInv, PutChar PROVE LineInv'
  <1>1. PICK w \in 0 .. 2, there \in BOOLEAN :
        LET over  == x + w - 1 >= cols
            wraps == over /\ wraparoundMode
            at    == IF wraps THEN 0 ELSE IF over THEN cols - 1 ELSE x
            on    == IF wraps THEN there ELSE here
            next  == at + (IF w = 2 THEN 2 ELSE 1)
            moves == IF insertMode THEN w ELSE 0
            fails == {k \in 1 .. moves : on /\ PopsNothing(Moved(line, at, k - 1))}
        IN  /\ IF over /\ ~wraparoundMode /\ w = 2
               THEN x' = at /\ UNCHANGED <<line, thrown>>
               ELSE IF fails # {}
               THEN x' = at
               ELSE /\ x' = next /\ UNCHANGED thrown
                    /\ line' = IF on THEN Assigned(Moved(line, at, moves), at, next - 1)
                               ELSE line
            /\ UNCHANGED <<cols, savedX, insertMode, wraparoundMode, normal, gapped>>
    BY DEF PutChar
  <1> DEFINE over  == x + w - 1 >= cols
             wraps == over /\ wraparoundMode
             at    == IF wraps THEN 0 ELSE IF over THEN cols - 1 ELSE x
             on    == IF wraps THEN there ELSE here
             next  == at + (IF w = 2 THEN 2 ELSE 1)
             moves == IF insertMode THEN w ELSE 0
             fails == {k \in 1 .. moves : on /\ PopsNothing(Moved(line, at, k - 1))}
  <1>2. /\ IF over /\ ~wraparoundMode /\ w = 2
           THEN x' = at /\ UNCHANGED <<line, thrown>>
           ELSE IF fails # {}
           THEN x' = at
           ELSE /\ x' = next /\ UNCHANGED thrown
                /\ line' = IF on THEN Assigned(Moved(line, at, moves), at, next - 1)
                           ELSE line
        /\ UNCHANGED <<cols, savedX, normal, gapped>>
    BY <1>1
  <1>3. cols \in Nat /\ cols > 0 /\ x \in Nat
    BY Widths DEF LineInv
  <1>4. at \in Nat /\ at <= cols /\ next \in Nat /\ next - 1 \in Nat
    BY <1>3
  <1>5. moves \in 0 .. 2
    OBVIOUS
  <1> HIDE DEF over, wraps, at, on, next, moves
  <1>6. ASSUME Covers(line, cols)
        PROVE  /\ fails = {}
               /\ Covers(Assigned(Moved(line, at, moves), at, next - 1), cols)
    <2>1. line \in Full /\ Len(line) >= cols /\ Len(line) > 0 /\ Len(line) \in Nat
      BY <1>3, <1>6 DEF Covers, Full
    <2>2. \A k \in 0 .. 2 : Moved(line, at, k) \in Full /\ Len(Moved(line, at, k)) = Len(line)
      BY <1>4, <2>1, MovedFull
    <2>3. \A k \in 1 .. moves : ~PopsNothing(Moved(line, at, k - 1))
      <3> TAKE k \in 1 .. moves
      <3>1. k - 1 \in 0 .. 2
        BY <1>5
      <3> DEFINE m == Moved(line, at, k - 1)
      <3>2. m \in Full /\ Len(m) > 0
        BY <2>1, <2>2, <3>1
      <3> HIDE DEF m
      <3>3. ~PopsNothing(m)
        BY <3>2, PoppedFull
      <3> QED BY <3>3 DEF m
    <2>4. fails = {}
      BY <2>3
    <2> DEFINE m == Moved(line, at, moves)
               a == Assigned(m, at, next - 1)
    <2>5. m \in Full /\ Len(m) = Len(line)
      BY <1>5, <2>2
    <2> HIDE DEF m
    <2>6. a \in Full /\ Len(a) >= Len(m) /\ Len(a) \in Nat
      <3>1. at <= Len(m) /\ next - 1 \in Int
        BY <1>3, <1>4, <2>1, <2>5
      <3>2. a \in Full /\ Len(a) >= Len(m)
        BY <1>4, <2>5, <3>1, AssignedFull
      <3> HIDE DEF a
      <3> QED BY <3>2 DEF Full
    <2> HIDE DEF a
    <2>7. Covers(a, cols)
      BY <1>3, <2>1, <2>5, <2>6 DEF Covers
    <2> QED BY <2>4, <2>7 DEF a, m
  <1> HIDE DEF fails
  <1>7. x' \in Nat
    BY <1>2, <1>4
  <1>8. ~gapped' /\ Covers(line, cols) /\ ~thrown => Covers(line', cols) /\ ~thrown'
    BY <1>2, <1>6
  <1> QED BY <1>2, <1>7, <1>8, LineKept

\* The moves of the cursor, and the painting.
LEMMA StandingLine ==
    ASSUME LineInv,
           \/ MoveWithin \/ CursorBackward \/ CursorCharAbsolute \/ SaveCursor
           \/ RestoreCursor \/ MoveRow \/ SetModes \/ SoftReset \/ Paint
    PROVE  LineInv'
  <1>1. cols \in Nat /\ x \in Nat /\ savedX \in Nat /\ MaxX \in Nat
    BY Widths, LineAssumption DEF LineInv
  <1>2. line' = line /\ cols' = cols /\ normal' = normal /\ gapped' = gapped
    BY DEF MoveWithin, CursorBackward, CursorCharAbsolute, SaveCursor, RestoreCursor,
       MoveRow, SetModes, SoftReset, Paint, Moves
  <1>3. x' \in Nat /\ savedX' \in Nat
    BY <1>1 DEF MoveWithin, CursorBackward, CursorCharAbsolute, SaveCursor, RestoreCursor,
       MoveRow, SetModes, SoftReset, Paint, Moves
  <1>4. ~gapped /\ Covers(line, cols) /\ ~thrown => ~thrown'
    <2>1. CASE Paint
      <3> SUFFICES ASSUME Covers(line, cols), ~thrown PROVE ~thrown'
        OBVIOUS
      <3>1. \A i \in 1 .. cols : HasCell(i)
        BY <1>1 DEF Covers, Full, HasCell
      <3>2. thrown' = (thrown \/ \E i \in 1 .. cols : ~HasCell(i))
        BY <2>1 DEF Paint
      <3> QED BY <3>1, <3>2
    <2>2. CASE ~Paint
      BY <2>2 DEF MoveWithin, CursorBackward, CursorCharAbsolute, SaveCursor, RestoreCursor,
         MoveRow, SetModes, SoftReset, Moves
    <2> QED BY <2>1, <2>2
  <1> QED BY <1>2, <1>3, <1>4 DEF LineInv

\* The erasures, insertions and deletions, and a new line.
LEMMA EditsLine ==
    ASSUME LineInv,
           \/ EraseRight \/ EraseLeft \/ EraseLine \/ InsertChars \/ DeleteChars
           \/ RepeatPrecedingCharacter \/ BlankLine
    PROVE  LineInv'
  <1>1. cols \in Nat /\ cols > 0 /\ x \in Nat
    BY Widths DEF LineInv
  <1>2. UNCHANGED <<cols, savedX, normal, thrown>> /\ x' \in {x, x + 1}
    BY DEF EraseRight, EraseLeft, EraseLine, InsertChars, DeleteChars,
       RepeatPrecedingCharacter, BlankLine, Edits
  <1>3. ~gapped' => ~gapped
    BY Zenon DEF EraseRight, EraseLeft, EraseLine, InsertChars, DeleteChars,
       RepeatPrecedingCharacter, BlankLine, Edits
  <1>4. ASSUME ~gapped', Covers(line, cols) PROVE Covers(line', cols)
    <2>1. line \in Full /\ Len(line) >= cols /\ Len(line) > 0 /\ Len(line) \in Nat
      BY <1>1, <1>4 DEF Covers, Full
    <2>2. ASSUME NEW from \in Nat, from <= Len(line), NEW to \in Int
          PROVE  Covers(Assigned(line, from, to), cols)
      <3> DEFINE a == Assigned(line, from, to)
      <3>1. a \in Full /\ Len(a) >= Len(line)
        BY <2>1, <2>2, AssignedFull
      <3> HIDE DEF a
      <3>2. Covers(a, cols)
        BY <1>1, <2>1, <3>1 DEF Covers, Full
      <3> QED BY <3>2 DEF a
    <2>3. CASE EraseRight
      <3>1. PICK to \in x .. cols - 1 : line' = IF here THEN Assigned(line, x, to) ELSE line
        BY <2>3 DEF EraseRight, Edits
      <3>2. to \in Int /\ x <= Len(line)
        BY <1>1, <2>1
      <3> QED BY <1>1, <1>4, <2>2, <3>1, <3>2
    <2>4. CASE EraseLeft \/ EraseLine
      <3>1. line' \in {line, Assigned(line, 0, x), Assigned(line, 0, cols - 1)}
        BY <2>4 DEF EraseLeft, EraseLine, Edits
      <3>2. 0 <= Len(line) /\ x \in Int /\ cols - 1 \in Int
        BY <1>1, <2>1
      <3> QED BY <1>4, <2>2, <3>1, <3>2
    <2>5. CASE InsertChars
      <3>1. line' \in {line, Popped(Inserted(line, x))}
        BY <2>5 DEF InsertChars, Edits
      <3> DEFINE m == Inserted(line, x)
                 p == Popped(m)
      <3>2. m \in Full /\ Len(m) = Len(line) + 1
        BY <1>1, <2>1, InsertedFull
      <3> HIDE DEF m
      <3>3. p \in Full /\ Len(p) = Len(line)
        BY <2>1, <3>2, PoppedFull
      <3> HIDE DEF p
      <3>4. Covers(p, cols)
        BY <2>1, <3>3 DEF Covers
      <3> QED BY <1>4, <3>1, <3>4 DEF p, m
    <2>6. CASE DeleteChars
      <3> DEFINE m == Append(Deleted(line, x), "cell")
      <3>1. line' \in {line, m}
        BY <2>6 DEF DeleteChars, Edits
      <3>2. m \in Full /\ Len(m) >= Len(line)
        BY <1>1, <2>1, DeletedFull
      <3> HIDE DEF m
      <3>3. Covers(m, cols)
        BY <1>1, <2>1, <3>2 DEF Covers, Full
      <3> QED BY <1>4, <3>1, <3>3
    <2>7. CASE RepeatPrecedingCharacter
      <3>1. /\ line' = IF here THEN Assigned(line, x, x) ELSE line
            /\ gapped' = (gapped \/ (here /\ x > Len(line)))
        BY <2>7 DEF RepeatPrecedingCharacter
      <3>2. CASE here
        <4>1. ~(x > Len(line))
          BY <1>4, <3>1, <3>2, Zenon
        <4>2. x <= Len(line) /\ x \in Int
          BY <1>1, <2>1, <4>1
        <4> QED BY <1>1, <2>2, <3>1, <3>2, <4>2
      <3>3. CASE ~here
        BY <1>4, <3>1, <3>3
      <3> QED BY <3>2, <3>3
    <2>8. CASE BlankLine
      <3>1. line' = blankLine(cols)
        BY <2>8 DEF BlankLine
      <3> QED BY <1>1, <3>1, BlankIsFull DEF Covers
    <2> QED BY <2>3, <2>4, <2>5, <2>6, <2>7, <2>8
  <1> QED BY <1>1, <1>2, <1>3, <1>4, LineKept

\* The resets, the two screens and another width.
LEMMA ScreensLine ==
    ASSUME LineInv, HardReset \/ SetAlternate \/ ResetAlternate \/ Resize
    PROVE  LineInv'
  <1>1. cols \in Nat /\ cols > 0 /\ x \in Nat /\ savedX \in Nat
    BY Widths DEF LineInv
  <1>2. UNCHANGED <<savedX, gapped, thrown>>
    BY DEF HardReset, SetAlternate, ResetAlternate, Resize, Reset
  <1>3. CASE HardReset \/ SetAlternate
    <2>1. /\ line' = blankLine(cols) /\ x' = 0 /\ cols' = cols
          /\ normal' \in {NoScreen, [line |-> line, x |-> x]}
      BY <1>3 DEF HardReset, SetAlternate, Reset
    <2>2. Covers(line', cols')
      BY <1>1, <2>1, BlankIsFull DEF Covers
    <2>3. normal' # NoScreen => normal'.line = line /\ normal'.x = x
      BY <2>1
    <2> QED BY <1>1, <1>2, <2>1, <2>2, <2>3 DEF LineInv
  <1>4. CASE ResetAlternate
    BY <1>2, <1>4 DEF ResetAlternate, LineInv
  <1>5. CASE Resize
    <2>1. PICK width \in Columns \ {cols} :
             /\ cols' = width /\ normal' = NoScreen
             /\ line' = IF cols < width THEN Assigned(line, Len(line), width - 1)
                        ELSE IF width < Len(line) THEN SubSeq(line, 1, width) ELSE line
             /\ x' = IF x >= width THEN width - 1 ELSE x
      BY <1>5 DEF Resize
    <2>2. width \in Nat /\ width > 0
      BY Widths
    <2>3. ASSUME Covers(line, cols) PROVE Covers(line', width)
      <3>1. line \in Full /\ Len(line) >= cols /\ Len(line) \in Nat
        BY <2>3 DEF Covers, Full
      <3>2. CASE cols < width
        <4> DEFINE a == Assigned(line, Len(line), width - 1)
        <4>1. width - 1 \in Int /\ Len(line) <= Len(line)
          BY <2>2, <3>1
        <4>2. /\ a \in Full /\ Len(a) >= Len(line)
              /\ Len(line) <= width - 1 => Len(a) > width - 1
          BY <3>1, <4>1, AssignedFull
        <4>3. line' = a
          BY <2>1, <3>2
        <4> HIDE DEF a
        <4>4. Len(a) \in Nat
          BY <4>2 DEF Full
        <4>5. Len(a) >= width
          BY <2>2, <3>1, <4>2, <4>4
        <4> QED BY <4>2, <4>3, <4>5 DEF Covers
      <3>3. CASE ~(cols < width) /\ width < Len(line)
        <4>1. line' = SubSeq(line, 1, width)
          BY <2>1, <3>3
        <4>2. SubSeq(line, 1, width) \in Full /\ Len(SubSeq(line, 1, width)) = width
          BY <2>2, <3>1, <3>3, HeadFull
        <4> QED BY <2>2, <4>1, <4>2 DEF Covers
      <3>4. CASE ~(cols < width) /\ ~(width < Len(line))
        <4>1. line' = line
          BY <2>1, <3>4
        <4> QED BY <1>1, <2>2, <3>1, <3>4, <4>1 DEF Covers
      <3> QED BY <3>2, <3>3, <3>4
    <2>4. x' \in Nat
      BY <1>1, <2>1, <2>2
    <2> QED BY <1>1, <1>2, <2>1, <2>3, <2>4 DEF LineInv
  <1> QED BY <1>3, <1>4, <1>5

-----------------------------------------------------------------------------
(* Theorems *)

LEMMA NextLine == ASSUME LineInv, [Next]_vars PROVE LineInv'
  <1>1. CASE UNCHANGED vars
    BY <1>1 DEF vars, LineInv
  <1> QED BY <1>1, PutCharLine, StandingLine, EditsLine, ScreensLine DEF Next

\* The invariant holds in every reachable state of the line.
THEOREM LineInvAlways == Spec => []LineInv
  BY InitLine, NextLine, PTL DEF Spec

\* Whatever the widths: until a character is repeated behind the end of a line, no
\* column lacks its cell and nothing throws (xterm.js, insertChars, deleteChars,
\* resize and the insert mode of write).
THEOREM LinesStaySolid == Spec => []Solid
  <1>1. LineInv => Solid
    <2> SUFFICES ASSUME LineInv, ~gapped
                 PROVE  ~thrown /\ \A i \in 1 .. Len(line) \cup 1 .. cols : HasCell(i)
      BY DEF Solid
    <2>1. ~thrown /\ line \in Seq({"cell"}) /\ Len(line) >= cols /\ cols \in Nat
      BY Widths DEF LineInv, Covers, Full
    <2>2. ASSUME NEW i \in 1 .. Len(line) \cup 1 .. cols PROVE HasCell(i)
      <3>1. i \in 1 .. Len(line)
        BY <2>1
      <3> QED BY <2>1, <3>1 DEF HasCell
    <2> QED BY <2>1, <2>2
  <1> QED BY <1>1, LineInvAlways, PTL
=============================================================================
