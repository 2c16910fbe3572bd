--------------------------- MODULE TerminalProofs ---------------------------
(***************************************************************************)
(* Proofs about Terminal, for every number of rows, every scrollback and   *)
(* every scroll region.                                                    *)
(***************************************************************************)
EXTENDS Terminal, TLAPS

-----------------------------------------------------------------------------
(* Lines: what splice and slice leave where it was. *)

LEMMA TerminalConstants ==
    /\ Rows \in Nat \ {0} /\ Scrollback \in Nat \ {0, 1}
    /\ Blank \in Content
    /\ Regions \subseteq [top : Nat, bottom : Nat]
    /\ MaxOps \in Nat
  BY TerminalAssumption DEF Blank, Content

\* The library's operators, at the place next to i.
LEMMA InsertAtNext ==
    ASSUME NEW l, NEW b, NEW i
    PROVE  InsertAt(l, i + 1, b) =
              SubSeq(l, 1, (i + 1) - 1) \o <<b>> \o SubSeq(l, i + 1, Len(l))
  BY Zenon DEF InsertAt

LEMMA RemoveAtNext ==
    ASSUME NEW l, NEW i
    PROVE  RemoveAt(l, i + 1) =
              SubSeq(l, 1, (i + 1) - 1) \o SubSeq(l, (i + 1) + 1, Len(l))
  BY Zenon DEF RemoveAt

\* Inserting a line moves what is at and behind it.
LEMMA Inserted ==
    ASSUME NEW l \in Seq(Content), NEW i \in Nat, i <= Len(l)
    PROVE  /\ InsertLine(l, i, Blank) \in Seq(Content)
           /\ Len(InsertLine(l, i, Blank)) = Len(l) + 1
           /\ \A k \in 1 .. Len(l) + 1 :
                 InsertLine(l, i, Blank)[k] = IF k <= i THEN l[k]
                                          ELSE IF k = i + 1 THEN Blank ELSE l[k - 1]
  <1>1. CASE i = Len(l)
    <2>1. InsertLine(l, i, Blank) = Append(l, Blank)
      BY <1>1 DEF InsertLine
    <2> QED BY <1>1, <2>1, TerminalConstants
  <1>2. CASE i < Len(l)
    <2> DEFINE front == SubSeq(l, 1, i)
               back  == SubSeq(l, i + 1, Len(l))
    <2>1. InsertLine(l, i, Blank) = front \o <<Blank>> \o back
      <3>1. InsertLine(l, i, Blank) = InsertAt(l, i + 1, Blank)
        BY <1>2 DEF InsertLine
      <3>2. (i + 1) - 1 = i
        OBVIOUS
      <3> QED BY <3>1, <3>2, InsertAtNext, Zenon
    <2>2. front \in Seq(Content) /\ Len(front) = i /\ \A k \in 1 .. i : front[k] = l[k]
      BY <1>2
    <2>3. back \in Seq(Content) /\ Len(back) = Len(l) - i
      BY <1>2
    <2>4. \A k \in 1 .. Len(l) - i : back[k] = l[k + i]
      BY <1>2
    <2>5. <<Blank>> \in Seq(Content) /\ Len(<<Blank>>) = 1 /\ <<Blank>>[1] = Blank
      BY TerminalConstants
    <2> DEFINE fb == front \o <<Blank>>
    <2>6. fb \in Seq(Content) /\ Len(fb) = i + 1
      BY <2>2, <2>5
    <2>7. \A k \in 1 .. i + 1 : fb[k] = IF k <= i THEN l[k] ELSE Blank
      BY <2>2, <2>5
    <2> DEFINE all == fb \o back
    <2>8. all \in Seq(Content) /\ Len(all) = Len(l) + 1
      <3> HIDE DEF fb, back
      <3> QED BY <2>3, <2>6, <1>2
    <2>9. \A k \in 1 .. Len(l) + 1 :
             all[k] = IF k <= i + 1 THEN fb[k] ELSE back[k - (i + 1)]
      <3> HIDE DEF fb, back
      <3> QED BY <2>3, <2>6, <2>8, <1>2
    <2>10. \A k \in 1 .. Len(l) + 1 :
             all[k] = IF k <= i THEN l[k] ELSE IF k = i + 1 THEN Blank ELSE l[k - 1]
      <3> HIDE DEF all, fb, back
      <3> TAKE k \in 1 .. Len(l) + 1
      <3>1. CASE k <= i + 1
        BY <3>1, <2>7, <2>9
      <3>2. CASE k > i + 1
        <4>1. k - (i + 1) \in 1 .. Len(l) - i /\ k - (i + 1) + i = k - 1
          BY <3>2, <1>2
        <4>2. all[k] = back[k - (i + 1)]
          BY <3>2, <2>9
        <4> QED BY <3>2, <4>1, <4>2, <2>4
      <3> QED BY <3>1, <3>2
    <2>11. InsertLine(l, i, Blank) = all
      BY <2>1, Zenon
    <2> HIDE DEF all, fb, back, front
    <2> QED BY <2>8, <2>10, <2>11
  <1> QED BY <1>1, <1>2

\* Wherever it is, it is one line more.
LEMMA InsertedType ==
    ASSUME NEW l \in Seq(Content), NEW i \in Nat
    PROVE  InsertLine(l, i, Blank) \in Seq(Content) /\ Len(InsertLine(l, i, Blank)) = Len(l) + 1
  <1>1. CASE i <= Len(l)
    BY <1>1, Inserted
  <1>2. CASE i > Len(l)
    BY <1>2, TerminalConstants DEF InsertLine
  <1> QED BY <1>1, <1>2

\* Removing a line moves what is behind it.
LEMMA Removed ==
    ASSUME NEW l \in Seq(Content), NEW i \in Nat, i < Len(l)
    PROVE  /\ RemoveLine(l, i) \in Seq(Content)
           /\ Len(RemoveLine(l, i)) = Len(l) - 1
           /\ \A k \in 1 .. Len(l) - 1 :
                 RemoveLine(l, i)[k] = IF k <= i THEN l[k] ELSE l[k + 1]
  <1> DEFINE front == SubSeq(l, 1, i)
             back  == SubSeq(l, i + 2, Len(l))
  <1>1. RemoveLine(l, i) = front \o back
    <2>1. RemoveLine(l, i) = RemoveAt(l, i + 1)
      BY DEF RemoveLine
    <2>2. (i + 1) - 1 = i /\ (i + 1) + 1 = i + 2
      OBVIOUS
    <2> QED BY <2>1, <2>2, RemoveAtNext, Zenon
  <1>2. front \in Seq(Content) /\ Len(front) = i /\ \A k \in 1 .. i : front[k] = l[k]
    OBVIOUS
  <1>3. back \in Seq(Content) /\ Len(back) = Len(l) - i - 1
    OBVIOUS
  <1>4. \A k \in 1 .. Len(l) - i - 1 : back[k] = l[k + i + 1]
    OBVIOUS
  <1> HIDE DEF front, back
  <1> DEFINE all == front \o back
  <1>5. all \in Seq(Content) /\ Len(all) = Len(l) - 1
    BY <1>2, <1>3
  <1>6. \A k \in 1 .. Len(l) - 1 :
           all[k] = IF k <= i THEN front[k] ELSE back[k - i]
    BY <1>2, <1>3, <1>5
  <1>7. \A k \in 1 .. Len(l) - 1 : all[k] = IF k <= i THEN l[k] ELSE l[k + 1]
    <2> HIDE DEF all
    <2> TAKE k \in 1 .. Len(l) - 1
    <2>1. CASE k <= i
      BY <2>1, <1>2, <1>6
    <2>2. CASE k > i
      <3>1. k - i \in 1 .. Len(l) - i - 1 /\ k - i + i + 1 = k + 1
        BY <2>2
      <3>2. all[k] = back[k - i]
        BY <2>2, <1>6
      <3> QED BY <2>2, <3>1, <3>2, <1>4
    <2> QED BY <2>1, <2>2
  <1> QED BY <1>1, <1>5, <1>7

\* At most one line goes.
LEMMA RemovedType ==
    ASSUME NEW l \in Seq(Content), NEW i \in Nat
    PROVE  RemoveLine(l, i) \in Seq(Content) /\ Len(RemoveLine(l, i)) \in {Len(l), Len(l) - 1}
  <1>1. CASE i < Len(l)
    BY <1>1, Removed
  <1>2. CASE i >= Len(l)
    BY <1>2 DEF RemoveLine
  <1> QED BY <1>1, <1>2

\* An insertion and a removal: what is before both, or behind both, stays.
LEMMA InsertedRemoved ==
    ASSUME NEW l \in Seq(Content), NEW i \in Nat, NEW j \in Nat,
           i <= Len(l), j <= Len(l)
    PROVE  /\ RemoveLine(InsertLine(l, i, Blank), j) \in Seq(Content)
           /\ Len(RemoveLine(InsertLine(l, i, Blank), j)) = Len(l)
           /\ \A k \in 1 .. Len(l) :
                 (k <= i /\ k <= j) \/ (k > i /\ k > j)
                 => RemoveLine(InsertLine(l, i, Blank), j)[k] = l[k]
  <1> DEFINE m == RemoveLine(InsertLine(l, i, Blank), j)
  <1> DEFINE t == InsertLine(l, i, Blank)
  <1>1. t \in Seq(Content) /\ Len(t) = Len(l) + 1
    BY Inserted
  <1>2. \A k \in 1 .. Len(l) + 1 :
           t[k] = IF k <= i THEN l[k] ELSE IF k = i + 1 THEN Blank ELSE l[k - 1]
    BY Inserted
  <1> HIDE DEF t
  <1>b. m = RemoveLine(t, j)
    BY DEF t, m
  <1> HIDE DEF m
  <1>a. j < Len(t) /\ Len(t) - 1 = Len(l)
    BY <1>1
  <1>3. m \in Seq(Content) /\ Len(m) = Len(l)
    BY <1>1, <1>a, <1>b, Removed
  <1>4. \A k \in 1 .. Len(l) : m[k] = IF k <= j THEN t[k] ELSE t[k + 1]
    <2>1. \A k \in 1 .. Len(t) - 1 :
             RemoveLine(t, j)[k] = IF k <= j THEN t[k] ELSE t[k + 1]
      BY <1>1, <1>a, Removed
    <2> QED BY <2>1, <1>a, <1>b
  <1>5. \A k \in 1 .. Len(l) : (k <= i /\ k <= j) \/ (k > i /\ k > j) => m[k] = l[k]
    <2> TAKE k \in 1 .. Len(l)
    <2>1. CASE k <= i /\ k <= j
      BY <2>1, <1>2, <1>4
    <2>2. CASE k > i /\ k > j
      <3>1. m[k] = t[k + 1] /\ k + 1 \in 1 .. Len(l) + 1 /\ (k + 1) - 1 = k
        BY <2>2, <1>4
      <3>2. t[k + 1] = l[(k + 1) - 1]
        BY <2>2, <3>1, <1>2
      <3> QED BY <3>1, <3>2
    <2> QED BY <2>1, <2>2
  <1> QED BY <1>3, <1>5 DEF m

\* The other way round.
LEMMA RemovedInserted ==
    ASSUME NEW l \in Seq(Content), NEW i \in Nat, NEW j \in Nat,
           i < Len(l), j < Len(l)
    PROVE  /\ InsertLine(RemoveLine(l, i), j, Blank) \in Seq(Content)
           /\ Len(InsertLine(RemoveLine(l, i), j, Blank)) = Len(l)
           /\ \A k \in 1 .. Len(l) :
                 (k <= i /\ k <= j) \/ (k > i + 1 /\ k > j + 1)
                 => InsertLine(RemoveLine(l, i), j, Blank)[k] = l[k]
  <1> DEFINE m == InsertLine(RemoveLine(l, i), j, Blank)
  <1> DEFINE t == RemoveLine(l, i)
  <1>1. t \in Seq(Content) /\ Len(t) = Len(l) - 1
    BY Removed
  <1>2. \A k \in 1 .. Len(l) - 1 : t[k] = IF k <= i THEN l[k] ELSE l[k + 1]
    BY Removed
  <1> HIDE DEF t
  <1>b. m = InsertLine(t, j, Blank)
    BY DEF t, m
  <1> HIDE DEF m
  <1>a. j <= Len(t) /\ Len(t) + 1 = Len(l)
    BY <1>1
  <1>3. m \in Seq(Content) /\ Len(m) = Len(l)
    <2>1. m \in Seq(Content) /\ Len(m) = Len(t) + 1
      BY <1>1, <1>b, InsertedType
    <2> QED BY <2>1, <1>a
  <1>4. \A k \in 1 .. Len(l) :
           m[k] = IF k <= j THEN t[k] ELSE IF k = j + 1 THEN Blank ELSE t[k - 1]
    <2>1. \A k \in 1 .. Len(t) + 1 :
             InsertLine(t, j, Blank)[k] = IF k <= j THEN t[k]
                                      ELSE IF k = j + 1 THEN Blank ELSE t[k - 1]
      <3>1. t \in Seq(Content) /\ j <= Len(t)
        BY <1>1, <1>a
      <3> QED BY <3>1, Inserted
    <2> QED BY <2>1, <1>a, <1>b
  <1>5. \A k \in 1 .. Len(l) :
           (k <= i /\ k <= j) \/ (k > i + 1 /\ k > j + 1) => m[k] = l[k]
    BY <1>2, <1>4
  <1> QED BY <1>3, <1>5 DEF m

\* slice keeps the end.
LEMMA Sliced ==
    ASSUME NEW l \in Seq(Content), NEW n \in Nat, n <= Len(l)
    PROVE  /\ LastLines(l, n) \in Seq(Content) /\ Len(LastLines(l, n)) = n
           /\ \A k \in 1 .. n : LastLines(l, n)[k] = l[k + (Len(l) - n)]
  <1>1. CASE n = Len(l)
    BY <1>1 DEF LastLines
  <1>2. CASE n < Len(l)
    BY <1>2 DEF LastLines
  <1> QED BY <1>1, <1>2

-----------------------------------------------------------------------------
(* Screens *)

\* True even when the region is off the screen: every row has a line.
Sound(s) == /\ s \in Screen /\ Len(s.lines) >= s.ybase + Rows
            /\ s.ybase < Scrollback /\ s.ydisp <= s.ybase

Row(s, y) == s.lines[s.ybase + y + 1]

\* Row y is neither between a and b nor one of them.
Outside(y, a, b) == (y < a /\ y < b) \/ (y > a /\ y > b)

\* scroll, as far as the trimming of the scrollback.
LEMMA Trimmed ==
    ASSUME NEW s, Sound(s)
    PROVE  LET full == s.ybase + 1 = Scrollback
               base == IF full THEN (s.ybase + 1) \div 2 ELSE s.ybase + 1
               kept == IF full THEN LastLines(s.lines, base + Rows - 1) ELSE s.lines
           IN  /\ base \in Nat /\ 0 < base /\ base < Scrollback
               /\ kept \in Seq(Content) /\ Len(kept) >= base + Rows - 1
               /\ OnScreen(s) => /\ Len(kept) = base + Rows - 1
                                 /\ \A y \in 0 .. Rows - 1 : kept[base + y] = Row(s, y)
  <1> DEFINE full == s.ybase + 1 = Scrollback
             base == IF full THEN (s.ybase + 1) \div 2 ELSE s.ybase + 1
             kept == IF full THEN LastLines(s.lines, base + Rows - 1) ELSE s.lines
  <1>1. /\ s.lines \in Seq(Content) /\ s.ybase \in Nat /\ Len(s.lines) \in Nat
        /\ Len(s.lines) >= s.ybase + Rows /\ s.ybase < Scrollback
        /\ Rows \in Nat /\ Rows > 0 /\ Scrollback \in Nat /\ Scrollback > 1
    BY TerminalConstants DEF Sound, Screen
  <1>2. CASE full
    <2> DEFINE half == (s.ybase + 1) \div 2
    <2>1. half \in Nat /\ 0 < half /\ half < Scrollback /\ half <= s.ybase
      BY <1>1, <1>2
    <2>2. base = half /\ kept = LastLines(s.lines, half + Rows - 1)
      BY <1>2
    <2> HIDE DEF half, base, kept, full
    <2>3. half + Rows - 1 \in Nat /\ half + Rows - 1 <= Len(s.lines)
      BY <2>1, <1>1
    <2>4. kept \in Seq(Content) /\ Len(kept) = half + Rows - 1
      BY <2>2, <2>3, <1>1, Sliced
    <2>5. \A k \in 1 .. half + Rows - 1 :
             kept[k] = s.lines[k + (Len(s.lines) - (half + Rows - 1))]
      BY <2>2, <2>3, <1>1, Sliced
    <2>6. ASSUME OnScreen(s), NEW y \in 0 .. Rows - 1
          PROVE  kept[half + y] = Row(s, y)
      <3>1. half + y \in 1 .. half + Rows - 1
        BY <2>1, <1>1
      <3>2. half + y + (Len(s.lines) - (half + Rows - 1)) = s.ybase + y + 1
        BY <2>1, <2>6, <1>1 DEF OnScreen
      <3> QED BY <2>5, <3>1, <3>2 DEF Row
    <2> QED BY <2>1, <2>2, <2>4, <2>6 DEF base, kept, full
  <1>3. CASE ~full
    <2>1. base = s.ybase + 1 /\ kept = s.lines
      BY <1>3
    <2>2. base \in Nat /\ 0 < base /\ base < Scrollback
      BY <2>1, <1>1, <1>3
    <2> HIDE DEF base, kept, full
    <2>3. kept \in Seq(Content) /\ Len(kept) >= base + Rows - 1
      BY <2>1, <1>1
    <2>4. OnScreen(s) => Len(kept) = base + Rows - 1
      BY <2>1, <1>1 DEF OnScreen
    <2>5. ASSUME NEW y \in 0 .. Rows - 1
          PROVE  kept[base + y] = Row(s, y)
      <3>1. base + y = s.ybase + y + 1
        BY <2>1, <1>1
      <3> QED BY <3>1, <2>1 DEF Row
    <2> QED BY <2>2, <2>3, <2>4, <2>5 DEF base, kept, full
  <1> QED BY <1>2, <1>3

\* scroll moves the rows of the region only, and the buffer keeps its shape.
LEMMA ScrolledScreen ==
    ASSUME NEW s, Sound(s)
    PROVE  LET t == Scrolled(s)
           IN  /\ Sound(t) /\ t.ydisp = t.ybase
               /\ t.y = s.y /\ t.top = s.top /\ t.bottom = s.bottom
               /\ OnScreen(s) =>
                     /\ OnScreen(t)
                     /\ \A y \in 0 .. Rows - 1 :
                           Outside(y, s.top, s.bottom) => Row(t, y) = Row(s, y)
  <1> DEFINE full == s.ybase + 1 = Scrollback
             base == IF full THEN (s.ybase + 1) \div 2 ELSE s.ybase + 1
             kept == IF full THEN LastLines(s.lines, base + Rows - 1) ELSE s.lines
             more == InsertLine(kept, base + s.bottom, Blank)
             t    == Scrolled(s)
  <1>1. /\ base \in Nat /\ 0 < base /\ base < Scrollback
        /\ kept \in Seq(Content) /\ Len(kept) >= base + Rows - 1
    BY Trimmed
  <1>2. OnScreen(s) => /\ Len(kept) = base + Rows - 1
                       /\ \A y \in 0 .. Rows - 1 : kept[base + y] = Row(s, y)
    BY Trimmed
  <1>3. t = IF s.top = 0
            THEN [s EXCEPT !.lines = more, !.ybase = base, !.ydisp = base]
            ELSE [s EXCEPT !.lines = RemoveLine(more, base - 1 + s.top),
                           !.ybase = base - 1, !.ydisp = base - 1]
    BY DEF Scrolled
  <1>4. /\ s \in Screen /\ s.top \in Nat /\ s.bottom \in Nat /\ s.y \in Nat
        /\ Rows \in Nat /\ Rows > 0 /\ Blank \in Content
    BY TerminalConstants DEF Sound, Screen
  <1> HIDE DEF t, kept, base, full
  <1>5. base + s.bottom \in Nat /\ base - 1 + s.top \in Nat
    BY <1>1, <1>4
  <1>6. more \in Seq(Content) /\ Len(more) = Len(kept) + 1
    BY <1>1, <1>4, <1>5, InsertedType
  <1> HIDE DEF more
  <1>7. CASE s.top = 0
    <2>1. t = [s EXCEPT !.lines = more, !.ybase = base, !.ydisp = base]
      BY <1>3, <1>7
    <2>2. /\ t \in Screen /\ t.lines = more /\ t.ybase = base /\ t.ydisp = base
          /\ t.y = s.y /\ t.top = s.top /\ t.bottom = s.bottom
      BY <2>1, <1>1, <1>4, <1>6 DEF Screen
    <2>3. Sound(t)
      BY <2>2, <1>1, <1>4, <1>6 DEF Sound
    <2>4. ASSUME OnScreen(s) PROVE OnScreen(t)
      BY <2>4, <2>2, <1>1, <1>2, <1>4, <1>6 DEF OnScreen
    <2>5. ASSUME OnScreen(s), NEW y \in 0 .. Rows - 1, Outside(y, s.top, s.bottom)
          PROVE  Row(t, y) = Row(s, y)
      <3>1. y > s.bottom
        BY <2>5, <1>7, <1>4 DEF Outside
      <3>2. base + s.bottom <= Len(kept) /\ base + y + 1 \in 1 .. Len(kept) + 1
        BY <2>5, <1>2, <1>1, <1>4 DEF OnScreen
      <3>3. more[base + y + 1] = kept[(base + y + 1) - 1]
        <4> DEFINE i == base + s.bottom
        <4>1. i \in Nat /\ i <= Len(kept) /\ more = InsertLine(kept, i, Blank)
          BY <3>2, <1>5 DEF more
        <4>2. ~(base + y + 1 <= i) /\ base + y + 1 # i + 1
          BY <3>1, <1>1, <1>4
        <4> HIDE DEF i
        <4>3. \A k \in 1 .. Len(kept) + 1 :
                 more[k] = IF k <= i THEN kept[k] ELSE IF k = i + 1 THEN Blank
                           ELSE kept[k - 1]
          BY <4>1, <1>1, <1>4, Inserted
        <4> QED BY <3>2, <4>2, <4>3
      <3>4. (base + y + 1) - 1 = base + y
        BY <1>1
      <3> QED BY <3>3, <3>4, <2>2, <2>5, <1>2 DEF Row
    <2> QED BY <2>2, <2>3, <2>4, <2>5 DEF t
  <1>8. CASE s.top # 0
    <2> DEFINE less == RemoveLine(more, base - 1 + s.top)
    <2>1. t = [s EXCEPT !.lines = less, !.ybase = base - 1, !.ydisp = base - 1]
      BY <1>3, <1>8
    <2>2. less \in Seq(Content) /\ Len(less) \in {Len(more), Len(more) - 1}
      BY <1>5, <1>6, RemovedType
    <2> HIDE DEF less
    <2> DEFINE low == base - 1
    <2>a. low \in Nat
      BY <1>1
    <2>3. /\ t \in Screen /\ t.lines = less /\ t.ybase = low /\ t.ydisp = low
          /\ t.y = s.y /\ t.top = s.top /\ t.bottom = s.bottom
      <3> HIDE DEF low
      <3>1. t = [s EXCEPT !.lines = less, !.ybase = low, !.ydisp = low]
        BY <2>1 DEF low
      <3> QED BY <3>1, <2>2, <2>a, <1>4 DEF Screen
    <2>4. Sound(t)
      <3>1. Len(less) \in Nat /\ Len(kept) \in Nat /\ Len(more) \in Nat
        BY <2>2, <1>1, <1>6
      <3>2. Len(less) >= Len(kept)
        BY <3>1, <2>2, <1>6
      <3>3. Len(less) >= low + Rows /\ low < Scrollback
        BY <3>1, <3>2, <1>1, <1>4, TerminalConstants
      <3> HIDE DEF low
      <3> QED BY <3>3, <2>3, <2>a DEF Sound
    <2>5. ASSUME OnScreen(s)
          PROVE  /\ base + s.bottom <= Len(kept) /\ base - 1 + s.top <= Len(kept)
                 /\ Len(kept) = base + Rows - 1
      BY <2>5, <1>2, <1>1, <1>4 DEF OnScreen
    <2>6. ASSUME OnScreen(s)
          PROVE  /\ Len(less) = Len(kept)
                 /\ \A k \in 1 .. Len(kept) :
                       \/ k <= base + s.bottom /\ k <= base - 1 + s.top
                       \/ k > base + s.bottom /\ k > base - 1 + s.top
                       => less[k] = kept[k]
      <3> DEFINE i == base + s.bottom
                 j == base - 1 + s.top
      <3>1. i \in Nat /\ j \in Nat /\ i <= Len(kept) /\ j <= Len(kept)
        BY <2>5, <2>6, <1>5
      <3>5. less = RemoveLine(InsertLine(kept, i, Blank), j)
        BY DEF less, more
      <3> HIDE DEF i, j
      <3> HIDE DEF low
      <3>2. kept \in Seq(Content)
        BY <1>1
      <3>3. Len(RemoveLine(InsertLine(kept, i, Blank), j)) = Len(kept)
        BY <3>1, <3>2, InsertedRemoved
      <3>4. \A k \in 1 .. Len(kept) :
               (k <= i /\ k <= j) \/ (k > i /\ k > j)
               => RemoveLine(InsertLine(kept, i, Blank), j)[k] = kept[k]
        BY <3>1, <3>2, InsertedRemoved
      <3> QED BY <3>5, <3>3, <3>4 DEF i, j
    <2>7. ASSUME OnScreen(s) PROVE OnScreen(t)
      <3>1. Len(less) = low + Rows /\ low < Scrollback
        BY <2>7, <2>5, <2>6, <1>1, <1>4, TerminalConstants
      <3>2. s.y < Rows /\ s.top < Rows /\ s.bottom < Rows
        BY <2>7 DEF OnScreen
      <3> HIDE DEF low
      <3> QED BY <3>1, <3>2, <2>3, <2>a DEF OnScreen
    <2>8. ASSUME OnScreen(s), NEW y \in 0 .. Rows - 1, Outside(y, s.top, s.bottom)
          PROVE  Row(t, y) = Row(s, y)
      <3>1. base + y \in 1 .. Len(kept)
        BY <2>5, <2>8, <1>1, <1>4
      <3>2. \/ base + y <= base + s.bottom /\ base + y <= base - 1 + s.top
            \/ base + y > base + s.bottom /\ base + y > base - 1 + s.top
        BY <2>8, <1>1, <1>4 DEF Outside
      <3>3. less[base + y] = kept[base + y]
        BY <2>6, <2>8, <3>1, <3>2
      <3>4. t.ybase + y + 1 = base + y
        BY <2>3, <1>1
      <3> QED BY <3>3, <3>4, <2>3, <2>8, <1>2 DEF Row
    <2> QED BY <2>3, <2>4, <2>7, <2>8 DEF t
  <1> QED BY <1>7, <1>8

\* A screen with other lines.
LEMMA OtherLines ==
    ASSUME NEW s, Sound(s), NEW m \in Seq(Content), Len(m) >= Len(s.lines),
           NEW t, t = [s EXCEPT !.lines = m]
    PROVE  /\ Sound(t) /\ t.lines = m /\ t.ybase = s.ybase /\ t.ydisp = s.ydisp
           /\ t.y = s.y /\ t.top = s.top /\ t.bottom = s.bottom
           /\ OnScreen(s) /\ Len(m) = Len(s.lines) => OnScreen(t)
  <1>1. /\ t \in Screen /\ t.lines = m /\ t.ybase = s.ybase /\ t.ydisp = s.ydisp
        /\ t.y = s.y /\ t.top = s.top /\ t.bottom = s.bottom
    BY DEF Sound, Screen
  <1>2. /\ s.ybase \in Nat /\ Rows \in Nat /\ Len(m) \in Nat /\ Len(s.lines) \in Nat
        /\ Len(s.lines) >= s.ybase + Rows
    BY TerminalConstants DEF Sound, Screen
  <1>3. Len(m) >= s.ybase + Rows
    BY <1>2
  <1>4. Sound(t)
    BY <1>1, <1>3 DEF Sound
  <1>5. OnScreen(s) /\ Len(m) = Len(s.lines) => OnScreen(t)
    BY <1>1 DEF OnScreen
  <1> QED BY <1>1, <1>4, <1>5

\* A blank row inserted at a, a row removed at b.
LEMMA RowInsertedRemoved ==
    ASSUME NEW s, Sound(s), NEW a \in Nat, NEW b \in Nat,
           NEW t, t = [s EXCEPT !.lines =
                         RemoveLine(InsertLine(s.lines, s.ybase + a, Blank), s.ybase + b)]
    PROVE  /\ Sound(t) /\ t.ybase = s.ybase /\ t.ydisp = s.ydisp
           /\ t.y = s.y /\ t.top = s.top /\ t.bottom = s.bottom
           /\ OnScreen(s) /\ a <= Rows /\ b <= Rows =>
                 /\ OnScreen(t)
                 /\ \A y \in 0 .. Rows - 1 :
                       (y < a /\ y < b) \/ (y >= a /\ y >= b) => Row(t, y) = Row(s, y)
  <1> DEFINE l == s.lines
             i == s.ybase + a
             j == s.ybase + b
             m == RemoveLine(InsertLine(l, i, Blank), j)
  <1>1. l \in Seq(Content) /\ s.ybase \in Nat /\ Rows \in Nat /\ i \in Nat /\ j \in Nat
    BY TerminalConstants DEF Sound, Screen
  <1>2. t = [s EXCEPT !.lines = m]
    OBVIOUS
  <1>3. m \in Seq(Content) /\ Len(m) >= Len(l)
    <2> HIDE DEF l, i, j
    <2>1. InsertLine(l, i, Blank) \in Seq(Content) /\ Len(InsertLine(l, i, Blank)) = Len(l) + 1
      BY <1>1, InsertedType
    <2>2. m \in Seq(Content) /\ Len(m) \in {Len(l) + 1, Len(l)}
      <3> DEFINE n == InsertLine(l, i, Blank)
      <3> HIDE DEF n
      <3>1. n \in Seq(Content) /\ Len(n) = Len(l) + 1 /\ Len(l) \in Nat
        BY <2>1, <1>1 DEF n
      <3>2. RemoveLine(n, j) \in Seq(Content) /\ Len(RemoveLine(n, j)) \in {Len(n), Len(n) - 1}
        BY <3>1, <1>1, RemovedType
      <3> QED BY <3>1, <3>2 DEF n
    <2> HIDE DEF m
    <2> QED BY <2>2, <1>1
  <1>4. /\ Sound(t) /\ t.lines = m /\ t.ybase = s.ybase /\ t.ydisp = s.ydisp
        /\ t.y = s.y /\ t.top = s.top /\ t.bottom = s.bottom
        /\ OnScreen(s) /\ Len(m) = Len(l) => OnScreen(t)
    <2> HIDE DEF m
    <2> QED BY <1>2, <1>3, OtherLines
  <1>5. ASSUME OnScreen(s), a <= Rows, b <= Rows
        PROVE  /\ OnScreen(t)
               /\ \A y \in 0 .. Rows - 1 :
                     (y < a /\ y < b) \/ (y >= a /\ y >= b) => Row(t, y) = Row(s, y)
    <2>1. i <= Len(l) /\ j <= Len(l) /\ Len(l) = s.ybase + Rows
      BY <1>5, <1>1 DEF OnScreen
    <2>2. /\ Len(m) = Len(l)
          /\ \A k \in 1 .. Len(l) : (k <= i /\ k <= j) \/ (k > i /\ k > j) => m[k] = l[k]
      <3> HIDE DEF l, i, j
      <3> QED BY <2>1, <1>1, InsertedRemoved
    <2> HIDE DEF m
    <2>3. ASSUME NEW y \in 0 .. Rows - 1, (y < a /\ y < b) \/ (y >= a /\ y >= b)
          PROVE  Row(t, y) = Row(s, y)
      <3> DEFINE k == s.ybase + y + 1
      <3>1. k \in 1 .. Len(l)
        <4>1. s.ybase \in Nat /\ Rows \in Nat /\ Len(l) = s.ybase + Rows
          BY <2>1, <1>1
        <4> HIDE DEF l
        <4> QED BY <4>1
      <3>2. (k <= i /\ k <= j) \/ (k > i /\ k > j)
        <4>1. CASE y < a /\ y < b
          <5>1. k <= i /\ k <= j
            BY <4>1, <1>1
          <5> QED BY <5>1
        <4>2. CASE y >= a /\ y >= b
          <5>1. k > i /\ k > j
            BY <4>2, <1>1
          <5> QED BY <5>1
        <4> QED BY <2>3, <4>1, <4>2
      <3>3. m[k] = l[k]
        <4> HIDE DEF k, i, j, l
        <4> QED BY <2>2, <3>1, <3>2
      <3> QED BY <3>3, <1>4 DEF Row
    <2> QED BY <1>4, <1>5, <2>2, <2>3
  <1> QED BY <1>4, <1>5

\* A row removed at a, a blank row inserted at b.
LEMMA RowRemovedInserted ==
    ASSUME NEW s, Sound(s), NEW a \in Nat, NEW b \in Nat,
           NEW t, t = [s EXCEPT !.lines =
                         InsertLine(RemoveLine(s.lines, s.ybase + a), s.ybase + b, Blank)]
    PROVE  /\ Sound(t) /\ t.ybase = s.ybase /\ t.ydisp = s.ydisp
           /\ t.y = s.y /\ t.top = s.top /\ t.bottom = s.bottom
           /\ OnScreen(s) /\ a < Rows /\ b < Rows =>
                 /\ OnScreen(t)
                 /\ \A y \in 0 .. Rows - 1 : Outside(y, a, b) => Row(t, y) = Row(s, y)
  <1> DEFINE l == s.lines
             i == s.ybase + a
             j == s.ybase + b
             m == InsertLine(RemoveLine(l, i), j, Blank)
  <1>1. l \in Seq(Content) /\ s.ybase \in Nat /\ Rows \in Nat /\ i \in Nat /\ j \in Nat
    BY TerminalConstants DEF Sound, Screen
  <1>2. t = [s EXCEPT !.lines = m]
    OBVIOUS
  <1>3. m \in Seq(Content) /\ Len(m) >= Len(l)
    <2> HIDE DEF l, i, j
    <2> DEFINE n == RemoveLine(l, i)
    <2>0. Len(l) \in Nat
      BY <1>1
    <2>1. n \in Seq(Content) /\ Len(n) \in {Len(l), Len(l) - 1}
      BY <1>1, RemovedType
    <2> HIDE DEF n
    <2>2. InsertLine(n, j, Blank) \in Seq(Content) /\ Len(InsertLine(n, j, Blank)) = Len(n) + 1
      BY <2>1, <1>1, InsertedType
    <2>3. Len(n) \in Nat
      BY <2>1
    <2>4. Len(InsertLine(n, j, Blank)) >= Len(l)
      BY <2>0, <2>1, <2>2, <2>3
    <2> QED BY <2>2, <2>4 DEF n
  <1>4. /\ Sound(t) /\ t.lines = m /\ t.ybase = s.ybase /\ t.ydisp = s.ydisp
        /\ t.y = s.y /\ t.top = s.top /\ t.bottom = s.bottom
        /\ OnScreen(s) /\ Len(m) = Len(l) => OnScreen(t)
    <2> HIDE DEF m
    <2> QED BY <1>2, <1>3, OtherLines
  <1>5. ASSUME OnScreen(s), a < Rows, b < Rows
        PROVE  /\ OnScreen(t)
               /\ \A y \in 0 .. Rows - 1 : Outside(y, a, b) => Row(t, y) = Row(s, y)
    <2>1. i < Len(l) /\ j < Len(l) /\ Len(l) = s.ybase + Rows
      BY <1>5, <1>1 DEF OnScreen
    <2>2. /\ Len(m) = Len(l)
          /\ \A k \in 1 .. Len(l) :
                (k <= i /\ k <= j) \/ (k > i + 1 /\ k > j + 1) => m[k] = l[k]
      <3> HIDE DEF l, i, j
      <3> QED BY <2>1, <1>1, RemovedInserted
    <2> HIDE DEF m
    <2>3. ASSUME NEW y \in 0 .. Rows - 1, Outside(y, a, b)
          PROVE  Row(t, y) = Row(s, y)
      <3> DEFINE k == s.ybase + y + 1
      <3>1. k \in 1 .. Len(l)
        <4>1. s.ybase \in Nat /\ Rows \in Nat /\ Len(l) = s.ybase + Rows
          BY <2>1, <1>1
        <4> HIDE DEF l
        <4> QED BY <4>1
      <3>2. (k <= i /\ k <= j) \/ (k > i + 1 /\ k > j + 1)
        <4>1. CASE y < a /\ y < b
          BY <4>1, <1>1
        <4>2. CASE y > a /\ y > b
          BY <4>2, <1>1
        <4> QED BY <2>3, <4>1, <4>2 DEF Outside
      <3>3. m[k] = l[k]
        <4> HIDE DEF k, i, j, l
        <4> QED BY <2>2, <3>1, <3>2
      <3> QED BY <3>3, <1>4 DEF Row
    <2> QED BY <1>4, <1>5, <2>2, <2>3
  <1> QED BY <1>4, <1>5

\* One row rewritten.
LEMMA RowSet ==
    ASSUME NEW s, Sound(s), NEW a \in Nat, HasLine(s, a), NEW c \in Content,
           NEW t, t = SetLine(s, a, c)
    PROVE  /\ Sound(t) /\ t.ybase = s.ybase /\ t.ydisp = s.ydisp
           /\ t.y = s.y /\ t.top = s.top /\ t.bottom = s.bottom
           /\ OnScreen(s) => OnScreen(t)
           /\ \A y \in 0 .. Rows - 1 : y # a => Row(t, y) = Row(s, y)
  <1> DEFINE i == s.ybase + a + 1
             m == [s.lines EXCEPT ![i] = c]
  <1>1. s.lines \in Seq(Content) /\ s.ybase \in Nat /\ Rows \in Nat
    BY TerminalConstants DEF Sound, Screen
  <1>2. i \in 1 .. Len(s.lines)
    BY <1>1 DEF HasLine
  <1>3. m \in Seq(Content) /\ Len(m) = Len(s.lines)
    BY <1>1, <1>2
  <1>4. t = [s EXCEPT !.lines = m]
    BY DEF SetLine
  <1>5. \A k \in 1 .. Len(s.lines) : k # i => m[k] = s.lines[k]
    BY <1>1, <1>2
  <1> HIDE DEF m
  <1>6. /\ Sound(t) /\ t.lines = m /\ t.ybase = s.ybase /\ t.ydisp = s.ydisp
        /\ t.y = s.y /\ t.top = s.top /\ t.bottom = s.bottom
        /\ OnScreen(s) => OnScreen(t)
    BY <1>3, <1>4, <1>1, OtherLines
  <1>7. ASSUME NEW y \in 0 .. Rows - 1, y # a
        PROVE  Row(t, y) = Row(s, y)
    <2>1. s.ybase + y + 1 \in 1 .. Len(s.lines) /\ s.ybase + y + 1 # i
      BY <1>1, <1>7 DEF Sound
    <2> QED BY <2>1, <1>5, <1>6 DEF Row
  <1> QED BY <1>6, <1>7

\* Another text for a line of the buffer.
LEMMA Retexted ==
    ASSUME NEW l \in Seq(Content), NEW t \in Text, NEW i \in DOMAIN l
    PROVE  [text |-> t, gap |-> l[i].gap] \in Content
  <1>1. l[i] \in Content
    OBVIOUS
  <1>2. l[i].gap \in BOOLEAN
    BY <1>1 DEF Content
  <1> QED BY <1>2, Zenon DEF Content

\* And for some of them.
LEMMA RetextedLines ==
    ASSUME NEW l \in Seq(Content), NEW t \in Text, NEW ks,
           NEW m, m = [i \in DOMAIN l |-> IF i \in ks THEN [text |-> t, gap |-> l[i].gap]
                                          ELSE l[i]]
    PROVE  /\ m \in Seq(Content) /\ Len(m) = Len(l)
           /\ \A k \in 1 .. Len(l) : k \notin ks => m[k] = l[k]
  <1> DEFINE e(i) == [text |-> t, gap |-> l[i].gap]
  <1>1. \A i \in DOMAIN l : e(i) \in Content
    BY Retexted
  <1>2. m = [i \in DOMAIN l |-> IF i \in ks THEN e(i) ELSE l[i]]
    OBVIOUS
  <1>3. DOMAIN l = 1 .. Len(l) /\ Len(l) \in Nat
    OBVIOUS
  <1> HIDE DEF e
  <1>4. \A i \in 1 .. Len(l) : m[i] \in Content /\ (i \notin ks => m[i] = l[i])
    BY <1>1, <1>2, <1>3
  <1>5. m \in Seq(Content) /\ Len(m) = Len(l)
    BY <1>2, <1>3, <1>4
  <1> QED BY <1>4, <1>5

\* What is written is a line.
LEMMA WrittenLine ==
    ASSUME NEW s, Sound(s), NEW a \in Nat, HasLine(s, a), NEW t \in Text
    PROVE  \E c \in Content : Written(s, a, t) = SetLine(s, a, c)
  <1>1. s.lines \in Seq(Content) /\ s.ybase + a + 1 \in 1 .. Len(s.lines)
    BY DEF Sound, Screen, HasLine
  <1>2. LineOf(s, a) \in Content
    BY <1>1 DEF LineOf
  <1>3. [text |-> t, gap |-> LineOf(s, a).gap] \in Content
    BY <1>2 DEF Content
  <1> QED BY <1>3 DEF Written

\* Some rows erased.
LEMMA RowsErased ==
    ASSUME NEW s, Sound(s), NEW ys, NEW t, t = Erased(s, ys)
    PROVE  /\ Sound(t) /\ t.ybase = s.ybase /\ t.ydisp = s.ydisp
           /\ t.y = s.y /\ t.top = s.top /\ t.bottom = s.bottom
           /\ OnScreen(s) => OnScreen(t)
           /\ \A y \in 0 .. Rows - 1 : y \notin ys => Row(t, y) = Row(s, y)
  <1> DEFINE ks == {i \in DOMAIN s.lines : i - 1 - s.ybase \in ys}
             m == [i \in DOMAIN s.lines |->
                     IF i \in ks THEN [text |-> Space, gap |-> s.lines[i].gap]
                     ELSE s.lines[i]]
  <1>1. s.lines \in Seq(Content) /\ s.ybase \in Nat /\ Rows \in Nat
    BY TerminalConstants DEF Sound, Screen
  <1>2. /\ m \in Seq(Content) /\ Len(m) = Len(s.lines)
        /\ \A k \in 1 .. Len(s.lines) : k \notin ks => m[k] = s.lines[k]
    <2> HIDE DEF ks
    <2> QED BY <1>1, TerminalAssumption, RetextedLines
  <1>3. t = [s EXCEPT !.lines = m]
    BY Zenon DEF Erased
  <1>4. \A k \in 1 .. Len(s.lines) : k - 1 - s.ybase \notin ys => m[k] = s.lines[k]
    BY <1>2
  <1> HIDE DEF m
  <1>5. /\ Sound(t) /\ t.lines = m /\ t.ybase = s.ybase /\ t.ydisp = s.ydisp
        /\ t.y = s.y /\ t.top = s.top /\ t.bottom = s.bottom
        /\ OnScreen(s) => OnScreen(t)
    BY <1>1, <1>2, <1>3, OtherLines
  <1>6. ASSUME NEW y \in 0 .. Rows - 1, y \notin ys
        PROVE  Row(t, y) = Row(s, y)
    <2>1. s.ybase + y + 1 \in 1 .. Len(s.lines) /\ (s.ybase + y + 1) - 1 - s.ybase = y
      BY <1>1, <1>6 DEF Sound
    <2> QED BY <2>1, <1>4, <1>5, <1>6 DEF Row
  <1> QED BY <1>5, <1>6

-----------------------------------------------------------------------------
(* The inductive invariant *)

ScreensInv ==
    /\ Sound(screen) /\ (writing => screen.ydisp = screen.ybase)
    /\ normal # NoScreen => Sound(normal) /\ normal.ydisp = normal.ybase

\* One timer at most, and it is there while a painting is ordered.
OneTimer(p) == /\ Len(p.timers) <= 1 /\ (p.queued <=> p.timers # <<>>)
               /\ p.full => p.queued

\* Without a region off the screen every row that is named is on the screen.
NamedInv ==
    ~bad => /\ savedY < Rows /\ range.end < Rows
            /\ painter.timers # <<>> => Head(painter.timers).end < Rows

\* While a write goes on, a row with another text, or one that shows the cursor
\* (which may since have left it), is ordered or in the range.
PendingInv ==
    ~bad /\ ~unmarked /\ writing =>
        \A y \in 0 .. Rows - 1 :
            dom[y].text # Shown(y).text \/ dom[y].cursor =>
                Ordered(y) \/ y \in range.start .. range.end

Inv == /\ RowTypes /\ ScreensInv /\ BufferBounded
       /\ OneTimer(painter) /\ NamedInv
       /\ Displayed /\ PendingInv

Ranges == [start : Nat, end : Nat]

\* updateRange
LEMMA UpdatedRange ==
    ASSUME NEW r \in Ranges, NEW y \in Nat
    PROVE  /\ Updated(r, y) \in Ranges
           /\ Updated(r, y).start <= r.start /\ r.end <= Updated(r, y).end
           /\ Updated(r, y).start <= y /\ y <= Updated(r, y).end
           /\ r.end < Rows /\ y < Rows => Updated(r, y).end < Rows
  BY TerminalConstants DEF Ranges, Updated

\* An empty screen is sound.
LEMMA FreshScreen == Sound(Fresh) /\ OnScreen(Fresh) /\ Fresh.ydisp = Fresh.ybase /\ Fresh.y = 0
  <1>1. /\ Rows \in Nat /\ Rows > 0 /\ Scrollback \in Nat /\ Scrollback > 1
        /\ Blank \in Content
    BY TerminalConstants
  <1> DEFINE l == [i \in 1 .. Rows |-> Blank]
  <1>2. l \in Seq(Content) /\ Len(l) = Rows
    BY <1>1
  <1>3. /\ Fresh.lines = l /\ Fresh.ybase = 0 /\ Fresh.ydisp = 0 /\ Fresh.y = 0
        /\ Fresh.top = 0 /\ Fresh.bottom = Rows - 1
        /\ Fresh = [lines |-> l, ybase |-> 0, ydisp |-> 0, y |-> 0, top |-> 0,
                    bottom |-> Rows - 1]
    BY DEF Fresh
  <1> HIDE DEF l
  <1>4. Fresh \in Screen
    BY <1>1, <1>2, <1>3 DEF Screen
  <1> QED BY <1>1, <1>2, <1>3, <1>4 DEF Sound, OnScreen

\* A row has a type when it is painted.
LEMMA ShownType ==
    ASSUME RowTypes, Sound(screen), NEW y \in 0 .. Rows - 1
    PROVE  Shown(y) \in [text : Text, cursor : BOOLEAN]
  <1>1. /\ screen.lines \in Seq(Content) /\ screen.ydisp \in Nat /\ screen.ybase \in Nat
        /\ screen.y \in Nat /\ Rows \in Nat
    BY TerminalConstants DEF Sound, Screen
  <1>2. screen.ydisp + y + 1 \in 1 .. Len(screen.lines)
    BY <1>1 DEF Sound
  <1>3. screen.lines[screen.ydisp + y + 1] \in Content
    BY <1>1, <1>2
  <1>4. screen.lines[screen.ydisp + y + 1].text \in Text
    BY <1>3 DEF Content
  <1> QED BY <1>4 DEF Shown, RowTypes

\* And after a step.
LEMMA ShownPrimeType ==
    ASSUME RowTypes', Sound(screen)', NEW y \in 0 .. Rows - 1
    PROVE  Shown(y)' \in [text : Text, cursor : BOOLEAN]
  <1>1. /\ screen'.lines \in Seq(Content) /\ screen'.ydisp \in Nat
        /\ screen'.ybase \in Nat /\ screen'.y \in Nat /\ Rows \in Nat
    BY TerminalConstants DEF Sound, Screen
  <1>2. screen'.ydisp + y + 1 \in 1 .. Len(screen'.lines)
    BY <1>1 DEF Sound
  <1>3. screen'.lines[screen'.ydisp + y + 1] \in Content
    BY <1>1, <1>2
  <1>4. screen'.lines[screen'.ydisp + y + 1].text \in Text
    BY <1>3 DEF Content
  <1> QED BY <1>4 DEF Shown, RowTypes

\* The page starts so.
LEMMA InitInv == Init => Inv
  <1> SUFFICES ASSUME Init PROVE Inv
    OBVIOUS
  <1>1. Sound(screen) /\ OnScreen(screen) /\ screen.ydisp = screen.ybase /\ screen.y = 0
    BY FreshScreen DEF Init
  <1>2. Rows \in Nat /\ Rows > 0
    BY TerminalConstants
  <1>3. screen \in Screen /\ normal = NoScreen /\ savedY = 0 /\ ops = 0
    BY <1>1 DEF Init, Sound
  <1>4. painter.timers = <<>> /\ painter.queued = FALSE /\ painter.full = FALSE
    BY DEF Init
  <1>5. painter \in Painter
    BY DEF Init, Painter
  <1>6. \A y \in 0 .. Rows - 1 : Shown(y) \in [text : Text, cursor : BOOLEAN]
    <2> TAKE y \in 0 .. Rows - 1
    <2>1. screen.lines \in Seq(Content) /\ screen.ydisp + y + 1 \in 1 .. Len(screen.lines)
      BY <1>1, <1>2 DEF Sound, Screen
    <2>2. screen.lines[screen.ydisp + y + 1] \in Content
      BY <2>1
    <2>3. screen.lines[screen.ydisp + y + 1].text \in Text
      BY <2>2 DEF Content
    <2> QED BY <2>3 DEF Shown, Init
  <1>7. RowTypes
    <2>1. dom \in [0 .. Rows - 1 -> [text : Text, cursor : BOOLEAN]]
      BY <1>6 DEF Init
    <2>2. range \in [start : Nat, end : Nat]
      BY DEF Init, NoRange
    <2>3. normal \in Screen \cup {NoScreen} /\ savedY \in Nat /\ ops \in Nat
      BY <1>3
    <2> QED BY <1>3, <1>5, <2>1, <2>2, <2>3 DEF RowTypes, Init
  <1>8. ScreensInv /\ BufferBounded
    BY <1>1, <1>3 DEF ScreensInv, BufferBounded, Init
  <1>9. OneTimer(painter) /\ NamedInv
    <2>1. OneTimer(painter)
      <3>1. Len(painter.timers) = 0
        BY <1>4
      <3>2. Len(painter.timers) <= 1
        BY <3>1
      <3> QED BY <1>4, <3>2 DEF OneTimer
    <2>2. range.end = 0
      BY DEF Init, NoRange
    <2>3. NamedInv
      BY <1>2, <1>3, <1>4, <2>2 DEF NamedInv
    <2> QED BY <2>1, <2>3
  <1>10. Displayed /\ PendingInv
    BY DEF Displayed, PendingInv, Init
  <1> QED BY <1>7, <1>8, <1>9, <1>10 DEF Inv

-----------------------------------------------------------------------------
(* Orders *)

\* refresh: what was ordered stays ordered, and the new rows are.
LEMMA Refreshed ==
    ASSUME NEW p \in Painter, OneTimer(p), NEW a \in Nat, NEW b \in Nat,
           NEW q, q = Refresh(p, a, b)
    PROVE  /\ q \in Painter /\ OneTimer(q) /\ q.timers # <<>>
           /\ \A y \in 0 .. Rows - 1 : y \in a .. b => y \in Paint(q, Rows)
           /\ \A y \in 0 .. Rows - 1 :
                 p.timers # <<>> /\ y \in Paint(p, Rows) => y \in Paint(q, Rows)
           /\ (p.timers # <<>> => Head(p.timers).end < Rows) /\ b < Rows
                 => Head(q.timers).end < Rows
  <1> DEFINE T == [start : Nat, end : Int]
  <1>1. /\ p.timers \in Seq(T) /\ p.queued \in BOOLEAN /\ p.full \in BOOLEAN
        /\ p = [queued |-> p.queued, full |-> p.full, timers |-> p.timers]
    BY DEF Painter
  <1>2. CASE p.queued
    <2>1. q = [p EXCEPT !.full = TRUE]
      BY <1>2 DEF Refresh
    <2>2. q.timers = p.timers /\ q.queued = p.queued /\ q.full = TRUE /\ q \in Painter
      BY <2>1, <1>1 DEF Painter
    <2>3. p.timers # <<>>
      BY <1>2 DEF OneTimer
    <2>4. OneTimer(q)
      BY <2>2, <1>2 DEF OneTimer
    <2>5. Paint(q, Rows) = 0 .. Rows - 1
      BY <2>2 DEF Paint
    <2> QED BY <2>2, <2>3, <2>4, <2>5
  <1>3. CASE ~p.queued
    <2> DEFINE n == [start |-> a, end |-> b]
    <2>1. p.timers = <<>> /\ ~p.full
      BY <1>3 DEF OneTimer
    <2>2. q = [p EXCEPT !.queued = TRUE, !.timers = Append(p.timers, n)]
      BY <1>3 DEF Refresh
    <2>3. n \in T /\ n.start = a /\ n.end = b
      OBVIOUS
    <2> HIDE DEF n
    <2>4. Append(p.timers, n) \in Seq(T) /\ Append(p.timers, n) = <<n>>
      BY <2>1, <2>3, <1>1
    <2>5. q.timers = <<n>> /\ q.queued = TRUE /\ q.full = p.full /\ q \in Painter
      BY <2>2, <2>4, <1>1 DEF Painter
    <2>6. Len(<<n>>) = 1 /\ <<n>> # <<>> /\ Head(<<n>>) = n
      OBVIOUS
    <2>7. OneTimer(q)
      BY <2>1, <2>5, <2>6 DEF OneTimer
    <2>8. Paint(q, Rows) = a .. b
      BY <2>1, <2>3, <2>5, <2>6 DEF Paint
    <2> QED BY <2>1, <2>3, <2>5, <2>6, <2>7, <2>8
  <1> QED BY <1>1, <1>2, <1>3

\* A step that orders every row keeps the invariant, if the screens are sound.
LEMMA OrdersAll ==
    ASSUME Inv, NEW p \in Painter, OneTimer(p), p.timers # <<>>, painter' = p,
           \A y \in 0 .. Rows - 1 : y \in Paint(p, Rows),
           ~bad => Head(p.timers).end < Rows,
           Sound(screen'), writing => screen'.ydisp = screen'.ybase,
           normal' = NoScreen \/ (Sound(normal') /\ normal'.ydisp = normal'.ybase),
           ~bad => OnScreen(screen') /\ (normal' = NoScreen \/ OnScreen(normal')),
           cursor' \in BOOLEAN, hidden' \in BOOLEAN, ops' \in Nat,
           UNCHANGED <<savedY, writing, range, dom, mounted, thrown, bad, unmarked>>
    PROVE  Inv'
  <1>1. RowTypes'
    BY DEF Inv, RowTypes, Sound
  <1>2. ScreensInv' /\ BufferBounded'
    BY DEF ScreensInv, BufferBounded
  <1>3. OneTimer(painter)' /\ NamedInv'
    BY DEF Inv, NamedInv, OneTimer
  <1>4. \A y \in 0 .. Rows - 1 : Ordered(y)'
    BY DEF Ordered
  <1>5. Displayed' /\ PendingInv'
    BY <1>4 DEF Displayed, PendingInv
  <1> QED BY <1>1, <1>2, <1>3, <1>5 DEF Inv

\* So does a step of a write that marks the rows it changes.
LEMMA MarksAll ==
    ASSUME Inv, writing, NEW s, NEW r \in Ranges, screen' = s, range' = r,
           Sound(s), s.ydisp = s.ybase, r.start <= range.start, range.end <= r.end,
           cursor' \in BOOLEAN, hidden' \in BOOLEAN, unmarked' \in BOOLEAN,
           bad' \in BOOLEAN, savedY' \in Nat, ops' \in Nat,
           bad => bad', unmarked => unmarked',
           ~bad' => OnScreen(s) /\ r.end < Rows /\ savedY' < Rows,
           ~bad' /\ ~unmarked' =>
               \A y \in 0 .. Rows - 1 : Row(s, y) = Row(screen, y) \/ y \in r.start .. r.end,
           UNCHANGED <<normal, writing, painter, dom, mounted, thrown>>
    PROVE  Inv'
  <1>1. RowTypes'
    BY DEF Inv, RowTypes, Sound, Ranges
  <1>2. ScreensInv' /\ BufferBounded'
    BY DEF Inv, ScreensInv, BufferBounded
  <1>3. OneTimer(painter)' /\ NamedInv'
    BY DEF Inv, NamedInv, OneTimer
  <1>4. ASSUME ~bad', ~unmarked', NEW y \in 0 .. Rows - 1
        PROVE  /\ dom'[y].text # Shown(y)'.text \/ dom'[y].cursor =>
                     Ordered(y)' \/ y \in r.start .. r.end
               /\ Shown(y)'.cursor => s.y = y
    <2>1. /\ range.start \in Nat /\ range.end \in Nat /\ r.start \in Nat /\ r.end \in Nat
          /\ Rows \in Nat
      BY TerminalConstants DEF Inv, RowTypes, Ranges
    <2>2. Shown(y)'.text = Row(s, y).text /\ (Shown(y)'.cursor => s.y = y)
      BY DEF Shown, Row, Sound, Screen
    <2>3. screen.ydisp = screen.ybase
      BY DEF Inv, ScreensInv
    <2>4. Shown(y).text = Row(screen, y).text
      BY <2>3 DEF Shown, Row
    <2>5. dom'[y] = dom[y] /\ Ordered(y)' = Ordered(y)
      BY DEF Ordered
    <2>6. y \in range.start .. range.end => y \in r.start .. r.end
      BY <2>1
    <2>7. dom[y].text # Shown(y).text \/ dom[y].cursor =>
             Ordered(y) \/ y \in range.start .. range.end
      BY <1>4 DEF Inv, PendingInv
    <2>8. Row(s, y) = Row(screen, y) \/ y \in r.start .. r.end
      BY <1>4
    <2> QED BY <2>2, <2>4, <2>5, <2>6, <2>7, <2>8
  <1>5. PendingInv'
    BY <1>4 DEF PendingInv
  <1>6. Displayed'
    <2> SUFFICES ASSUME ~bad', ~unmarked', NEW y \in 0 .. Rows - 1, dom'[y] # Shown(y)'
                 PROVE  Ordered(y)' \/ Marked(y)'
      BY DEF Displayed
    <2>1. dom'[y] \in [text : Text, cursor : BOOLEAN]
      BY <1>1 DEF RowTypes
    <2>2. Shown(y)' \in [text : Text, cursor : BOOLEAN]
      <3>1. Sound(screen)'
        BY <1>2 DEF ScreensInv
      <3> QED BY <1>1, <3>1, ShownPrimeType
    <2>3. \/ dom'[y].text # Shown(y)'.text \/ dom'[y].cursor \/ Shown(y)'.cursor
      BY <2>1, <2>2
    <2>4. writing' = TRUE
      BY DEF Inv, RowTypes
    <2> QED BY <2>3, <2>4, <1>4 DEF Marked
  <1> QED BY <1>1, <1>2, <1>3, <1>5, <1>6 DEF Inv

-----------------------------------------------------------------------------
(* The steps of a write *)

\* What a step of a write starts from.
LEMMA Writing ==
    ASSUME Inv, writing
    PROVE  /\ Sound(screen) /\ screen.ydisp = screen.ybase
           /\ screen.ybase \in Nat /\ screen.y \in Nat /\ screen.top \in Nat
           /\ screen.bottom \in Nat /\ range \in Ranges /\ savedY \in Nat
           /\ Rows \in Nat /\ Rows > 0
           /\ range.start \in Nat /\ range.end \in Nat
           /\ ~bad => /\ OnScreen(screen) /\ range.end < Rows /\ savedY < Rows
                      /\ screen.y < Rows /\ screen.top < Rows /\ screen.bottom < Rows
  <1>1. Rows \in Nat /\ Rows > 0
    BY TerminalConstants
  <1>2. Sound(screen) /\ screen.ydisp = screen.ybase
    BY DEF Inv, ScreensInv
  <1>3. range \in Ranges /\ savedY \in Nat
    BY DEF Inv, RowTypes, Ranges
  <1>4. /\ screen.ybase \in Nat /\ screen.y \in Nat /\ screen.top \in Nat
        /\ screen.bottom \in Nat
    BY <1>2 DEF Sound, Screen
  <1>5. ~bad => /\ OnScreen(screen) /\ range.end < Rows /\ savedY < Rows
                /\ screen.y < Rows /\ screen.top < Rows /\ screen.bottom < Rows
    BY DEF Inv, BufferBounded, NamedInv, OnScreen
  <1>6. range.start \in Nat /\ range.end \in Nat
    BY <1>3 DEF Ranges
  <1> QED BY <1>1, <1>2, <1>3, <1>4, <1>5, <1>6

\* A screen and a range that a step may leave.
Good(s, r) ==
    /\ Sound(s) /\ s.ydisp = s.ybase
    /\ r \in Ranges /\ r.start <= range.start /\ range.end <= r.end
    /\ ~bad => /\ OnScreen(s) /\ r.end < Rows
               /\ \A y \in 0 .. Rows - 1 :
                     Row(s, y) = Row(screen, y) \/ y \in r.start .. r.end

\* To leave them keeps the invariant.
LEMMA BecomesInv ==
    ASSUME Inv, Op, NEW s, NEW r, Good(s, r), Becomes(s, r)
    PROVE  Inv'
  <1>1. writing /\ ops' \in Nat
    BY DEF Op, Inv, RowTypes
  <1>2. ~bad => savedY < Rows
    BY <1>1, Writing
  <1>3. /\ cursor' \in BOOLEAN /\ hidden' \in BOOLEAN /\ unmarked' \in BOOLEAN
        /\ bad' \in BOOLEAN /\ savedY' \in Nat /\ bad' = bad /\ unmarked' = unmarked
        /\ savedY' = savedY /\ screen' = s /\ range' = r
        /\ UNCHANGED <<normal, writing, painter, dom, mounted, thrown>>
    BY DEF Becomes, Inv, RowTypes
  <1> QED BY <1>1, <1>2, <1>3, MarksAll DEF Good

\* To throw does: what has changed is not marked.
LEMMA ThrowsInv ==
    ASSUME Inv, Op, NEW s, Sound(s), ~bad => OnScreen(s), Throws(s)
    PROVE  Inv'
  <1>1. ops' \in Nat
    BY DEF Op, Inv, RowTypes
  <1>2. RowTypes'
    BY <1>1 DEF Inv, RowTypes, Throws, Sound, NoRange
  <1>3. ScreensInv' /\ OneTimer(painter)' /\ BufferBounded'
    BY DEF Inv, ScreensInv, Throws, OneTimer, BufferBounded
  <1>4. NamedInv'
    <2>1. range'.end = 0 /\ 0 < Rows
      BY TerminalConstants DEF Throws, NoRange
    <2> QED BY <2>1 DEF Inv, NamedInv, Throws
  <1>5. Displayed' /\ PendingInv'
    BY DEF Displayed, PendingInv, Throws
  <1> QED BY <1>2, <1>3, <1>4, <1>5 DEF Inv

\* Nothing moved.
LEMMA GoodNow == ASSUME Inv, writing PROVE Good(screen, range)
  BY Writing DEF Good, Ranges

\* The cursor moved, on the screen unless a bad region lets it leave.
LEMMA GoodCursor ==
    ASSUME Inv, writing, NEW y \in Nat, ~bad => y < Rows
    PROVE  Good([screen EXCEPT !.y = y], range)
  <1> DEFINE s == [screen EXCEPT !.y = y]
  <1>1. /\ s \in Screen /\ s.lines = screen.lines /\ s.ybase = screen.ybase
        /\ s.ydisp = screen.ydisp /\ s.y = y /\ s.top = screen.top
        /\ s.bottom = screen.bottom
    BY Writing DEF Sound, Screen
  <1> HIDE DEF s
  <1>2. Sound(s) /\ (~bad => OnScreen(s))
    BY <1>1, Writing DEF Sound, OnScreen
  <1>3. \A z \in 0 .. Rows - 1 : Row(s, z) = Row(screen, z)
    BY <1>1 DEF Row
  <1>4. Good(s, range)
    BY <1>1, <1>2, <1>3, Writing DEF Good, Ranges
  <1> QED BY <1>4 DEF s

\* A line feed.
LEMMA GoodLineFed ==
    ASSUME Inv, writing
    PROVE  /\ Good(LineFed(screen), LineFedRange(screen, range))
           /\ LineFed(screen).y \in Nat
  <1>1. CASE screen.y + 1 > screen.bottom
    <2> DEFINE s == Scrolled(screen)
               q == Updated(range, screen.top)
               r == Updated(q, screen.bottom)
    <2>1. LineFed(screen) = s /\ LineFedRange(screen, range) = r
      BY <1>1 DEF LineFed, LineFedRange, RegionUpdated
    <2>2. /\ Sound(s) /\ s.ydisp = s.ybase /\ s.y = screen.y
          /\ OnScreen(screen) =>
                /\ OnScreen(s)
                /\ \A y \in 0 .. Rows - 1 :
                      Outside(y, screen.top, screen.bottom) => Row(s, y) = Row(screen, y)
      BY Writing, ScrolledScreen
    <2>3. /\ q \in Ranges /\ q.start <= range.start /\ range.end <= q.end
          /\ q.start <= screen.top /\ screen.top <= q.end
          /\ range.end < Rows /\ screen.top < Rows => q.end < Rows
      BY Writing, UpdatedRange
    <2> HIDE DEF q, s
    <2>4. /\ r \in Ranges /\ r.start <= q.start /\ q.end <= r.end
          /\ r.start <= screen.bottom /\ screen.bottom <= r.end
          /\ q.end < Rows /\ screen.bottom < Rows => r.end < Rows
      BY <2>3, Writing, UpdatedRange
    <2> HIDE DEF r
    <2>5. r.start \in Nat /\ r.end \in Nat /\ q.start \in Nat /\ q.end \in Nat
      BY <2>3, <2>4 DEF Ranges
    <2>6. r.start <= range.start /\ range.end <= r.end
      BY <2>3, <2>4, <2>5, Writing
    <2>7. ASSUME ~bad, NEW y \in 0 .. Rows - 1
          PROVE  Row(s, y) = Row(screen, y) \/ y \in r.start .. r.end
      <3>1. Outside(y, screen.top, screen.bottom) \/ y \in r.start .. r.end
        BY <2>3, <2>4, <2>5, Writing DEF Outside
      <3> QED BY <3>1, <2>2, <2>7, Writing
    <2>8. ~bad => r.end < Rows
      BY <2>3, <2>4, Writing
    <2>9. Good(s, r)
      BY <2>2, <2>4, <2>6, <2>7, <2>8, Writing DEF Good
    <2> QED BY <2>1, <2>2, <2>9, Writing
  <1>2. CASE ~(screen.y + 1 > screen.bottom)
    <2>1. LineFed(screen) = [screen EXCEPT !.y = screen.y + 1]
      BY <1>2 DEF LineFed
    <2>2. LineFedRange(screen, range) = range
      BY <1>2 DEF LineFedRange
    <2>3. screen.y + 1 \in Nat /\ (~bad => screen.y + 1 < Rows)
      BY <1>2, Writing
    <2>4. LineFed(screen).y = screen.y + 1
      BY <2>1, Writing DEF Sound, Screen
    <2> QED BY <2>1, <2>2, <2>3, <2>4, GoodCursor
  <1> QED BY <1>1, <1>2

\* A row rewritten, and marked, after what was good.
LEMMA GoodSet ==
    ASSUME Inv, writing, NEW s, NEW r, Good(s, r), HasLine(s, s.y), s.y \in Nat,
           NEW c \in Content
    PROVE  Good(SetLine(s, s.y, c), Updated(r, s.y))
  <1> DEFINE a == s.y
             t == SetLine(s, a, c)
             u == Updated(r, a)
  <1>1. /\ Sound(t) /\ t.ybase = s.ybase /\ t.ydisp = s.ydisp
        /\ OnScreen(s) => OnScreen(t)
        /\ \A y \in 0 .. Rows - 1 : y # a => Row(t, y) = Row(s, y)
    BY RowSet DEF Good
  <1>2. /\ u \in Ranges /\ u.start <= r.start /\ r.end <= u.end
        /\ u.start <= a /\ a <= u.end /\ (r.end < Rows /\ a < Rows => u.end < Rows)
    BY UpdatedRange DEF Good
  <1>3. r \in Ranges /\ r.start \in Nat /\ r.end \in Nat
    BY DEF Good, Ranges
  <1> HIDE DEF t, u
  <1>4. u.start \in Nat /\ u.end \in Nat
    BY <1>2 DEF Ranges
  <1>5. u.start <= range.start /\ range.end <= u.end
    <2>1. r.start <= range.start /\ range.end <= r.end
      BY DEF Good
    <2> QED BY <2>1, <1>2, <1>3, <1>4, Writing
  <1>6. ~bad => OnScreen(t) /\ u.end < Rows
    <2>1. ~bad => OnScreen(s) /\ r.end < Rows /\ a < Rows
      BY DEF Good, OnScreen
    <2> QED BY <2>1, <1>1, <1>2
  <1>7. ASSUME ~bad, NEW y \in 0 .. Rows - 1
        PROVE  Row(t, y) = Row(screen, y) \/ y \in u.start .. u.end
    <2>1. Row(s, y) = Row(screen, y) \/ y \in r.start .. r.end
      BY <1>7 DEF Good
    <2>2. y \in r.start .. r.end \/ y = a => y \in u.start .. u.end
      BY <1>2, <1>3, <1>4
    <2> QED BY <2>1, <2>2, <1>1
  <1>8. t.ydisp = t.ybase
    BY <1>1 DEF Good
  <1>9. Good(t, u)
    BY <1>1, <1>2, <1>5, <1>6, <1>7, <1>8 DEF Good
  <1> QED BY <1>9 DEF t, u

\* Rows erased, within the range.
LEMMA GoodErased ==
    ASSUME Inv, writing, NEW s, NEW r, Good(s, r), NEW ys, NEW u \in Ranges,
           u.start <= r.start, r.end <= u.end, ~bad => u.end < Rows,
           ~bad => \A y \in 0 .. Rows - 1 : y \in ys => y \in u.start .. u.end
    PROVE  Good(Erased(s, ys), u)
  <1> DEFINE t == Erased(s, ys)
  <1>1. /\ Sound(t) /\ t.ybase = s.ybase /\ t.ydisp = s.ydisp
        /\ OnScreen(s) => OnScreen(t)
        /\ \A y \in 0 .. Rows - 1 : y \notin ys => Row(t, y) = Row(s, y)
    BY RowsErased DEF Good
  <1> HIDE DEF t
  <1>2. /\ r.start \in Nat /\ r.end \in Nat /\ u.start \in Nat /\ u.end \in Nat
        /\ r.start <= range.start /\ range.end <= r.end
    BY DEF Good, Ranges
  <1>3. u.start <= range.start /\ range.end <= u.end
    BY <1>2, Writing
  <1>4. ASSUME ~bad, NEW y \in 0 .. Rows - 1
        PROVE  Row(t, y) = Row(screen, y) \/ y \in u.start .. u.end
    <2>1. Row(s, y) = Row(screen, y) \/ y \in r.start .. r.end
      BY <1>4 DEF Good
    <2>2. y \in r.start .. r.end => y \in u.start .. u.end
      BY <1>2
    <2>3. y \in ys => y \in u.start .. u.end
      BY <1>4
    <2> QED BY <2>1, <2>2, <2>3, <1>1
  <1>5. t.ydisp = t.ybase /\ (~bad => OnScreen(t))
    BY <1>1 DEF Good
  <1>6. Good(t, u)
    BY <1>1, <1>3, <1>4, <1>5 DEF Good
  <1> QED BY <1>6 DEF t

\* Two rows marked: all between them are.
LEMMA Marking ==
    ASSUME NEW r \in Ranges, NEW a \in Nat, NEW b \in Nat,
           NEW u, u = Updated(Updated(r, a), b)
    PROVE  /\ u \in Ranges /\ u.start <= r.start /\ r.end <= u.end
           /\ u.start <= a /\ u.start <= b /\ a <= u.end /\ b <= u.end
           /\ r.end < Rows /\ a < Rows /\ b < Rows => u.end < Rows
           /\ \A y \in 0 .. Rows - 1 : ~Outside(y, a, b) => y \in u.start .. u.end
  <1> DEFINE q == Updated(r, a)
  <1>1. /\ q \in Ranges /\ q.start <= r.start /\ r.end <= q.end
        /\ q.start <= a /\ a <= q.end /\ (r.end < Rows /\ a < Rows => q.end < Rows)
    BY UpdatedRange
  <1>2. u = Updated(q, b)
    OBVIOUS
  <1> HIDE DEF q
  <1>3. /\ u \in Ranges /\ u.start <= q.start /\ q.end <= u.end
        /\ u.start <= b /\ b <= u.end /\ (q.end < Rows /\ b < Rows => u.end < Rows)
    BY <1>1, <1>2, UpdatedRange
  <1>4. /\ r.start \in Nat /\ r.end \in Nat /\ q.start \in Nat /\ q.end \in Nat
        /\ u.start \in Nat /\ u.end \in Nat /\ Rows \in Nat
    BY <1>1, <1>3, TerminalConstants DEF Ranges
  <1>5. /\ u.start <= r.start /\ r.end <= u.end /\ u.start <= a /\ a <= u.end
    BY <1>1, <1>3, <1>4
  <1>6. ASSUME NEW y \in 0 .. Rows - 1, ~Outside(y, a, b)
        PROVE  y \in u.start .. u.end
    BY <1>3, <1>4, <1>5, <1>6 DEF Outside
  <1> QED BY <1>1, <1>3, <1>5, <1>6

\* Lines moved between two rows that are marked.
LEMMA GoodMoved ==
    ASSUME Inv, writing, NEW t, NEW a \in Nat, NEW b \in Nat,
           ~bad => a < Rows /\ b < Rows,
           Sound(t), t.ydisp = t.ybase, ~bad => OnScreen(t),
           ~bad => \A y \in 0 .. Rows - 1 : Outside(y, a, b) => Row(t, y) = Row(screen, y),
           NEW u, u = Updated(Updated(range, a), b)
    PROVE  Good(t, u)
  <1>1. /\ u \in Ranges /\ u.start <= range.start /\ range.end <= u.end
        /\ range.end < Rows /\ a < Rows /\ b < Rows => u.end < Rows
        /\ \A y \in 0 .. Rows - 1 : ~Outside(y, a, b) => y \in u.start .. u.end
    BY Writing, Marking
  <1>2. ~bad => u.end < Rows
    BY <1>1, Writing
  <1> QED BY <1>1, <1>2 DEF Good

\* A row without a line is below the screen.
LEMMA NoLine ==
    ASSUME Inv, writing, NEW s, NEW r, Good(s, r), s.y \in Nat, ~HasLine(s, s.y)
    PROVE  bad
  <1> SUFFICES ASSUME ~bad PROVE FALSE
    OBVIOUS
  <1>1. Len(s.lines) = s.ybase + Rows /\ s.y < Rows /\ s.ybase \in Nat
    BY DEF Good, OnScreen, Sound, Screen
  <1> QED BY <1>1, Writing DEF HasLine

LEMMA LineFeedInv == ASSUME Inv, LineFeed PROVE Inv'
  <1>1. Op /\ writing /\ Becomes(LineFed(screen), LineFedRange(screen, range))
    BY DEF LineFeed, Op
  <1> QED BY <1>1, GoodLineFed, BecomesInv

LEMMA PutCharInv == ASSUME Inv, PutChar PROVE Inv'
  <1>1. Op /\ writing
    BY DEF PutChar, Op
  <1>2. PICK wraps \in BOOLEAN, t \in Text :
           LET s == IF wraps THEN LineFed(screen) ELSE screen
               r == IF wraps THEN LineFedRange(screen, range) ELSE range
           IN  IF HasLine(s, s.y)
               THEN \/ Becomes(Written(s, s.y, t), Updated(r, s.y))
                    \/ LineOf(s, s.y).gap /\ Throws(Written(s, s.y, t))
               ELSE Throws(s)
    BY DEF PutChar
  <1> DEFINE s == IF wraps THEN LineFed(screen) ELSE screen
             r == IF wraps THEN LineFedRange(screen, range) ELSE range
  <1>3. Good(s, r) /\ s.y \in Nat
    BY <1>1, GoodLineFed, GoodNow, Writing
  <1>4. IF HasLine(s, s.y)
        THEN Becomes(Written(s, s.y, t), Updated(r, s.y)) \/ Throws(Written(s, s.y, t))
        ELSE Throws(s)
    BY <1>2
  <1> HIDE DEF s, r
  <1>5. CASE HasLine(s, s.y)
    <2>1. PICK c \in Content : Written(s, s.y, t) = SetLine(s, s.y, c)
      BY <1>3, <1>5, WrittenLine DEF Good
    <2>2. CASE Becomes(SetLine(s, s.y, c), Updated(r, s.y))
      BY <1>1, <1>3, <1>5, <2>2, GoodSet, BecomesInv
    <2>3. CASE Throws(SetLine(s, s.y, c))
      <3>1. /\ Sound(SetLine(s, s.y, c))
            /\ OnScreen(s) => OnScreen(SetLine(s, s.y, c))
        BY <1>3, <1>5, RowSet DEF Good
      <3>2. ~bad => OnScreen(s)
        BY <1>3 DEF Good
      <3> QED BY <1>1, <2>3, <3>1, <3>2, ThrowsInv
    <2> QED BY <1>4, <1>5, <2>1, <2>2, <2>3
  <1>6. CASE ~HasLine(s, s.y)
    <2>1. bad /\ Sound(s)
      BY <1>1, <1>3, <1>6, NoLine DEF Good
    <2> QED BY <1>1, <1>4, <1>6, <2>1, ThrowsInv
  <1> QED BY <1>5, <1>6

\* Every line keeps its place when texts are changed anywhere.
LEMMA RowsTexted ==
    ASSUME NEW s, Sound(s), NEW t \in Text, NEW ks,
           NEW u, u = [s EXCEPT !.lines = [i \in DOMAIN s.lines |->
                         IF i \in ks THEN [text |-> t, gap |-> s.lines[i].gap]
                         ELSE s.lines[i]]]
    PROVE  Sound(u) /\ u.ybase = s.ybase /\ u.ydisp = s.ydisp /\ (OnScreen(s) => OnScreen(u))
  <1> DEFINE l == s.lines
             m == [i \in DOMAIN l |->
                     IF i \in ks THEN [text |-> t, gap |-> l[i].gap] ELSE l[i]]
  <1>1. l \in Seq(Content)
    BY DEF Sound, Screen
  <1>2. u = [s EXCEPT !.lines = m]
    OBVIOUS
  <1> HIDE DEF l
  <1>3. m \in Seq(Content) /\ Len(m) = Len(l)
    BY <1>1, RetextedLines
  <1> HIDE DEF m
  <1>4. Len(m) = Len(s.lines)
    BY <1>3 DEF l
  <1> QED BY <1>2, <1>3, <1>4, OtherLines

LEMMA PutCombiningInv == ASSUME Inv, PutCombining PROVE Inv'
  <1>1. Op /\ writing /\ ops' \in Nat /\ Good(screen, range) /\ screen.y \in Nat
    BY GoodNow, Writing DEF PutCombining, Op, Inv, RowTypes
  <1>2. CASE Becomes(screen, range)
    BY <1>1, <1>2, BecomesInv
  <1>3. CASE HasLine(screen, screen.y) /\ \E t \in Text :
                Becomes(Written(screen, screen.y, t), Updated(range, screen.y))
    <2>1. PICK t \in Text : Becomes(Written(screen, screen.y, t), Updated(range, screen.y))
      BY <1>3
    <2>2. PICK c \in Content : Written(screen, screen.y, t) = SetLine(screen, screen.y, c)
      BY <1>1, <1>3, Writing, WrittenLine
    <2>3. Becomes(SetLine(screen, screen.y, c), Updated(range, screen.y))
      BY <2>1, <2>2
    <2> QED BY <1>1, <1>3, <2>3, GoodSet, BecomesInv
  <1>4. CASE ~HasLine(screen, screen.y) /\ Throws(screen)
    <2>1. bad /\ Sound(screen)
      BY <1>1, <1>4, NoLine, Writing
    <2> QED BY <1>1, <1>4, <2>1, ThrowsInv
  <1>5. CASE /\ HasLine(screen, screen.y)
             /\ \E t \in Text, others \in SUBSET DOMAIN screen.lines :
                   screen' = [Written(screen, screen.y, t) EXCEPT !.lines =
                                [i \in DOMAIN @ |-> IF i \in others
                                   THEN [text |-> t, gap |-> @[i].gap] ELSE @[i]]]
             /\ range' = Updated(range, screen.y)
             /\ smeared' = TRUE /\ unmarked' = TRUE
             /\ UNCHANGED <<normal, savedY, cursor, hidden, writing, painter, dom,
                            mounted, thrown, bad, shared, gapped>>
    <2>1. PICK t \in Text, others \in SUBSET DOMAIN screen.lines :
             screen' = [Written(screen, screen.y, t) EXCEPT !.lines =
                          [i \in DOMAIN Written(screen, screen.y, t).lines |->
                             IF i \in others
                             THEN [text |-> t, gap |-> Written(screen, screen.y, t).lines[i].gap]
                             ELSE Written(screen, screen.y, t).lines[i]]]
      BY <1>5
    <2>2. PICK c \in Content : Written(screen, screen.y, t) = SetLine(screen, screen.y, c)
      BY <1>1, <1>5, Writing, WrittenLine
    <2> DEFINE w == SetLine(screen, screen.y, c)
    <2>3. /\ Sound(w) /\ w.ybase = screen.ybase /\ w.ydisp = screen.ydisp
          /\ OnScreen(screen) => OnScreen(w)
      BY <1>1, <1>5, Writing, RowSet
    <2>4. screen' = [w EXCEPT !.lines = [i \in DOMAIN w.lines |->
                       IF i \in others THEN [text |-> t, gap |-> w.lines[i].gap]
                       ELSE w.lines[i]]]
      BY <2>1, <2>2
    <2> HIDE DEF w
    <2>5. /\ Sound(screen') /\ screen'.ybase = w.ybase /\ screen'.ydisp = w.ydisp
          /\ OnScreen(w) => OnScreen(screen')
      BY <2>3, <2>4, RowsTexted
    <2> DEFINE u == Updated(range, screen.y)
    <2>6. /\ u \in Ranges /\ u.start <= range.start /\ range.end <= u.end
          /\ range.end < Rows /\ screen.y < Rows => u.end < Rows
      BY <1>1, Writing, UpdatedRange
    <2>7. /\ unmarked' = TRUE /\ cursor' \in BOOLEAN /\ hidden' \in BOOLEAN
          /\ bad' \in BOOLEAN /\ savedY' \in Nat
          /\ bad' = bad /\ savedY' = savedY /\ range' = u
          /\ UNCHANGED <<normal, writing, painter, dom, mounted, thrown>>
      BY <1>5 DEF Inv, RowTypes
    <2> HIDE DEF u
    <2>8. /\ screen'.ydisp = screen'.ybase
          /\ ~bad => OnScreen(screen') /\ u.end < Rows /\ savedY < Rows
      BY <1>1, <2>3, <2>5, <2>6, Writing
    <2> DEFINE s == screen'
    <2>9. screen' = s
      OBVIOUS
    <2>10. Sound(s) /\ s.ydisp = s.ybase /\ (~bad => OnScreen(s) /\ u.end < Rows /\ savedY < Rows)
      BY <2>5, <2>8
    <2> HIDE DEF s
    <2> QED BY <1>1, <2>6, <2>7, <2>9, <2>10, MarksAll
  <1> QED BY <1>2, <1>3, <1>4, <1>5 DEF PutCombining

LEMMA CursorUpInv == ASSUME Inv, CursorUp PROVE Inv'
  <1> DEFINE y == IF screen.y = 0 THEN 0 ELSE screen.y - 1
  <1>1. Op /\ writing /\ Becomes([screen EXCEPT !.y = y], range)
    BY DEF CursorUp, Op
  <1>2. y \in Nat /\ (~bad => y < Rows)
    BY <1>1, Writing
  <1> HIDE DEF y
  <1> QED BY <1>1, <1>2, GoodCursor, BecomesInv

LEMMA CursorDownInv == ASSUME Inv, CursorDown PROVE Inv'
  <1> DEFINE y == IF screen.y + 1 >= Rows THEN Rows - 1 ELSE screen.y + 1
  <1>1. Op /\ writing /\ Becomes([screen EXCEPT !.y = y], range)
    BY DEF CursorDown, Op
  <1>2. y \in Nat /\ (~bad => y < Rows)
    BY <1>1, Writing
  <1> HIDE DEF y
  <1> QED BY <1>1, <1>2, GoodCursor, BecomesInv

LEMMA CursorPosInv == ASSUME Inv, CursorPos PROVE Inv'
  <1>1. Op /\ writing
    BY DEF CursorPos, Op
  <1>2. PICK y \in 0 .. Rows - 1 : Becomes([screen EXCEPT !.y = y], range)
    BY DEF CursorPos
  <1>3. y \in Nat /\ (~bad => y < Rows)
    BY <1>1, Writing
  <1> QED BY <1>1, <1>2, <1>3, GoodCursor, BecomesInv

LEMMA RestoreCursorInv == ASSUME Inv, RestoreCursor PROVE Inv'
  <1>1. Op /\ writing /\ Becomes([screen EXCEPT !.y = savedY], range)
    BY DEF RestoreCursor, Op
  <1>2. savedY \in Nat /\ (~bad => savedY < Rows)
    BY <1>1, Writing
  <1> QED BY <1>1, <1>2, GoodCursor, BecomesInv

\* The cursor's row marked, although it has no line.
LEMMA GoodMark == ASSUME Inv, writing PROVE Good(screen, Updated(range, screen.y))
  <1> DEFINE u == Updated(range, screen.y)
  <1>1. /\ u \in Ranges /\ u.start <= range.start /\ range.end <= u.end
        /\ range.end < Rows /\ screen.y < Rows => u.end < Rows
    BY Writing, UpdatedRange
  <1> HIDE DEF u
  <1>2. Good(screen, u)
    BY <1>1, Writing DEF Good
  <1> QED BY <1>2 DEF u

LEMMA EraseInLineInv == ASSUME Inv, EraseInLine PROVE Inv'
  <1>1. Op /\ writing /\ Good(screen, range) /\ screen.y \in Nat
    BY GoodNow, Writing DEF EraseInLine, Op
  <1>2. CASE HasLine(screen, screen.y)
    <2>1. PICK t \in Text :
             Becomes(Written(screen, screen.y, t), Updated(range, screen.y))
      BY <1>2 DEF EraseInLine
    <2>2. PICK c \in Content : Written(screen, screen.y, t) = SetLine(screen, screen.y, c)
      BY <1>1, <1>2, Writing, WrittenLine
    <2>3. Becomes(SetLine(screen, screen.y, c), Updated(range, screen.y))
      BY <2>1, <2>2
    <2> QED BY <1>1, <1>2, <2>3, GoodSet, BecomesInv
  <1>3. CASE ~HasLine(screen, screen.y)
    <2>1. bad /\ Sound(screen)
      BY <1>1, <1>3, NoLine, Writing
    <2>2. CASE Throws(screen)
      BY <1>1, <2>1, <2>2, ThrowsInv
    <2>3. CASE Becomes(screen, Updated(range, screen.y))
      BY <1>1, <2>3, GoodMark, BecomesInv
    <2> QED BY <1>3, <2>2, <2>3 DEF EraseInLine
  <1> QED BY <1>2, <1>3

LEMMA EraseBelowInv == ASSUME Inv, EraseBelow PROVE Inv'
  <1> DEFINE y == screen.y
             q == Updated(range, y)
             r == IF y + 1 < Rows THEN Updated(q, Rows - 1) ELSE q
  <1>1. Op /\ writing /\ Good(screen, range) /\ y \in Nat
    BY GoodNow, Writing DEF EraseBelow, Op
  <1>2. IF HasLine(screen, y)
        THEN \E t \in Text : Becomes(Erased(Written(screen, y, t), y + 1 .. Rows - 1), r)
        ELSE Throws(screen) \/ Becomes(screen, r)
    BY DEF EraseBelow
  <1>3. /\ q \in Ranges /\ q.start <= range.start /\ range.end <= q.end
        /\ q.start <= y /\ y <= q.end /\ (range.end < Rows /\ y < Rows => q.end < Rows)
    BY <1>1, Writing, UpdatedRange
  <1> HIDE DEF q
  <1>4. Rows - 1 \in Nat /\ Rows - 1 < Rows
    BY <1>1, Writing
  <1>5. /\ r \in Ranges /\ r.start <= q.start /\ q.end <= r.end
        /\ y + 1 < Rows => Rows - 1 <= r.end
        /\ q.end < Rows => r.end < Rows
    <2>1. CASE y + 1 < Rows
      <3>1. r = Updated(q, Rows - 1)
        BY <2>1
      <3> QED BY <3>1, <1>3, <1>4, UpdatedRange
    <2>2. CASE ~(y + 1 < Rows)
      <3>1. r = q /\ q.start \in Nat /\ q.end \in Nat
        BY <2>2, <1>3 DEF Ranges
      <3> HIDE DEF r
      <3> QED BY <2>2, <3>1, <1>3
    <2> QED BY <2>1, <2>2
  <1> HIDE DEF r
  <1>6. /\ q.start \in Nat /\ q.end \in Nat /\ r.start \in Nat /\ r.end \in Nat
    BY <1>3, <1>5 DEF Ranges
  <1>7. ~bad => r.end < Rows
    BY <1>1, <1>3, <1>5, Writing
  <1>8. CASE HasLine(screen, y)
    <2>a. PICK t \in Text : Becomes(Erased(Written(screen, y, t), y + 1 .. Rows - 1), r)
      BY <1>2, <1>8
    <2>b. PICK c \in Content : Written(screen, y, t) = SetLine(screen, y, c)
      BY <1>1, <1>8, Writing, WrittenLine
    <2>1. Becomes(Erased(SetLine(screen, y, c), y + 1 .. Rows - 1), r)
      BY <2>a, <2>b
    <2> DEFINE s == SetLine(screen, y, c)
    <2>2. Good(s, q)
      BY <1>1, <1>8, GoodSet DEF q
    <2> HIDE DEF s
    <2>3. \A z \in 0 .. Rows - 1 : z \in y + 1 .. Rows - 1 => z \in r.start .. r.end
      BY <1>1, <1>3, <1>5, <1>6, Writing
    <2>4. Good(Erased(s, y + 1 .. Rows - 1), r)
      BY <1>1, <1>5, <1>7, <2>2, <2>3, GoodErased
    <2> QED BY <1>1, <2>1, <2>4, BecomesInv DEF s
  <1>9. CASE ~HasLine(screen, y)
    <2>1. bad /\ Sound(screen)
      BY <1>1, <1>9, NoLine, Writing
    <2>2. CASE Throws(screen)
      BY <1>1, <2>1, <2>2, ThrowsInv
    <2>3. CASE Becomes(screen, r)
      <3>1. Good(screen, r)
        BY <1>1, <1>3, <1>5, <1>6, <2>1, Writing DEF Good
      <3> QED BY <1>1, <2>3, <3>1, BecomesInv
    <2> QED BY <1>2, <1>9, <2>2, <2>3
  <1> QED BY <1>8, <1>9

LEMMA EraseAboveInv == ASSUME Inv, EraseAbove PROVE Inv'
  <1> DEFINE y == screen.y
             q == Updated(range, y)
             r == Updated(q, 0)
  <1>1. Op /\ writing /\ Good(screen, range) /\ y \in Nat
    BY GoodNow, Writing DEF EraseAbove, Op
  <1>2. IF HasLine(screen, y)
        THEN \E t \in Text : Becomes(Erased(Written(screen, y, t), 0 .. y - 1), r)
        ELSE Throws(screen)
    BY DEF EraseAbove
  <1>3. /\ q \in Ranges /\ q.start <= range.start /\ range.end <= q.end
        /\ q.start <= y /\ y <= q.end /\ (range.end < Rows /\ y < Rows => q.end < Rows)
    BY <1>1, Writing, UpdatedRange
  <1> HIDE DEF q
  <1>4. /\ r \in Ranges /\ r.start <= q.start /\ q.end <= r.end /\ r.start <= 0
        /\ q.end < Rows /\ 0 < Rows => r.end < Rows
    BY <1>3, UpdatedRange
  <1> HIDE DEF r
  <1>5. /\ q.start \in Nat /\ q.end \in Nat /\ r.start \in Nat /\ r.end \in Nat
    BY <1>3, <1>4 DEF Ranges
  <1>6. ~bad => r.end < Rows
    BY <1>1, <1>3, <1>4, Writing
  <1>7. CASE HasLine(screen, y)
    <2>a. PICK t \in Text : Becomes(Erased(Written(screen, y, t), 0 .. y - 1), r)
      BY <1>2, <1>7
    <2>b. PICK c \in Content : Written(screen, y, t) = SetLine(screen, y, c)
      BY <1>1, <1>7, Writing, WrittenLine
    <2>1. Becomes(Erased(SetLine(screen, y, c), 0 .. y - 1), r)
      BY <2>a, <2>b
    <2> DEFINE s == SetLine(screen, y, c)
    <2>2. Good(s, q)
      BY <1>1, <1>7, GoodSet DEF q
    <2> HIDE DEF s
    <2>3. \A z \in 0 .. Rows - 1 : z \in 0 .. y - 1 => z \in r.start .. r.end
      BY <1>1, <1>3, <1>4, <1>5, Writing
    <2>4. Good(Erased(s, 0 .. y - 1), r)
      BY <1>1, <1>4, <1>6, <2>2, <2>3, GoodErased
    <2> QED BY <1>1, <2>1, <2>4, BecomesInv DEF s
  <1>8. CASE ~HasLine(screen, y)
    <2>1. bad /\ Sound(screen)
      BY <1>1, <1>8, NoLine, Writing
    <2> QED BY <1>1, <1>2, <1>8, <2>1, ThrowsInv
  <1> QED BY <1>7, <1>8

LEMMA EraseAllInv == ASSUME Inv, EraseAll PROVE Inv'
  <1> DEFINE r == Updated(Updated(range, Rows - 1), 0)
  <1>1. Op /\ writing /\ Good(screen, range) /\ Becomes(Erased(screen, 0 .. Rows - 1), r)
    BY GoodNow DEF EraseAll, Op
  <1>2. Rows - 1 \in Nat /\ 0 \in Nat /\ Rows - 1 < Rows /\ 0 < Rows
    BY <1>1, Writing
  <1>3. /\ r \in Ranges /\ r.start <= range.start /\ range.end <= r.end
        /\ r.start <= 0 /\ Rows - 1 <= r.end
        /\ range.end < Rows /\ Rows - 1 < Rows /\ 0 < Rows => r.end < Rows
    <2> DEFINE last == Rows - 1
    <2>1. range \in Ranges /\ last \in Nat /\ 0 \in Nat /\ r = Updated(Updated(range, last), 0)
      BY <1>1, <1>2, Writing
    <2> HIDE DEF last, r
    <2>2. /\ r \in Ranges /\ r.start <= range.start /\ range.end <= r.end
          /\ r.start <= 0 /\ last <= r.end
          /\ range.end < Rows /\ last < Rows /\ 0 < Rows => r.end < Rows
      BY <2>1, Marking
    <2> QED BY <2>2 DEF last
  <1> HIDE DEF r
  <1>a. r.start \in Nat /\ r.end \in Nat /\ Rows \in Nat
    BY <1>1, <1>3, Writing DEF Ranges
  <1>4. \A z \in 0 .. Rows - 1 : z \in r.start .. r.end
    BY <1>3, <1>a
  <1>6. ~bad => r.end < Rows
    BY <1>1, <1>2, <1>3, Writing
  <1>5. Good(Erased(screen, 0 .. Rows - 1), r)
    BY <1>1, <1>3, <1>4, <1>6, GoodErased
  <1> QED BY <1>1, <1>5, BecomesInv

LEMMA InsertLinesInv == ASSUME Inv, InsertLines PROVE Inv'
  <1> DEFINE t == [screen EXCEPT !.lines =
                     RemoveLine(InsertLine(screen.lines, screen.ybase + screen.y, Blank),
                                screen.ybase + screen.bottom + 1)]
             u == Updated(Updated(range, screen.y), screen.bottom)
  <1>1. Op /\ writing /\ Becomes(t, u)
    BY DEF InsertLines, Op
  <1>2. screen.bottom + 1 \in Nat /\ screen.ybase + screen.bottom + 1 = screen.ybase + (screen.bottom + 1)
    BY <1>1, Writing
  <1>3. t = [screen EXCEPT !.lines =
               RemoveLine(InsertLine(screen.lines, screen.ybase + screen.y, Blank),
                          screen.ybase + (screen.bottom + 1))]
    BY <1>2
  <1> HIDE DEF t
  <1>4. /\ Sound(t) /\ t.ybase = screen.ybase /\ t.ydisp = screen.ydisp
        /\ OnScreen(screen) /\ screen.y <= Rows /\ screen.bottom + 1 <= Rows =>
              /\ OnScreen(t)
              /\ \A y \in 0 .. Rows - 1 :
                    \/ y < screen.y /\ y < screen.bottom + 1
                    \/ y >= screen.y /\ y >= screen.bottom + 1
                    => Row(t, y) = Row(screen, y)
    BY <1>1, <1>2, <1>3, Writing, RowInsertedRemoved
  <1>5. ~bad => screen.y <= Rows /\ screen.bottom + 1 <= Rows /\ OnScreen(screen)
    BY <1>1, Writing
  <1>6. \A y \in 0 .. Rows - 1 : Outside(y, screen.y, screen.bottom) =>
            \/ y < screen.y /\ y < screen.bottom + 1
            \/ y >= screen.y /\ y >= screen.bottom + 1
    BY <1>1, Writing DEF Outside
  <1>7. t.ydisp = t.ybase /\ (~bad => OnScreen(t))
    BY <1>1, <1>4, <1>5, Writing
  <1>8. ~bad => \A y \in 0 .. Rows - 1 :
                   Outside(y, screen.y, screen.bottom) => Row(t, y) = Row(screen, y)
    BY <1>4, <1>5, <1>6
  <1>9. Good(t, u)
    BY <1>1, <1>4, <1>7, <1>8, Writing, GoodMoved
  <1> QED BY <1>1, <1>9, BecomesInv

LEMMA DeleteLinesInv == ASSUME Inv, DeleteLines PROVE Inv'
  <1> DEFINE t == [screen EXCEPT !.lines =
                     RemoveLine(InsertLine(screen.lines, screen.ybase + screen.bottom + 1, Blank),
                                screen.ybase + screen.y)]
             u == Updated(Updated(range, screen.y), screen.bottom)
  <1>1. Op /\ writing /\ Becomes(t, u)
    BY DEF DeleteLines, Op
  <1>2. screen.bottom + 1 \in Nat /\ screen.ybase + screen.bottom + 1 = screen.ybase + (screen.bottom + 1)
    BY <1>1, Writing
  <1>3. t = [screen EXCEPT !.lines =
               RemoveLine(InsertLine(screen.lines, screen.ybase + (screen.bottom + 1), Blank),
                          screen.ybase + screen.y)]
    BY <1>2
  <1> HIDE DEF t
  <1>4. /\ Sound(t) /\ t.ybase = screen.ybase /\ t.ydisp = screen.ydisp
        /\ OnScreen(screen) /\ screen.bottom + 1 <= Rows /\ screen.y <= Rows =>
              /\ OnScreen(t)
              /\ \A y \in 0 .. Rows - 1 :
                    \/ y < screen.bottom + 1 /\ y < screen.y
                    \/ y >= screen.bottom + 1 /\ y >= screen.y
                    => Row(t, y) = Row(screen, y)
    BY <1>1, <1>2, <1>3, Writing, RowInsertedRemoved
  <1>5. ~bad => screen.y <= Rows /\ screen.bottom + 1 <= Rows /\ OnScreen(screen)
    BY <1>1, Writing
  <1>6. \A y \in 0 .. Rows - 1 : Outside(y, screen.y, screen.bottom) =>
            \/ y < screen.bottom + 1 /\ y < screen.y
            \/ y >= screen.bottom + 1 /\ y >= screen.y
    BY <1>1, Writing DEF Outside
  <1>7. t.ydisp = t.ybase /\ (~bad => OnScreen(t))
    BY <1>1, <1>4, <1>5, Writing
  <1>8. ~bad => \A y \in 0 .. Rows - 1 :
                   Outside(y, screen.y, screen.bottom) => Row(t, y) = Row(screen, y)
    BY <1>4, <1>5, <1>6
  <1>9. Good(t, u)
    BY <1>1, <1>4, <1>7, <1>8, Writing, GoodMoved
  <1> QED BY <1>1, <1>9, BecomesInv

LEMMA ScrollUpInv == ASSUME Inv, ScrollUp PROVE Inv'
  <1> DEFINE t == [screen EXCEPT !.lines =
                     InsertLine(RemoveLine(screen.lines, screen.ybase + screen.top),
                                screen.ybase + screen.bottom, Blank)]
             u == Updated(Updated(range, screen.top), screen.bottom)
  <1>1. Op /\ writing /\ Becomes(t, u)
    BY DEF ScrollUp, Op, RegionUpdated
  <1>2. t = [screen EXCEPT !.lines =
               InsertLine(RemoveLine(screen.lines, screen.ybase + screen.top),
                          screen.ybase + screen.bottom, Blank)]
    OBVIOUS
  <1> HIDE DEF t
  <1>3. /\ Sound(t) /\ t.ybase = screen.ybase /\ t.ydisp = screen.ydisp
        /\ OnScreen(screen) /\ screen.top < Rows /\ screen.bottom < Rows =>
              /\ OnScreen(t)
              /\ \A y \in 0 .. Rows - 1 :
                    Outside(y, screen.top, screen.bottom) => Row(t, y) = Row(screen, y)
    BY <1>1, <1>2, Writing, RowRemovedInserted
  <1>4. t.ydisp = t.ybase /\ (~bad => OnScreen(t))
    BY <1>1, <1>3, Writing
  <1>5. Good(t, u)
    BY <1>1, <1>3, <1>4, Writing, GoodMoved
  <1> QED BY <1>1, <1>5, BecomesInv

LEMMA ScrollDownInv == ASSUME Inv, ScrollDown PROVE Inv'
  <1> DEFINE t == [screen EXCEPT !.lines =
                     InsertLine(RemoveLine(screen.lines, screen.ybase + screen.bottom),
                                screen.ybase + screen.top, Blank)]
             u == Updated(Updated(range, screen.top), screen.bottom)
  <1>1. Op /\ writing /\ Becomes(t, u)
    BY DEF ScrollDown, Op, RegionUpdated
  <1>2. t = [screen EXCEPT !.lines =
               InsertLine(RemoveLine(screen.lines, screen.ybase + screen.bottom),
                          screen.ybase + screen.top, Blank)]
    OBVIOUS
  <1> HIDE DEF t
  <1>3. /\ Sound(t) /\ t.ybase = screen.ybase /\ t.ydisp = screen.ydisp
        /\ OnScreen(screen) /\ screen.bottom < Rows /\ screen.top < Rows =>
              /\ OnScreen(t)
              /\ \A y \in 0 .. Rows - 1 :
                    Outside(y, screen.bottom, screen.top) => Row(t, y) = Row(screen, y)
    BY <1>1, <1>2, Writing, RowRemovedInserted
  <1>4. t.ydisp = t.ybase /\ (~bad => OnScreen(t))
    BY <1>1, <1>3, Writing
  <1>5. ~bad => \A y \in 0 .. Rows - 1 :
                   Outside(y, screen.top, screen.bottom) => Row(t, y) = Row(screen, y)
    BY <1>1, <1>3, Writing DEF Outside
  <1>6. Good(t, u)
    BY <1>1, <1>3, <1>4, <1>5, Writing, GoodMoved
  <1> QED BY <1>1, <1>6, BecomesInv

\* The same lines, with another cursor and another region.
LEMMA Reframed ==
    ASSUME Sound(screen), NEW s \in Screen, s.lines = screen.lines,
           s.ybase = screen.ybase, s.ydisp = screen.ydisp
    PROVE  /\ Sound(s) /\ \A y \in 0 .. Rows - 1 : Row(s, y) = Row(screen, y)
           /\ OnScreen(screen) /\ s.y < Rows /\ s.top < Rows /\ s.bottom < Rows
                 => OnScreen(s)
  BY DEF Sound, Row, OnScreen

LEMMA ReverseIndexInv == ASSUME Inv, ReverseIndex PROVE Inv'
  <1>1. Op /\ writing /\ ops' \in Nat
    BY DEF ReverseIndex, Op, Inv, RowTypes
  <1>2. CASE screen.y - 1 >= screen.top
    <2>1. Becomes([screen EXCEPT !.y = screen.y - 1], range)
      BY <1>2 DEF ReverseIndex
    <2>2. screen.y - 1 \in Nat /\ (~bad => screen.y - 1 < Rows)
      BY <1>1, <1>2, Writing
    <2> QED BY <1>1, <2>1, <2>2, GoodCursor, BecomesInv
  <1>3. CASE ~(screen.y - 1 >= screen.top)
    <2> DEFINE t == [screen EXCEPT !.lines =
                       RemoveLine(InsertLine(screen.lines, screen.ybase + screen.y, Blank),
                                  screen.ybase + screen.bottom + 1)]
               u == Updated(Updated(range, screen.top), screen.bottom)
    <2>1. /\ screen' = t /\ range' = u
          /\ (unmarked' <=> unmarked \/ screen.y < screen.top)
          /\ unmarked' \in BOOLEAN
          /\ UNCHANGED <<normal, savedY, cursor, hidden, writing, painter, dom,
                         mounted, thrown, bad>>
      BY <1>3 DEF ReverseIndex, RegionUpdated
    <2>2. screen.bottom + 1 \in Nat /\ screen.ybase + screen.bottom + 1 = screen.ybase + (screen.bottom + 1)
      BY <1>1, Writing
    <2>3. t = [screen EXCEPT !.lines =
                 RemoveLine(InsertLine(screen.lines, screen.ybase + screen.y, Blank),
                            screen.ybase + (screen.bottom + 1))]
      BY <2>2
    <2>a. u = Updated(Updated(range, screen.top), screen.bottom)
      OBVIOUS
    <2> HIDE DEF t, u
    <2>4. /\ Sound(t) /\ t.ybase = screen.ybase /\ t.ydisp = screen.ydisp
          /\ OnScreen(screen) /\ screen.y <= Rows /\ screen.bottom + 1 <= Rows =>
                /\ OnScreen(t)
                /\ \A y \in 0 .. Rows - 1 :
                      \/ y < screen.y /\ y < screen.bottom + 1
                      \/ y >= screen.y /\ y >= screen.bottom + 1
                      => Row(t, y) = Row(screen, y)
      BY <1>1, <2>2, <2>3, Writing, RowInsertedRemoved
    <2>5. /\ u \in Ranges /\ u.start <= range.start /\ range.end <= u.end
          /\ range.end < Rows /\ screen.top < Rows /\ screen.bottom < Rows => u.end < Rows
          /\ \A y \in 0 .. Rows - 1 :
                ~Outside(y, screen.top, screen.bottom) => y \in u.start .. u.end
      <3> DEFINE a == screen.top
                 b == screen.bottom
      <3>1. range \in Ranges /\ a \in Nat /\ b \in Nat /\ u = Updated(Updated(range, a), b)
        BY <1>1, <2>a, Writing
      <3> HIDE DEF a, b
      <3>2. /\ u \in Ranges /\ u.start <= range.start /\ range.end <= u.end
            /\ range.end < Rows /\ a < Rows /\ b < Rows => u.end < Rows
            /\ \A y \in 0 .. Rows - 1 : ~Outside(y, a, b) => y \in u.start .. u.end
        BY <3>1, Marking
      <3> QED BY <3>2 DEF a, b
    <2>6. t.ydisp = t.ybase /\ (~bad => OnScreen(t) /\ u.end < Rows /\ savedY < Rows)
      BY <1>1, <2>4, <2>5, Writing
    <2>7. ASSUME ~bad, ~unmarked', NEW y \in 0 .. Rows - 1
          PROVE  Row(t, y) = Row(screen, y) \/ y \in u.start .. u.end
      <3>1. screen.y = screen.top
        BY <1>1, <1>3, <2>1, <2>7, Writing
      <3>2. OnScreen(screen) /\ screen.y <= Rows /\ screen.bottom + 1 <= Rows
        BY <1>1, <2>7, Writing
      <3>3. Outside(y, screen.top, screen.bottom) =>
               \/ y < screen.y /\ y < screen.bottom + 1
               \/ y >= screen.y /\ y >= screen.bottom + 1
        BY <1>1, <3>1, Writing DEF Outside
      <3> QED BY <2>4, <2>5, <3>2, <3>3
    <2>8. /\ cursor' \in BOOLEAN /\ hidden' \in BOOLEAN /\ bad' \in BOOLEAN /\ savedY' \in Nat
          /\ bad' = bad /\ savedY' = savedY /\ (unmarked => unmarked')
          /\ UNCHANGED <<normal, writing, painter, dom, mounted, thrown>>
      BY <2>1 DEF Inv, RowTypes
    <2> QED BY <1>1, <2>1, <2>4, <2>5, <2>6, <2>7, <2>8, MarksAll
  <1> QED BY <1>2, <1>3

\* The cursor's row changed, and not marked.
LEMMA RowRewritten ==
    ASSUME Inv, writing, ops' \in Nat, HasLine(screen, screen.y), NEW c \in Content,
           screen' = SetLine(screen, screen.y, c), unmarked' = TRUE,
           UNCHANGED <<normal, savedY, cursor, hidden, writing, range, painter, dom,
                       mounted, thrown, bad>>
    PROVE  Inv'
  <1> DEFINE t == SetLine(screen, screen.y, c)
  <1>1. /\ Sound(t) /\ t.ybase = screen.ybase /\ t.ydisp = screen.ydisp
        /\ OnScreen(screen) => OnScreen(t)
    BY Writing, RowSet
  <1>2. screen' = t
    OBVIOUS
  <1> HIDE DEF t
  <1>3. /\ cursor' \in BOOLEAN /\ hidden' \in BOOLEAN
        /\ bad' \in BOOLEAN /\ savedY' \in Nat
        /\ bad' = bad /\ savedY' = savedY /\ range' = range
    BY DEF Inv, RowTypes
  <1>4. /\ range \in Ranges /\ range.start <= range.start /\ range.end <= range.end
        /\ t.ydisp = t.ybase /\ (~bad => OnScreen(t) /\ range.end < Rows /\ savedY < Rows)
    BY <1>1, Writing
  <1> QED BY <1>1, <1>2, <1>3, <1>4, MarksAll

LEMMA EditCharsInv == ASSUME Inv, EditChars PROVE Inv'
  <1>1. Op /\ writing /\ ops' \in Nat /\ Good(screen, range) /\ screen.y \in Nat
    BY GoodNow, Writing DEF EditChars, Op, Inv, RowTypes
  <1>2. CASE HasLine(screen, screen.y)
    <2>1. PICK t \in Text : screen' = Written(screen, screen.y, t)
      BY <1>2 DEF EditChars
    <2>2. PICK c \in Content : Written(screen, screen.y, t) = SetLine(screen, screen.y, c)
      BY <1>1, <1>2, Writing, WrittenLine
    <2>3. /\ unmarked' = TRUE
          /\ UNCHANGED <<normal, savedY, cursor, hidden, writing, range, painter, dom,
                         mounted, thrown, bad>>
      BY <1>2 DEF EditChars
    <2> QED BY <1>1, <1>2, <2>1, <2>2, <2>3, RowRewritten
  <1>3. CASE ~HasLine(screen, screen.y)
    <2>1. bad /\ Sound(screen)
      BY <1>1, <1>3, NoLine, Writing
    <2>2. CASE Throws(screen)
      BY <1>1, <2>1, <2>2, ThrowsInv
    <2>3. CASE Becomes(screen, range)
      BY <1>1, <2>3, BecomesInv
    <2> QED BY <1>3, <2>2, <2>3 DEF EditChars
  <1> QED BY <1>2, <1>3

LEMMA RepeatCharInv == ASSUME Inv, RepeatChar PROVE Inv'
  <1>1. Op /\ writing /\ ops' \in Nat /\ Good(screen, range) /\ screen.y \in Nat
    BY GoodNow, Writing DEF RepeatChar, Op, Inv, RowTypes
  <1>2. CASE HasLine(screen, screen.y)
    <2>1. PICK t \in Text, g \in {LineOf(screen, screen.y).gap, TRUE} :
             screen' = SetLine(screen, screen.y, [text |-> t, gap |-> g])
      BY <1>2 DEF RepeatChar
    <2>2. LineOf(screen, screen.y) \in Content
      <3>1. screen.lines \in Seq(Content) /\ screen.ybase + screen.y + 1 \in 1 .. Len(screen.lines)
        BY <1>1, <1>2, Writing DEF Sound, Screen, HasLine
      <3> QED BY <3>1 DEF LineOf
    <2>3. [text |-> t, gap |-> g] \in Content
      BY <2>2 DEF Content
    <2>4. /\ unmarked' = TRUE
          /\ UNCHANGED <<normal, savedY, cursor, hidden, writing, range, painter, dom,
                         mounted, thrown, bad>>
      BY <1>2 DEF RepeatChar
    <2> QED BY <1>1, <1>2, <2>1, <2>3, <2>4, RowRewritten
  <1>3. CASE ~HasLine(screen, screen.y)
    <2>1. bad /\ Sound(screen)
      BY <1>1, <1>3, NoLine, Writing
    <2>2. Throws(screen)
      BY <1>3 DEF RepeatChar
    <2> QED BY <1>1, <2>1, <2>2, ThrowsInv
  <1> QED BY <1>2, <1>3

LEMMA SetScrollRegionInv == ASSUME Inv, SetScrollRegion PROVE Inv'
  <1>1. Op /\ writing /\ ops' \in Nat
    BY DEF SetScrollRegion, Op, Inv, RowTypes
  <1>2. PICK p \in Regions :
          LET top    == (IF p.top = 0 THEN 1 ELSE p.top) - 1
              bottom == (IF p.bottom = 0 THEN Rows ELSE p.bottom) - 1
          IN  /\ screen' = [screen EXCEPT !.top = top, !.bottom = bottom, !.y = 0]
              /\ bad' = (bad \/ top >= Rows \/ bottom >= Rows)
    BY DEF SetScrollRegion
  <1> DEFINE top    == (IF p.top = 0 THEN 1 ELSE p.top) - 1
             bottom == (IF p.bottom = 0 THEN Rows ELSE p.bottom) - 1
             s == [screen EXCEPT !.top = top, !.bottom = bottom, !.y = 0]
  <1>3. screen' = s /\ (bad' <=> bad \/ top >= Rows \/ bottom >= Rows) /\ bad' \in BOOLEAN
    BY <1>2
  <1>4. p.top \in Nat /\ p.bottom \in Nat
    BY TerminalConstants
  <1>5. top \in Nat /\ bottom \in Nat
    BY <1>1, <1>4, Writing
  <1> HIDE DEF top, bottom
  <1>6. /\ s \in Screen /\ s.lines = screen.lines /\ s.ybase = screen.ybase
        /\ s.ydisp = screen.ydisp /\ s.y = 0 /\ s.top = top /\ s.bottom = bottom
    BY <1>1, <1>5, Writing DEF Sound, Screen
  <1> HIDE DEF s
  <1>7. /\ Sound(s) /\ \A y \in 0 .. Rows - 1 : Row(s, y) = Row(screen, y)
        /\ OnScreen(screen) /\ s.y < Rows /\ s.top < Rows /\ s.bottom < Rows => OnScreen(s)
    BY <1>1, <1>6, Writing, Reframed
  <1>8. ~bad' => OnScreen(s) /\ range.end < Rows /\ savedY < Rows
    <2> SUFFICES ASSUME ~bad' PROVE OnScreen(s) /\ range.end < Rows /\ savedY < Rows
      OBVIOUS
    <2>1. ~bad /\ top < Rows /\ bottom < Rows
      BY <1>1, <1>3, <1>5, Writing
    <2> QED BY <1>1, <1>6, <1>7, <2>1, Writing
  <1>9. /\ range \in Ranges /\ range.start <= range.start /\ range.end <= range.end
        /\ s.ydisp = s.ybase
    BY <1>1, <1>6, Writing
  <1>10. /\ cursor' \in BOOLEAN /\ hidden' \in BOOLEAN /\ unmarked' \in BOOLEAN
         /\ savedY' \in Nat /\ savedY' = savedY /\ range' = range /\ unmarked' = unmarked
         /\ UNCHANGED <<normal, writing, painter, dom, mounted, thrown>>
    BY DEF SetScrollRegion, Inv, RowTypes
  <1> QED BY <1>1, <1>3, <1>7, <1>8, <1>9, <1>10, MarksAll

LEMMA SaveCursorInv == ASSUME Inv, SaveCursor PROVE Inv'
  <1>1. Op /\ writing /\ ops' \in Nat
    BY DEF SaveCursor, Op, Inv, RowTypes
  <1>2. /\ cursor' \in BOOLEAN /\ hidden' \in BOOLEAN /\ unmarked' \in BOOLEAN
        /\ bad' \in BOOLEAN /\ savedY' = screen.y /\ screen' = screen /\ range' = range
        /\ bad' = bad /\ unmarked' = unmarked
        /\ UNCHANGED <<normal, writing, painter, dom, mounted, thrown>>
    BY DEF SaveCursor, Inv, RowTypes
  <1>3. /\ range \in Ranges /\ range.start <= range.start /\ range.end <= range.end
        /\ Sound(screen) /\ screen.ydisp = screen.ybase /\ screen.y \in Nat
        /\ ~bad => OnScreen(screen) /\ range.end < Rows /\ screen.y < Rows
    BY <1>1, Writing
  <1> QED BY <1>1, <1>2, <1>3, MarksAll

LEMMA SetCursorHiddenInv == ASSUME Inv, SetCursorHidden PROVE Inv'
  <1>1. Op /\ writing /\ ops' \in Nat
    BY DEF SetCursorHidden, Op, Inv, RowTypes
  <1>2. /\ cursor' \in BOOLEAN /\ hidden' \in BOOLEAN /\ unmarked' \in BOOLEAN
        /\ bad' \in BOOLEAN /\ savedY' \in Nat /\ savedY' = savedY
        /\ screen' = screen /\ range' = range /\ bad' = bad /\ unmarked' = unmarked
        /\ UNCHANGED <<normal, writing, painter, dom, mounted, thrown>>
    BY DEF SetCursorHidden, Inv, RowTypes
  <1>3. /\ range \in Ranges /\ range.start <= range.start /\ range.end <= range.end
        /\ Sound(screen) /\ screen.ydisp = screen.ybase
        /\ ~bad => OnScreen(screen) /\ range.end < Rows /\ savedY < Rows
    BY <1>1, Writing
  <1> QED BY <1>1, <1>2, <1>3, MarksAll

LEMMA SoftResetInv == ASSUME Inv, SoftReset PROVE Inv'
  <1> DEFINE s == [screen EXCEPT !.top = 0, !.bottom = Rows - 1, !.y = 0]
  <1>1. Op /\ writing /\ ops' \in Nat
    BY DEF SoftReset, Op, Inv, RowTypes
  <1>2. /\ s \in Screen /\ s.lines = screen.lines /\ s.ybase = screen.ybase
        /\ s.ydisp = screen.ydisp /\ s.y = 0 /\ s.top = 0 /\ s.bottom = Rows - 1
    <2>1. screen \in Screen /\ Rows - 1 \in Nat /\ 0 \in Nat
      BY <1>1, Writing DEF Sound
    <2> QED BY <2>1 DEF Screen
  <1>3. /\ cursor' \in BOOLEAN /\ hidden' \in BOOLEAN /\ unmarked' \in BOOLEAN
        /\ bad' \in BOOLEAN /\ savedY' \in Nat /\ savedY' = savedY
        /\ screen' = s /\ range' = range /\ bad' = bad /\ unmarked' = unmarked
        /\ UNCHANGED <<normal, writing, painter, dom, mounted, thrown>>
    BY DEF SoftReset, Inv, RowTypes
  <1> HIDE DEF s
  <1>4. /\ Sound(s) /\ \A y \in 0 .. Rows - 1 : Row(s, y) = Row(screen, y)
        /\ OnScreen(screen) /\ s.y < Rows /\ s.top < Rows /\ s.bottom < Rows => OnScreen(s)
    BY <1>1, <1>2, Writing, Reframed
  <1>5. /\ range \in Ranges /\ range.start <= range.start /\ range.end <= range.end
        /\ s.ydisp = s.ybase
        /\ ~bad => OnScreen(s) /\ range.end < Rows /\ savedY < Rows
    BY <1>1, <1>2, <1>4, Writing
  <1> QED BY <1>1, <1>3, <1>4, <1>5, MarksAll

-----------------------------------------------------------------------------
(* The steps that order every row *)

\* What holds between writes, too.
LEMMA Standing ==
    ASSUME Inv
    PROVE  /\ Sound(screen) /\ screen \in Screen /\ screen.lines \in Seq(Content)
           /\ screen.ybase \in Nat /\ screen.ydisp \in Nat /\ screen.y \in Nat
           /\ screen.ydisp <= screen.ybase
           /\ painter \in Painter /\ OneTimer(painter)
           /\ Rows \in Nat /\ Rows > 0 /\ Rows - 1 \in Nat
           /\ ~bad => OnScreen(screen) /\ screen.y < Rows
  <1>1. Sound(screen) /\ painter \in Painter /\ OneTimer(painter)
    BY DEF Inv, ScreensInv, RowTypes
  <1>2. /\ screen \in Screen /\ screen.ydisp <= screen.ybase
    BY <1>1 DEF Sound
  <1>3. /\ screen.lines \in Seq(Content) /\ screen.ybase \in Nat /\ screen.ydisp \in Nat
        /\ screen.y \in Nat
    BY <1>2 DEF Screen
  <1>4. ~bad => OnScreen(screen) /\ screen.y < Rows
    BY DEF Inv, BufferBounded, OnScreen
  <1>5. Rows \in Nat /\ Rows > 0 /\ Rows - 1 \in Nat
    BY TerminalConstants
  <1> QED BY <1>1, <1>2, <1>3, <1>4, <1>5

LEMMA RefreshesAll ==
    ASSUME Inv, NEW p, p = Refresh(painter, 0, Rows - 1)
    PROVE  /\ p \in Painter /\ OneTimer(p) /\ p.timers # <<>>
           /\ \A y \in 0 .. Rows - 1 : y \in Paint(p, Rows)
           /\ ~bad => Head(p.timers).end < Rows
  <1> DEFINE last == Rows - 1
  <1>1. painter \in Painter /\ OneTimer(painter) /\ last \in Nat /\ 0 \in Nat /\ last < Rows
    BY Standing
  <1>2. ~bad => (painter.timers # <<>> => Head(painter.timers).end < Rows)
    BY DEF Inv, NamedInv
  <1>3. p = Refresh(painter, 0, last)
    OBVIOUS
  <1> HIDE DEF last
  <1>4. /\ p \in Painter /\ OneTimer(p) /\ p.timers # <<>>
        /\ \A y \in 0 .. Rows - 1 : y \in 0 .. last => y \in Paint(p, Rows)
        /\ (painter.timers # <<>> => Head(painter.timers).end < Rows) /\ last < Rows
              => Head(p.timers).end < Rows
    BY <1>1, <1>3, Refreshed
  <1>5. ~bad => Head(p.timers).end < Rows
    BY <1>1, <1>2, <1>4
  <1> QED BY <1>4, <1>5 DEF last

LEMMA ResetInv == ASSUME Inv, Reset PROVE Inv'
  <1> DEFINE p == Refresh(painter, 0, Rows - 1)
  <1>1. /\ p \in Painter /\ OneTimer(p) /\ p.timers # <<>>
        /\ \A y \in 0 .. Rows - 1 : y \in Paint(p, Rows)
        /\ ~bad => Head(p.timers).end < Rows
    BY RefreshesAll
  <1>2. /\ painter' = p /\ screen' = Fresh /\ normal' = NoScreen
        /\ cursor' \in BOOLEAN /\ hidden' \in BOOLEAN /\ ops' \in Nat
        /\ UNCHANGED <<savedY, writing, range, dom, mounted, thrown, bad, unmarked>>
    <2>1. ops \in Nat /\ ops' = ops + 1
      BY DEF Reset, Op, Inv, RowTypes
    <2>2. /\ painter' = p /\ screen' = Fresh /\ normal' = NoScreen
          /\ UNCHANGED <<savedY, writing, range, dom, mounted, thrown, bad, unmarked>>
      BY DEF Reset, Op
    <2>3. cursor' \in BOOLEAN /\ hidden' \in BOOLEAN
      BY Zenon DEF Reset
    <2> QED BY <2>1, <2>2, <2>3
  <1> HIDE DEF p
  <1>3. Sound(screen') /\ OnScreen(screen') /\ screen'.ydisp = screen'.ybase
    BY <1>2, FreshScreen
  <1> QED BY <1>1, <1>2, <1>3, OrdersAll

LEMMA SetAlternateInv == ASSUME Inv, SetAlternate PROVE Inv'
  <1> DEFINE q == Refresh(painter, 0, Rows - 1)
             p == Refresh(q, 0, 0)
  <1>1. /\ q \in Painter /\ OneTimer(q) /\ q.timers # <<>>
        /\ \A y \in 0 .. Rows - 1 : y \in Paint(q, Rows)
        /\ ~bad => Head(q.timers).end < Rows
    BY RefreshesAll
  <1>2. /\ painter' = p /\ screen' = Fresh /\ normal' = screen /\ writing
        /\ cursor' \in BOOLEAN /\ hidden' \in BOOLEAN /\ ops' \in Nat
        /\ UNCHANGED <<savedY, writing, range, dom, mounted, thrown, bad, unmarked>>
    <2>1. ops \in Nat /\ ops' = ops + 1
      BY DEF SetAlternate, Op, Inv, RowTypes
    <2>2. /\ painter' = p /\ screen' = Fresh /\ normal' = screen /\ writing
          /\ UNCHANGED <<savedY, writing, range, dom, mounted, thrown, bad, unmarked>>
      BY DEF SetAlternate, Op
    <2>3. cursor' \in BOOLEAN /\ hidden' \in BOOLEAN
      BY Zenon DEF SetAlternate
    <2> QED BY <2>1, <2>2, <2>3
  <1> HIDE DEF q
  <1>3. /\ p \in Painter /\ OneTimer(p) /\ p.timers # <<>>
        /\ \A y \in 0 .. Rows - 1 :
              q.timers # <<>> /\ y \in Paint(q, Rows) => y \in Paint(p, Rows)
        /\ (q.timers # <<>> => Head(q.timers).end < Rows) /\ 0 < Rows
              => Head(p.timers).end < Rows
    BY <1>1, Refreshed
  <1> HIDE DEF p
  <1>4. (\A y \in 0 .. Rows - 1 : y \in Paint(p, Rows)) /\ (~bad => Head(p.timers).end < Rows)
    BY <1>1, <1>3, Standing
  <1>5. Sound(screen') /\ OnScreen(screen') /\ screen'.ydisp = screen'.ybase
    BY <1>2, FreshScreen
  <1>6. Sound(normal') /\ normal'.ydisp = normal'.ybase /\ (~bad => OnScreen(normal'))
    BY <1>2, Writing
  <1> QED BY <1>2, <1>3, <1>4, <1>5, <1>6, OrdersAll

LEMMA ResetAlternateInv == ASSUME Inv, ResetAlternate PROVE Inv'
  <1> DEFINE q == Refresh(painter, 0, Rows - 1)
             p == IF cursor THEN q ELSE Refresh(q, normal.y, normal.y)
  <1>1. /\ q \in Painter /\ OneTimer(q) /\ q.timers # <<>>
        /\ \A y \in 0 .. Rows - 1 : y \in Paint(q, Rows)
        /\ ~bad => Head(q.timers).end < Rows
    BY RefreshesAll
  <1>2. /\ painter' = p /\ screen' = normal /\ normal' = NoScreen /\ normal # NoScreen
        /\ cursor' \in BOOLEAN /\ hidden' \in BOOLEAN /\ ops' \in Nat
        /\ UNCHANGED <<savedY, writing, range, dom, mounted, thrown, bad, unmarked>>
    BY DEF ResetAlternate, Op, Inv, RowTypes
  <1>3. Sound(screen') /\ screen'.ydisp = screen'.ybase /\ (~bad => OnScreen(screen'))
    BY <1>2 DEF Inv, ScreensInv, BufferBounded
  <1>4. normal.y \in Nat /\ (~bad => normal.y < Rows)
    BY <1>2, <1>3 DEF Sound, Screen, OnScreen
  <1> HIDE DEF q
  <1>5. /\ p \in Painter /\ OneTimer(p) /\ p.timers # <<>>
        /\ \A y \in 0 .. Rows - 1 : y \in Paint(p, Rows)
        /\ ~bad => Head(p.timers).end < Rows
    <2>1. CASE cursor
      BY <1>1, <2>1
    <2>2. CASE ~cursor
      <3> DEFINE n == normal.y
      <3>1. p = Refresh(q, n, n) /\ n \in Nat /\ (~bad => n < Rows)
        BY <2>2, <1>4
      <3> HIDE DEF p, n
      <3>2. /\ p \in Painter /\ OneTimer(p) /\ p.timers # <<>>
            /\ \A y \in 0 .. Rows - 1 :
                  q.timers # <<>> /\ y \in Paint(q, Rows) => y \in Paint(p, Rows)
            /\ (q.timers # <<>> => Head(q.timers).end < Rows) /\ n < Rows
                  => Head(p.timers).end < Rows
        BY <1>1, <3>1, Refreshed
      <3> QED BY <1>1, <3>1, <3>2
    <2> QED BY <2>1, <2>2
  <1> HIDE DEF p
  <1> QED BY <1>2, <1>3, <1>5, OrdersAll

LEMMA WidenedInv == ASSUME Inv, Widened, ops' \in Nat PROVE Inv'
  <1> DEFINE p == Refresh(painter, 0, Rows - 1)
             a == IF screen.y >= Rows THEN Rows - 1 ELSE screen.y
             s == [screen EXCEPT !.y = a, !.top = 0, !.bottom = Rows - 1]
  <1>1. /\ p \in Painter /\ OneTimer(p) /\ p.timers # <<>>
        /\ \A y \in 0 .. Rows - 1 : y \in Paint(p, Rows)
        /\ ~bad => Head(p.timers).end < Rows
    BY RefreshesAll
  <1>2. /\ painter' = p /\ screen' = s /\ normal' = NoScreen
        /\ cursor' \in BOOLEAN /\ hidden' \in BOOLEAN
        /\ UNCHANGED <<savedY, writing, range, dom, mounted, thrown, bad, unmarked>>
    BY DEF Widened, Inv, RowTypes
  <1>3. a \in Nat /\ a < Rows
    BY Standing
  <1> HIDE DEF p, a
  <1>4. /\ s \in Screen /\ s.lines = screen.lines /\ s.ybase = screen.ybase
        /\ s.ydisp = screen.ydisp /\ s.y = a /\ s.top = 0 /\ s.bottom = Rows - 1
    <2>1. screen \in Screen /\ Rows - 1 \in Nat /\ 0 \in Nat
      BY Standing
    <2> QED BY <2>1, <1>3 DEF Screen
  <1> HIDE DEF s
  <1>5. /\ Sound(s)
        /\ OnScreen(screen) /\ s.y < Rows /\ s.top < Rows /\ s.bottom < Rows => OnScreen(s)
    BY <1>4, Standing, Reframed
  <1>6. /\ writing => s.ydisp = s.ybase
        /\ ~bad => OnScreen(s)
    BY <1>3, <1>4, <1>5, Standing, Writing
  <1> QED BY <1>1, <1>2, <1>5, <1>6, OrdersAll

LEMMA ScrollDispInv == ASSUME Inv, ScrollDisp PROVE Inv'
  <1> DEFINE p == Refresh(painter, 0, Rows - 1)
  <1>1. /\ p \in Painter /\ OneTimer(p) /\ p.timers # <<>>
        /\ \A y \in 0 .. Rows - 1 : y \in Paint(p, Rows)
        /\ ~bad => Head(p.timers).end < Rows
    BY RefreshesAll
  <1>2. /\ painter' = p /\ normal' = normal /\ ~writing
        /\ cursor' \in BOOLEAN /\ hidden' \in BOOLEAN /\ ops' \in Nat
        /\ UNCHANGED <<savedY, writing, range, dom, mounted, thrown, bad, unmarked>>
    BY DEF ScrollDisp, Inv, RowTypes
  <1> HIDE DEF p
  <1>3. PICK d \in {IF screen.ydisp < screen.ybase THEN screen.ydisp + 1 ELSE screen.ydisp,
                    IF screen.ydisp = 0 THEN 0 ELSE screen.ydisp - 1} :
           screen' = [screen EXCEPT !.ydisp = d]
    BY DEF ScrollDisp
  <1>4. d \in Nat /\ d <= screen.ybase
    BY <1>3, Standing
  <1>5. /\ screen' \in Screen /\ screen'.lines = screen.lines
        /\ screen'.ybase = screen.ybase /\ screen'.ydisp = d /\ screen'.y = screen.y
        /\ screen'.top = screen.top /\ screen'.bottom = screen.bottom
    BY <1>3, <1>4, Standing DEF Screen
  <1>6. Sound(screen') /\ (~bad => OnScreen(screen'))
    BY <1>4, <1>5, Standing DEF Sound, OnScreen
  <1>7. /\ normal' = NoScreen \/ (Sound(normal') /\ normal'.ydisp = normal'.ybase)
        /\ ~bad => normal' = NoScreen \/ OnScreen(normal')
    BY <1>2 DEF Inv, ScreensInv, BufferBounded
  <1> QED BY <1>1, <1>2, <1>6, <1>7, OrdersAll

-----------------------------------------------------------------------------
(* The begin and the end of a write, the cursor, the timer *)

LEMMA BeginWriteInv == ASSUME Inv, BeginWrite PROVE Inv'
  <1> DEFINE s == [screen EXCEPT !.ydisp = screen.ybase]
             scrolled == screen.ybase # screen.ydisp
             r == IF scrolled THEN MaxRange ELSE [start |-> screen.y, end |-> screen.y]
  <1>1. /\ ~writing /\ writing' = TRUE /\ screen' = s /\ range' = r
        /\ UNCHANGED <<normal, savedY, cursor, hidden, painter, dom, mounted, thrown,
                       bad, unmarked, ops>>
    BY DEF BeginWrite
  <1>2. /\ s \in Screen /\ s.lines = screen.lines /\ s.ybase = screen.ybase
        /\ s.ydisp = screen.ybase /\ s.y = screen.y /\ s.top = screen.top
        /\ s.bottom = screen.bottom
    BY Standing DEF Screen
  <1>3. ~scrolled => s = screen
    BY Standing DEF Screen
  <1>4. /\ r.start \in Nat /\ r.end \in Nat /\ r \in Ranges
        /\ ~bad => r.end < Rows
        /\ scrolled => \A y \in 0 .. Rows - 1 : y \in r.start .. r.end
        /\ ~scrolled => r.start = screen.y /\ r.end = screen.y
    <2>1. CASE scrolled
      <3>1. r = MaxRange
        BY <2>1
      <3>2. r.start = 0 /\ r.end = Rows - 1 /\ r \in Ranges
        BY <3>1, Standing DEF MaxRange, Ranges
      <3> HIDE DEF r
      <3> QED BY <2>1, <3>2, Standing
    <2>2. CASE ~scrolled
      <3>1. r = [start |-> screen.y, end |-> screen.y]
        BY <2>2
      <3>2. r.start = screen.y /\ r.end = screen.y /\ r \in Ranges
        BY <3>1, Standing DEF Ranges
      <3> HIDE DEF r, scrolled
      <3> QED BY <2>2, <3>2, Standing
    <2> QED BY <2>1, <2>2
  <1> HIDE DEF s, r, scrolled
  <1>5. Sound(s) /\ s.ydisp = s.ybase /\ (~bad => OnScreen(s))
    BY <1>2, Standing DEF Sound, OnScreen
  <1>6. RowTypes'
    BY <1>1, <1>2, <1>4 DEF Inv, RowTypes, Ranges
  <1>7. ScreensInv' /\ BufferBounded'
    BY <1>1, <1>5 DEF Inv, ScreensInv, BufferBounded
  <1>8. OneTimer(painter)' /\ NamedInv'
    BY <1>1, <1>4 DEF Inv, NamedInv, OneTimer
  <1>9. ASSUME ~bad, ~unmarked, NEW y \in 0 .. Rows - 1, ~scrolled
        PROVE  /\ dom[y] # Shown(y) => Ordered(y)
               /\ Shown(y).cursor => y \in r.start .. r.end
    <2>1. dom[y] # Shown(y) => Ordered(y)
      BY <1>1, <1>9 DEF Inv, Displayed, Marked
    <2>2. Shown(y).cursor => screen.y = y
      <3>1. screen.ybase - screen.ydisp = 0
        BY <1>9, Standing DEF scrolled
      <3>2. Shown(y).cursor => screen.y = y - (screen.ybase - screen.ydisp)
        BY DEF Shown
      <3> QED BY <3>1, <3>2, Standing
    <2> QED BY <2>1, <2>2, <1>4, <1>9, Standing
  <1>10. ASSUME NEW y \in 0 .. Rows - 1
         PROVE  /\ dom'[y] = dom[y] /\ (Ordered(y) => Ordered(y)')
                /\ ~scrolled => Shown(y)' = Shown(y)
                /\ y \in r.start .. r.end => Marked(y)'
    BY <1>1, <1>3 DEF Ordered, Shown, Marked
  <1>11. Displayed'
    <2> SUFFICES ASSUME ~bad', ~unmarked', NEW y \in 0 .. Rows - 1, dom'[y] # Shown(y)'
                 PROVE  Ordered(y)' \/ Marked(y)'
      BY DEF Displayed
    <2> QED BY <1>1, <1>4, <1>9, <1>10
  <1>12. PendingInv'
    <2> SUFFICES ASSUME ~bad', ~unmarked', NEW y \in 0 .. Rows - 1,
                        dom'[y].text # Shown(y)'.text \/ dom'[y].cursor
                 PROVE  Ordered(y)' \/ y \in range'.start .. range'.end
      BY DEF PendingInv
    <2>1. CASE scrolled
      BY <1>1, <1>4, <2>1
    <2>2. CASE ~scrolled
      <3>1. dom[y] # Shown(y) \/ Shown(y).cursor
        BY <1>10, <2>2
      <3> QED BY <1>1, <1>9, <1>10, <2>2, <3>1
    <2> QED BY <2>1, <2>2
  <1> QED BY <1>6, <1>7, <1>8, <1>11, <1>12 DEF Inv

LEMMA EndWriteInv == ASSUME Inv, EndWrite PROVE Inv'
  <1> DEFINE r == Updated(range, screen.y)
             p == Refresh(painter, r.start, r.end)
  <1>1. /\ writing /\ writing' = FALSE /\ range' = NoRange /\ painter' = p
        /\ UNCHANGED <<screen, normal, savedY, cursor, hidden, dom, mounted, thrown,
                       bad, unmarked, ops>>
    BY DEF EndWrite
  <1>a. NoRange \in Ranges /\ NoRange.end = 0 /\ 0 < Rows
    BY TerminalConstants DEF NoRange, Ranges
  <1>2. /\ r \in Ranges /\ r.start <= range.start /\ range.end <= r.end
        /\ r.start <= screen.y /\ screen.y <= r.end
        /\ range.end < Rows /\ screen.y < Rows => r.end < Rows
    BY <1>1, Writing, UpdatedRange
  <1> HIDE DEF r
  <1>3. r.start \in Nat /\ r.end \in Nat /\ (~bad => r.end < Rows)
    BY <1>1, <1>2, Writing DEF Ranges
  <1>4. /\ p \in Painter /\ OneTimer(p) /\ p.timers # <<>>
        /\ \A y \in 0 .. Rows - 1 : y \in r.start .. r.end => y \in Paint(p, Rows)
        /\ \A y \in 0 .. Rows - 1 :
              painter.timers # <<>> /\ y \in Paint(painter, Rows) => y \in Paint(p, Rows)
        /\ (painter.timers # <<>> => Head(painter.timers).end < Rows) /\ r.end < Rows
              => Head(p.timers).end < Rows
    <2> DEFINE a == r.start
               b == r.end
    <2>1. a \in Nat /\ b \in Nat /\ p = Refresh(painter, a, b)
      BY <1>3
    <2> HIDE DEF a, b, p
    <2>2. /\ p \in Painter /\ OneTimer(p) /\ p.timers # <<>>
          /\ \A y \in 0 .. Rows - 1 : y \in a .. b => y \in Paint(p, Rows)
          /\ \A y \in 0 .. Rows - 1 :
                painter.timers # <<>> /\ y \in Paint(painter, Rows) => y \in Paint(p, Rows)
          /\ (painter.timers # <<>> => Head(painter.timers).end < Rows) /\ b < Rows
                => Head(p.timers).end < Rows
      BY <2>1, Standing, Refreshed
    <2> QED BY <2>2 DEF a, b
  <1> HIDE DEF p
  <1>5. ~bad => Head(p.timers).end < Rows
    BY <1>3, <1>4 DEF Inv, NamedInv
  <1>6. RowTypes'
    BY <1>1, <1>a, <1>4 DEF Inv, RowTypes, Ranges
  <1>7. ScreensInv' /\ BufferBounded'
    BY <1>1 DEF Inv, ScreensInv, BufferBounded
  <1>8. OneTimer(painter)' /\ NamedInv' /\ PendingInv'
    BY <1>1, <1>a, <1>4, <1>5 DEF Inv, NamedInv, OneTimer, PendingInv
  <1>9. Displayed'
    <2> SUFFICES ASSUME ~bad', ~unmarked', NEW y \in 0 .. Rows - 1, dom'[y] # Shown(y)'
                 PROVE  Ordered(y)'
      BY DEF Displayed
    <2>1. dom[y] # Shown(y)
      BY <1>1 DEF Shown
    <2>2. Ordered(y) \/ y = screen.y \/ y \in range.start .. range.end
      BY <1>1, <2>1 DEF Inv, Displayed, Marked
    <2>3. y = screen.y \/ y \in range.start .. range.end => y \in r.start .. r.end
      BY <1>1, <1>2, <1>3, Writing
    <2>4. y \in Paint(p, Rows)
      BY <1>4, <2>2, <2>3 DEF Ordered
    <2> QED BY <1>1, <1>4, <2>4 DEF Ordered
  <1> QED BY <1>6, <1>7, <1>8, <1>9 DEF Inv

LEMMA ShowCursorInv == ASSUME Inv, ShowCursor PROVE Inv'
  <1> DEFINE a == screen.y
             p == Refresh(painter, a, a)
  <1>1. /\ ~writing /\ ~cursor /\ cursor' = TRUE /\ painter' = p
        /\ (unmarked' <=> unmarked \/ screen.ydisp # screen.ybase)
        /\ UNCHANGED <<screen, normal, savedY, hidden, writing, range, dom, mounted,
                       thrown, bad, ops>>
    BY DEF ShowCursor
  <1>a. unmarked' \in BOOLEAN
    BY Zenon DEF ShowCursor
  <1>2. a \in Nat /\ (~bad => a < Rows)
    BY Standing
  <1>b. a = screen.y
    OBVIOUS
  <1> HIDE DEF a
  <1>3. /\ p \in Painter /\ OneTimer(p) /\ p.timers # <<>>
        /\ \A y \in 0 .. Rows - 1 : y \in a .. a => y \in Paint(p, Rows)
        /\ \A y \in 0 .. Rows - 1 :
              painter.timers # <<>> /\ y \in Paint(painter, Rows) => y \in Paint(p, Rows)
        /\ (painter.timers # <<>> => Head(painter.timers).end < Rows) /\ a < Rows
              => Head(p.timers).end < Rows
    BY <1>2, Standing, Refreshed
  <1> HIDE DEF p
  <1>4. ~bad => Head(p.timers).end < Rows
    BY <1>2, <1>3 DEF Inv, NamedInv
  <1>5. RowTypes'
    BY <1>1, <1>a, <1>3 DEF Inv, RowTypes
  <1>6. ScreensInv' /\ BufferBounded'
    BY <1>1 DEF Inv, ScreensInv, BufferBounded
  <1>7. OneTimer(painter)' /\ NamedInv' /\ PendingInv'
    BY <1>1, <1>3, <1>4 DEF Inv, NamedInv, OneTimer, PendingInv
  <1>8. Displayed'
    <2> SUFFICES ASSUME ~bad', ~unmarked', NEW y \in 0 .. Rows - 1, dom'[y] # Shown(y)'
                 PROVE  Ordered(y)'
      BY DEF Displayed
    <2>1. ~bad /\ ~unmarked /\ screen.ydisp = screen.ybase
      BY <1>1
    <2>2. y - (screen.ybase - screen.ydisp) = y
      BY <2>1, Standing
    <2>3. CASE y = a
      BY <1>1, <1>2, <1>3, <2>3 DEF Ordered
    <2>4. CASE y # a
      <3>1. Shown(y)' = Shown(y)
        <4>1. Shown(y)' = [text |-> screen.lines[screen.ydisp + y + 1].text, cursor |-> FALSE]
          BY <1>1, <1>b, <2>2, <2>4 DEF Shown
        <4>2. Shown(y) = [text |-> screen.lines[screen.ydisp + y + 1].text, cursor |-> FALSE]
          BY <1>1 DEF Shown
        <4> QED BY <4>1, <4>2
      <3>2. Ordered(y)
        BY <1>1, <2>1, <3>1 DEF Inv, Displayed, Marked
      <3> QED BY <1>1, <1>3, <3>2 DEF Ordered
    <2> QED BY <2>3, <2>4
  <1> QED BY <1>5, <1>6, <1>7, <1>8 DEF Inv

\* A queue of one.
LEMMA SingleTimer ==
    ASSUME NEW T, NEW t \in Seq(T), t # <<>>, Len(t) <= 1
    PROVE  Head(t) \in T /\ Tail(t) = <<>>
  <1>1. Len(t) \in Nat /\ Len(t) # 0
    <2>1. \A e \in Seq(T) : Len(e) = 0 => e = <<>>
      OBVIOUS
    <2> QED BY <2>1
  <1>2. Len(t) = 1
    <2>1. \A n \in Nat : n # 0 /\ n <= 1 => n = 1
      OBVIOUS
    <2> QED BY <1>1, <2>1
  <1>3. Head(t) \in T
    BY <1>2
  <1>4. Tail(t) \in Seq(T) /\ Len(Tail(t)) = 0
    BY <1>2
  <1>5. Tail(t) = <<>>
    <2>1. \A e \in Seq(T) : Len(e) = 0 => e = <<>>
      OBVIOUS
    <2> QED BY <1>4, <2>1
  <1> QED BY <1>3, <1>5

LEMMA RefreshTimerInv == ASSUME Inv, RefreshTimer PROVE Inv'
  <1> DEFINE rows == Paint(painter, Rows)
             big  == \E first, last \in rows : 2 * (last - first) >= Rows
             lost == big /\ ~mounted
  <1>1. /\ ~writing /\ painter.timers # <<>> /\ painter' = Fired(painter)
        /\ UNCHANGED <<screen, normal, savedY, cursor, hidden, writing, range, bad, ops>>
    BY DEF RefreshTimer
  <1>h. PICK halts \in {{}} \cup {{y} : y \in Gaps} :
           LET done == ~lost /\ halts = {} /\ rows \subseteq 0 .. Rows - 1
           IN  /\ dom' = [y \in 0 .. Rows - 1 |->
                             IF y \in rows /\ ~lost /\ \A h \in halts : y < h
                             THEN Shown(y) ELSE dom[y]]
               /\ mounted' = IF big THEN done ELSE mounted
               /\ thrown' = (thrown \/ ~done)
               /\ unmarked' = IF done /\ rows = 0 .. Rows - 1 THEN FALSE
                              ELSE unmarked \/ ~done
    BY DEF RefreshTimer
  <1> DEFINE done == ~lost /\ halts = {} /\ rows \subseteq 0 .. Rows - 1
             till(y) == \A h \in halts : y < h
  <1>2. /\ dom' = [y \in 0 .. Rows - 1 |->
                     IF y \in rows /\ ~lost /\ till(y) THEN Shown(y) ELSE dom[y]]
        /\ mounted' = IF big THEN done ELSE mounted
        /\ thrown' = (thrown \/ ~done)
        /\ unmarked' = IF done /\ rows = 0 .. Rows - 1 THEN FALSE ELSE unmarked \/ ~done
    BY <1>h
  <1>3. \A y \in 0 .. Rows - 1 : Ordered(y) <=> y \in rows
    BY <1>1 DEF Ordered
  <1> HIDE DEF rows, big
  <1>4. done => ~lost /\ \A y \in 0 .. Rows - 1 : till(y)
    OBVIOUS
  <1>6. /\ lost \in BOOLEAN /\ done \in BOOLEAN
        /\ mounted' \in BOOLEAN /\ thrown' \in BOOLEAN /\ unmarked' \in BOOLEAN
    <2>1. mounted \in BOOLEAN
      BY DEF Inv, RowTypes
    <2> QED BY <1>2, <2>1, Zenon
  <1> HIDE DEF lost, done, till
  <1>7. ~unmarked' => done /\ (unmarked => rows = 0 .. Rows - 1)
    BY <1>2, <1>6, Zenon
  <1>8. dom' \in [0 .. Rows - 1 -> [text : Text, cursor : BOOLEAN]]
    <2>1. \A y \in 0 .. Rows - 1 : Shown(y) \in [text : Text, cursor : BOOLEAN]
      BY Standing, ShownType DEF Inv
    <2>2. dom \in [0 .. Rows - 1 -> [text : Text, cursor : BOOLEAN]]
      BY DEF Inv, RowTypes
    <2> QED BY <1>2, <2>1, <2>2
  <1>9. /\ painter'.timers = <<>> /\ painter'.queued = FALSE /\ painter'.full = FALSE
        /\ painter' \in Painter
    <2>1. painter.timers \in Seq([start : Nat, end : Int])
      BY Standing DEF Painter
    <2>2. Len(painter.timers) <= 1
      BY Standing DEF OneTimer
    <2>3. Tail(painter.timers) = <<>>
      BY <1>1, <2>1, <2>2, SingleTimer
    <2>4. painter' = [queued |-> FALSE, full |-> FALSE, timers |-> <<>>]
      BY <1>1, <2>3 DEF Fired
    <2> QED BY <2>4 DEF Painter
  <1>10. RowTypes'
    BY <1>1, <1>6, <1>8, <1>9 DEF Inv, RowTypes
  <1>11. ScreensInv' /\ BufferBounded'
    BY <1>1 DEF Inv, ScreensInv, BufferBounded
  <1>12. OneTimer(painter)'
    <2>1. Len(painter'.timers) <= 1
      <3>1. Len(painter'.timers) = 0
        BY <1>9
      <3> QED BY <3>1
    <2> QED BY <1>9, <2>1 DEF OneTimer
  <1>13. NamedInv' /\ PendingInv'
    BY <1>1, <1>9 DEF Inv, NamedInv, PendingInv
  <1>14. Displayed'
    <2> SUFFICES ASSUME ~bad', ~unmarked', NEW y \in 0 .. Rows - 1
                 PROVE  dom'[y] = Shown(y)'
      BY DEF Displayed
    <2>1. ~bad /\ done /\ ~lost /\ till(y)
      BY <1>1, <1>4, <1>7
    <2>2. Shown(y)' = Shown(y)
      BY <1>1 DEF Shown
    <2>3. CASE y \in rows
      BY <1>2, <2>1, <2>2, <2>3
    <2>4. CASE y \notin rows
      <3>1. ~unmarked
        BY <1>7, <2>4
      <3>2. dom[y] = Shown(y)
        BY <1>1, <1>3, <2>1, <2>4, <3>1 DEF Inv, Displayed, Marked
      <3> QED BY <1>2, <2>2, <2>4, <3>2
    <2> QED BY <2>3, <2>4
  <1> QED BY <1>10, <1>11, <1>12, <1>13, <1>14 DEF Inv

-----------------------------------------------------------------------------
(* Theorems *)

LEMMA NextInv == ASSUME Inv, [Next]_vars PROVE Inv'
  <1>1. CASE UNCHANGED vars
    <2>1. UNCHANGED <<screen, normal, savedY, cursor, hidden, writing, range, painter,
                      dom, mounted, thrown, bad, unmarked, ops>>
      BY <1>1 DEF vars
    <2>2. RowTypes' /\ ScreensInv' /\ BufferBounded'
      BY <2>1 DEF Inv, RowTypes, ScreensInv, BufferBounded
    <2>3. OneTimer(painter)' /\ NamedInv'
      BY <2>1 DEF Inv, OneTimer, NamedInv
    <2>4. \A y \in 0 .. Rows - 1 :
             /\ dom'[y] = dom[y] /\ Shown(y)' = Shown(y)
             /\ (Ordered(y)' <=> Ordered(y)) /\ (Marked(y)' <=> Marked(y))
      BY <2>1 DEF Shown, Ordered, Marked
    <2>5. Displayed' /\ PendingInv'
      BY <2>1, <2>4 DEF Inv, Displayed, PendingInv
    <2> QED BY <2>2, <2>3, <2>5 DEF Inv
  <1>2. CASE BeginWrite \/ EndWrite \/ ShowCursor \/ RefreshTimer
    BY <1>2, BeginWriteInv, EndWriteInv, ShowCursorInv, RefreshTimerInv
  <1>3. CASE \/ LineFeed \/ PutChar \/ PutCombining \/ ReverseIndex
             \/ CursorUp \/ CursorDown \/ CursorPos
    BY <1>3, LineFeedInv, PutCharInv, PutCombiningInv, ReverseIndexInv, CursorUpInv, CursorDownInv,
       CursorPosInv
  <1>4. CASE EraseInLine \/ EraseBelow \/ EraseAbove \/ EraseAll
    BY <1>4, EraseInLineInv, EraseBelowInv, EraseAboveInv, EraseAllInv
  <1>5. CASE \/ InsertLines \/ DeleteLines \/ ScrollUp \/ ScrollDown
             \/ EditChars \/ RepeatChar
    BY <1>5, InsertLinesInv, DeleteLinesInv, ScrollUpInv, ScrollDownInv, EditCharsInv,
       RepeatCharInv
  <1>6. CASE SetScrollRegion \/ SaveCursor \/ RestoreCursor \/ SetCursorHidden
    BY <1>6, SetScrollRegionInv, SaveCursorInv, RestoreCursorInv, SetCursorHiddenInv
  <1>7. CASE Reset \/ SoftReset \/ SetAlternate \/ ResetAlternate \/ ScrollDisp
    BY <1>7, ResetInv, SoftResetInv, SetAlternateInv, ResetAlternateInv, ScrollDispInv
  <1>8. CASE SetColumns \/ Resize
    <2>1. Widened /\ ops' \in Nat
      BY <1>8 DEF SetColumns, Resize, Op, Inv, RowTypes
    <2> QED BY <2>1, WidenedInv
  <1> QED BY <1>1, <1>2, <1>3, <1>4, <1>5, <1>6, <1>7, <1>8 DEF Next

\* The invariant holds in every reachable state of the terminal.
THEOREM InvAlways == Spec => []Inv
  BY InitInv, NextInv, PTL DEF Spec

\* The buffer of either screen is the scrollback and one line for each row, below
\* the limit, through every splice that a region function makes (xterm.js,
\* scroll, insertLines, deleteLines, scrollUp, scrollDown, reverseIndex).
THEOREM BufferKeepsShape == Spec => []BufferBounded
  <1>1. Inv => BufferBounded
    BY DEF Inv
  <1> QED BY <1>1, InvAlways, PTL

\* A row that shows something else than the buffer is covered by the timer or by
\* the range of the write that goes on (xterm.js, updateRange, write, refresh).
THEOREM RowsGetPainted == Spec => []Displayed
  <1>1. Inv => Displayed
    BY DEF Inv
  <1> QED BY <1>1, InvAlways, PTL

-----------------------------------------------------------------------------
(* What has scrolled off the screen *)

\* What a step may make of the history of s.
Kept(s, t) ==
    LET before == History(s)
        grown  == Append(before, s.lines[s.ybase + 1])
        after  == History(t)
    IN  \/ after = before \/ after = grown
        \/ /\ s.ybase + 1 = Scrollback
           /\ \/ Len(after) = Scrollback \div 2 /\ IsSuffix(after, grown)
              \/ Len(after) = Scrollback \div 2 - 1 /\ IsSuffix(after, before)

\* The library's suffix, by its elements.
LEMMA SuffixOf ==
    ASSUME NEW S, NEW u \in Seq(S), NEW v \in Seq(S), Len(u) <= Len(v),
           \A k \in 1 .. Len(u) : u[k] = v[k + (Len(v) - Len(u))]
    PROVE  IsSuffix(u, v)
  <1> DEFINE m == Len(u)
             n == Len(v)
             ru == [i \in 1 .. m |-> u[(m - i) + 1]]
             rv == [i \in 1 .. n |-> v[(n - i) + 1]]
  <1>1. m \in Nat /\ n \in Nat /\ m <= n
    OBVIOUS
  <1>2. ru \in Seq(S) /\ Len(ru) = m /\ \A i \in 1 .. m : ru[i] = u[(m - i) + 1]
    <2>1. \A i \in 1 .. m : u[(m - i) + 1] \in S
      BY <1>1
    <2> QED BY <1>1, <2>1
  <1>3. rv \in Seq(S) /\ Len(rv) = n /\ \A i \in 1 .. n : rv[i] = v[(n - i) + 1]
    <2>1. \A i \in 1 .. n : v[(n - i) + 1] \in S
      BY <1>1
    <2> QED BY <1>1, <2>1
  <1>4. IsSuffix(u, v) = (Len(ru) <= Len(rv) /\ SubSeq(ru, 1, Len(ru)) = SubSeq(rv, 1, Len(ru)))
    BY Zenon DEF IsSuffix, IsPrefix, Reverse
  <1>5. \A k \in 1 .. m : u[k] = v[k + (n - m)]
    OBVIOUS
  <1> HIDE DEF m, n, ru, rv
  <1>6. \A i \in 1 .. m : ru[i] = rv[i]
    <2> TAKE i \in 1 .. m
    <2>1. /\ (m - i) + 1 \in 1 .. m /\ ((m - i) + 1) + (n - m) = (n - i) + 1
          /\ i \in 1 .. n
      BY <1>1
    <2>2. ru[i] = u[(m - i) + 1] /\ rv[i] = v[(n - i) + 1]
      BY <2>1, <1>2, <1>3
    <2>3. u[(m - i) + 1] = v[((m - i) + 1) + (n - m)]
      BY <2>1, <1>5
    <2> QED BY <2>1, <2>2, <2>3
  <1>7. SubSeq(ru, 1, m) = SubSeq(rv, 1, m)
    <2>1. /\ SubSeq(ru, 1, m) \in Seq(S) /\ Len(SubSeq(ru, 1, m)) = m
          /\ \A i \in 1 .. m : SubSeq(ru, 1, m)[i] = ru[i]
      BY <1>1, <1>2
    <2>2. /\ SubSeq(rv, 1, m) \in Seq(S) /\ Len(SubSeq(rv, 1, m)) = m
          /\ \A i \in 1 .. m : SubSeq(rv, 1, m)[i] = rv[i]
      BY <1>1, <1>3
    <2> DEFINE a == SubSeq(ru, 1, m)
               b == SubSeq(rv, 1, m)
    <2>3. Len(a) = Len(b) /\ \A i \in 1 .. Len(a) : a[i] = b[i]
      BY <2>1, <2>2, <1>6
    <2> HIDE DEF a, b
    <2> QED BY <2>1, <2>2, <2>3 DEF a, b
  <1> QED BY <1>1, <1>2, <1>3, <1>4, <1>7

\* The history by its lines.
LEMMA HistoryLines ==
    ASSUME NEW t, t.lines \in Seq(Content), t.ybase \in Nat, t.ybase <= Len(t.lines)
    PROVE  /\ History(t) \in Seq(Content) /\ Len(History(t)) = t.ybase
           /\ \A k \in 1 .. t.ybase : History(t)[k] = t.lines[k]
  BY DEF History

LEMMA SameHistory ==
    ASSUME NEW s, Sound(s), NEW t, t.lines \in Seq(Content), t.ybase = s.ybase,
           s.ybase <= Len(t.lines),
           \A k \in 1 .. s.ybase : t.lines[k] = s.lines[k]
    PROVE  History(t) = History(s)
  <1>1. s.lines \in Seq(Content) /\ s.ybase \in Nat /\ s.ybase <= Len(s.lines)
    BY TerminalConstants DEF Sound, Screen
  <1> DEFINE a == History(s)
             b == History(t)
  <1>2. /\ a \in Seq(Content) /\ Len(a) = s.ybase
        /\ \A k \in 1 .. s.ybase : a[k] = s.lines[k]
    BY <1>1, HistoryLines
  <1>3. /\ b \in Seq(Content) /\ Len(b) = s.ybase
        /\ \A k \in 1 .. s.ybase : b[k] = t.lines[k]
    BY <1>1, HistoryLines
  <1> HIDE DEF a, b
  <1>4. Len(a) = Len(b) /\ \A k \in 1 .. Len(a) : a[k] = b[k]
    BY <1>2, <1>3
  <1>5. a = b
    BY <1>2, <1>3, <1>4
  <1> QED BY <1>5 DEF a, b

\* Of a screen that differs below the history, only that matters.
LEMMA KeptSame ==
    ASSUME NEW s, NEW t, History(t) = History(s) PROVE Kept(s, t)
  BY DEF Kept

LEMMA HistorySet ==
    ASSUME NEW s, Sound(s), NEW a \in Nat, HasLine(s, a), NEW c \in Content
    PROVE  History(SetLine(s, a, c)) = History(s)
  <1> DEFINE i == s.ybase + a + 1
             m == [s.lines EXCEPT ![i] = c]
             t == SetLine(s, a, c)
  <1>1. s \in Screen /\ s.lines \in Seq(Content) /\ s.ybase \in Nat /\ s.ybase <= Len(s.lines)
    BY TerminalConstants DEF Sound, Screen
  <1>2. m \in Seq(Content) /\ Len(m) = Len(s.lines) /\ \A k \in 1 .. s.ybase : m[k] = s.lines[k]
    BY <1>1 DEF HasLine
  <1>3. t = [s EXCEPT !.lines = m]
    BY DEF SetLine
  <1> HIDE DEF m, t
  <1>4. t.lines = m /\ t.ybase = s.ybase
    BY <1>1, <1>3 DEF Screen
  <1>5. History(t) = History(s)
    BY <1>1, <1>2, <1>4, SameHistory
  <1> QED BY <1>5 DEF t

LEMMA HistoryErased ==
    ASSUME NEW s, Sound(s), NEW ys \in SUBSET Nat
    PROVE  History(Erased(s, ys)) = History(s)
  <1> DEFINE ks == {i \in DOMAIN s.lines : i - 1 - s.ybase \in ys}
             m == [i \in DOMAIN s.lines |->
                     IF i \in ks THEN [text |-> Space, gap |-> s.lines[i].gap]
                     ELSE s.lines[i]]
             t == Erased(s, ys)
  <1>1. /\ s \in Screen /\ s.lines \in Seq(Content) /\ s.ybase \in Nat
        /\ s.ybase <= Len(s.lines)
    BY TerminalConstants DEF Sound, Screen
  <1>2. /\ m \in Seq(Content) /\ Len(m) = Len(s.lines)
        /\ \A k \in 1 .. Len(s.lines) : k \notin ks => m[k] = s.lines[k]
    <2> HIDE DEF ks
    <2> QED BY <1>1, TerminalAssumption, RetextedLines
  <1>3. \A k \in 1 .. s.ybase : m[k] = s.lines[k]
    <2> TAKE k \in 1 .. s.ybase
    <2>1. k - 1 - s.ybase \notin Nat /\ k \in 1 .. Len(s.lines)
      BY <1>1
    <2>2. k \notin ks
      BY <2>1
    <2> HIDE DEF m, ks
    <2> QED BY <2>1, <2>2, <1>2
  <1>4. t = [s EXCEPT !.lines = m]
    BY Zenon DEF Erased
  <1> HIDE DEF m, t
  <1>5. t.lines = m /\ t.ybase = s.ybase
    BY <1>1, <1>4 DEF Screen
  <1>6. History(t) = History(s)
    BY <1>1, <1>2, <1>3, <1>5, SameHistory
  <1> QED BY <1>6 DEF t

\* A splice on the screen, in either order.
LEMMA HistoryInsertedRemoved ==
    ASSUME NEW s, Sound(s), OnScreen(s), NEW a \in Nat, NEW b \in Nat,
           a <= Rows, b <= Rows,
           NEW t, t = [s EXCEPT !.lines =
                         RemoveLine(InsertLine(s.lines, s.ybase + a, Blank), s.ybase + b)]
    PROVE  History(t) = History(s)
  <1> DEFINE l == s.lines
             i == s.ybase + a
             j == s.ybase + b
             m == RemoveLine(InsertLine(l, i, Blank), j)
  <1>1. /\ s \in Screen /\ l \in Seq(Content) /\ s.ybase \in Nat /\ i \in Nat /\ j \in Nat
        /\ Len(l) = s.ybase + Rows /\ Rows \in Nat
    BY TerminalConstants DEF Sound, Screen, OnScreen
  <1>2. i <= Len(l) /\ j <= Len(l) /\ \A k \in 1 .. s.ybase : k <= i /\ k <= j /\ k \in 1 .. Len(l)
    BY <1>1
  <1>3. t = [s EXCEPT !.lines = m]
    OBVIOUS
  <1>4. t.lines = m /\ t.ybase = s.ybase
    <2> HIDE DEF m
    <2> QED BY <1>1, <1>3 DEF Screen
  <1>5. m \in Seq(Content) /\ Len(m) = Len(l) /\ \A k \in 1 .. s.ybase : m[k] = l[k]
    <2> HIDE DEF l, i, j
    <2> QED BY <1>1, <1>2, InsertedRemoved
  <1>6. s.ybase <= Len(l)
    <2> HIDE DEF l
    <2> QED BY <1>1
  <1> HIDE DEF m
  <1>7. t.lines \in Seq(Content) /\ s.ybase <= Len(t.lines)
    BY <1>4, <1>5, <1>6
  <1>8. \A k \in 1 .. s.ybase : t.lines[k] = s.lines[k]
    BY <1>4, <1>5
  <1> QED BY <1>4, <1>7, <1>8, SameHistory

LEMMA HistoryRemovedInserted ==
    ASSUME NEW s, Sound(s), OnScreen(s), NEW a \in Nat, NEW b \in Nat,
           a < Rows, b < Rows,
           NEW t, t = [s EXCEPT !.lines =
                         InsertLine(RemoveLine(s.lines, s.ybase + a), s.ybase + b, Blank)]
    PROVE  History(t) = History(s)
  <1> DEFINE l == s.lines
             i == s.ybase + a
             j == s.ybase + b
             m == InsertLine(RemoveLine(l, i), j, Blank)
  <1>1. /\ s \in Screen /\ l \in Seq(Content) /\ s.ybase \in Nat /\ i \in Nat /\ j \in Nat
        /\ Len(l) = s.ybase + Rows /\ Rows \in Nat
    BY TerminalConstants DEF Sound, Screen, OnScreen
  <1>2. i < Len(l) /\ j < Len(l) /\ \A k \in 1 .. s.ybase : k <= i /\ k <= j /\ k \in 1 .. Len(l)
    BY <1>1
  <1>3. t = [s EXCEPT !.lines = m]
    OBVIOUS
  <1>4. t.lines = m /\ t.ybase = s.ybase
    <2> HIDE DEF m
    <2> QED BY <1>1, <1>3 DEF Screen
  <1>5. m \in Seq(Content) /\ Len(m) = Len(l) /\ \A k \in 1 .. s.ybase : m[k] = l[k]
    <2> HIDE DEF l, i, j
    <2> QED BY <1>1, <1>2, RemovedInserted
  <1>6. s.ybase <= Len(l)
    <2> HIDE DEF l
    <2> QED BY <1>1
  <1> HIDE DEF m
  <1>7. t.lines \in Seq(Content) /\ s.ybase <= Len(t.lines)
    BY <1>4, <1>5, <1>6
  <1>8. \A k \in 1 .. s.ybase : t.lines[k] = s.lines[k]
    BY <1>4, <1>5
  <1> QED BY <1>4, <1>7, <1>8, SameHistory

\* scroll keeps the end of the buffer: the line at k was further down by what has
\* been trimmed.
LEMMA ScrolledLines ==
    ASSUME NEW s, Sound(s), OnScreen(s)
    PROVE  LET t    == Scrolled(s)
               base == IF s.ybase + 1 = Scrollback THEN (s.ybase + 1) \div 2 ELSE s.ybase + 1
           IN  /\ base \in Nat /\ 0 < base /\ base <= s.ybase + 1
               /\ t.lines \in Seq(Content) /\ t.ybase <= Len(t.lines)
               /\ t.ybase = IF s.top = 0 THEN base ELSE base - 1
               /\ \A k \in 1 .. t.ybase : t.lines[k] = s.lines[k + (s.ybase + 1 - base)]
  <1> DEFINE full == s.ybase + 1 = Scrollback
             base == IF full THEN (s.ybase + 1) \div 2 ELSE s.ybase + 1
             kept == IF full THEN LastLines(s.lines, base + Rows - 1) ELSE s.lines
             more == InsertLine(kept, base + s.bottom, Blank)
             cut  == RemoveLine(more, base - 1 + s.top)
             d    == s.ybase + 1 - base
             t    == Scrolled(s)
  <1>1. /\ s \in Screen /\ s.lines \in Seq(Content) /\ s.ybase \in Nat
        /\ Len(s.lines) = s.ybase + Rows /\ Rows \in Nat /\ Rows > 0
        /\ s.top \in Nat /\ s.top < Rows /\ s.bottom \in Nat /\ s.bottom < Rows
        /\ Scrollback \in Nat /\ Scrollback > 1
    BY TerminalConstants DEF Sound, Screen, OnScreen
  <1>2. base \in Nat /\ 0 < base /\ base <= s.ybase + 1
    BY <1>1
  <1>3. kept \in Seq(Content) /\ Len(kept) = base + Rows - 1
    BY Trimmed
  <1>4. ASSUME NEW k \in 1 .. base PROVE kept[k] = s.lines[k + d]
    <2>1. CASE full
      <3>1. base + Rows - 1 \in Nat /\ base + Rows - 1 <= Len(s.lines)
            /\ k \in 1 .. base + Rows - 1
            /\ k + (Len(s.lines) - (base + Rows - 1)) = k + d
        <4> HIDE DEF base
        <4> QED BY <1>1, <1>2
      <3>2. kept = LastLines(s.lines, base + Rows - 1)
        BY <2>1
      <3> HIDE DEF base, kept, d
      <3>3. kept[k] = s.lines[k + (Len(s.lines) - (base + Rows - 1))]
        BY <1>1, <3>1, <3>2, Sliced
      <3> QED BY <3>1, <3>3
    <2>2. CASE ~full
      <3>1. kept = s.lines /\ base = s.ybase + 1
        BY <2>2
      <3> HIDE DEF base, kept
      <3>2. k + d = k
        BY <3>1, <1>1
      <3> QED BY <3>1, <3>2
    <2> QED BY <2>1, <2>2
  <1>5. t = IF s.top = 0
            THEN [s EXCEPT !.lines = more, !.ybase = base, !.ydisp = base]
            ELSE [s EXCEPT !.lines = cut, !.ybase = base - 1, !.ydisp = base - 1]
    BY DEF Scrolled
  <1>6. /\ t.ybase = IF s.top = 0 THEN base ELSE base - 1
        /\ t.lines = IF s.top = 0 THEN more ELSE cut
    <2> HIDE DEF base, more, cut, t
    <2> QED BY <1>1, <1>5 DEF Screen
  <1> HIDE DEF kept, base, full, t
  <1>7. /\ more \in Seq(Content) /\ Len(more) = base + Rows
        /\ \A k \in 1 .. base : more[k] = kept[k]
    <2> DEFINE i == base + s.bottom
    <2>1. i \in Nat /\ i <= Len(kept)
      BY <1>1, <1>2, <1>3
    <2>2. \A k \in 1 .. base : k <= i /\ k \in 1 .. Len(kept) + 1
      BY <1>1, <1>2, <1>3
    <2> HIDE DEF i
    <2>3. /\ InsertLine(kept, i, Blank) \in Seq(Content)
          /\ Len(InsertLine(kept, i, Blank)) = Len(kept) + 1
          /\ \A k \in 1 .. base : InsertLine(kept, i, Blank)[k] = kept[k]
      BY <1>3, <2>1, <2>2, Inserted
    <2>4. Len(kept) + 1 = base + Rows
      BY <1>1, <1>2, <1>3
    <2> QED BY <2>3, <2>4 DEF i
  <1> HIDE DEF more
  <1>8. CASE s.top = 0
    <2>1. t.ybase = base /\ t.lines = more
      BY <1>6, <1>8
    <2>2. base <= Len(more)
      BY <1>1, <1>2, <1>7
    <2>3. \A k \in 1 .. t.ybase : t.lines[k] = s.lines[k + d]
      BY <2>1, <1>4, <1>7
    <2> QED BY <1>2, <1>6, <1>7, <2>1, <2>2, <2>3 DEF t, base, full
  <1>9. CASE s.top # 0
    <2>1. t.ybase = base - 1 /\ t.lines = cut
      BY <1>6, <1>9
    <2>2. /\ cut \in Seq(Content) /\ Len(cut) = Len(more) - 1
          /\ \A k \in 1 .. base - 1 : cut[k] = more[k]
      <3> DEFINE i == base - 1 + s.top
      <3>1. i \in Nat /\ i < Len(more)
        BY <1>1, <1>2, <1>7
      <3>2. \A k \in 1 .. base - 1 : k <= i /\ k \in 1 .. Len(more) - 1
        BY <1>1, <1>2, <1>7
      <3>3. cut = RemoveLine(more, i)
        OBVIOUS
      <3> HIDE DEF i, cut
      <3> QED BY <1>7, <3>1, <3>2, <3>3, Removed
    <2> HIDE DEF cut
    <2>3. base - 1 <= Len(cut)
      BY <1>1, <1>2, <1>7, <2>2
    <2>4. \A k \in 1 .. t.ybase : t.lines[k] = s.lines[k + d]
      <3> TAKE k \in 1 .. t.ybase
      <3>1. k \in 1 .. base - 1 /\ k \in 1 .. base
        BY <2>1, <1>2
      <3> QED BY <2>1, <2>2, <3>1, <1>4, <1>7
    <2> QED BY <1>2, <1>6, <2>1, <2>2, <2>3, <2>4 DEF t, base, full
  <1> QED BY <1>8, <1>9

\* scroll adds the top line of the screen, or nothing if the region starts further
\* down, and trims from the old end.
LEMMA HistoryScrolled ==
    ASSUME NEW s, Sound(s), OnScreen(s) PROVE Kept(s, Scrolled(s))
  <1> DEFINE full   == s.ybase + 1 = Scrollback
             base   == IF full THEN (s.ybase + 1) \div 2 ELSE s.ybase + 1
             d      == s.ybase + 1 - base
             t      == Scrolled(s)
             before == History(s)
             grown  == Append(before, s.lines[s.ybase + 1])
             after  == History(t)
  <1>1. /\ base \in Nat /\ 0 < base /\ base <= s.ybase + 1
        /\ t.lines \in Seq(Content) /\ t.ybase <= Len(t.lines)
        /\ t.ybase = IF s.top = 0 THEN base ELSE base - 1
        /\ \A k \in 1 .. t.ybase : t.lines[k] = s.lines[k + d]
    BY ScrolledLines
  <1>2. /\ s.lines \in Seq(Content) /\ s.ybase \in Nat /\ s.ybase + 1 <= Len(s.lines)
        /\ Scrollback \in Nat
    BY TerminalConstants DEF Sound, Screen
  <1>3. (full => base = Scrollback \div 2) /\ (~full => base = s.ybase + 1)
    BY <1>2
  <1> HIDE DEF base, full, t
  <1>4. t.ybase \in Nat /\ d \in Nat
    BY <1>1, <1>2
  <1>5. /\ after \in Seq(Content) /\ Len(after) = t.ybase
        /\ \A k \in 1 .. t.ybase : after[k] = s.lines[k + d]
    BY <1>1, <1>4, HistoryLines
  <1>6. /\ before \in Seq(Content) /\ Len(before) = s.ybase
        /\ \A k \in 1 .. s.ybase : before[k] = s.lines[k]
    BY <1>2, HistoryLines
  <1> HIDE DEF before, after
  <1>7. /\ grown \in Seq(Content) /\ Len(grown) = s.ybase + 1
        /\ \A k \in 1 .. s.ybase + 1 : grown[k] = s.lines[k]
    BY <1>2, <1>6
  <1> HIDE DEF grown
  <1>8. CASE s.top = 0
    <2>1. t.ybase = base /\ Len(after) = base /\ Len(grown) - Len(after) = d
      BY <1>1, <1>2, <1>5, <1>7, <1>8
    <2>2. \A k \in 1 .. Len(after) : after[k] = grown[k + (Len(grown) - Len(after))]
      <3> TAKE k \in 1 .. Len(after)
      <3>1. k + d \in 1 .. s.ybase + 1 /\ k \in 1 .. t.ybase
        BY <1>1, <1>2, <2>1
      <3> QED BY <2>1, <3>1, <1>5, <1>7
    <2>3. CASE full
      <3>1. IsSuffix(after, grown)
        BY <1>1, <1>5, <1>7, <2>1, <2>2, SuffixOf
      <3>2. Len(after) = Scrollback \div 2
        BY <1>1, <1>3, <2>1, <2>3
      <3> QED BY <2>3, <3>1, <3>2 DEF Kept, full, after, grown, before, t
    <2>4. CASE ~full
      <3>1. d = 0 /\ Len(after) = Len(grown)
        BY <1>1, <1>2, <1>3, <1>7, <2>1, <2>4
      <3>2. \A k \in 1 .. Len(after) : after[k] = grown[k]
        BY <2>1, <2>2, <3>1, <1>5
      <3>3. after = grown
        BY <1>5, <1>7, <3>1, <3>2
      <3> QED BY <3>3 DEF Kept, after, grown, before, t
    <2> QED BY <2>3, <2>4
  <1>9. CASE s.top # 0
    <2>1. t.ybase = base - 1 /\ Len(after) = base - 1 /\ Len(before) - Len(after) = d
      BY <1>1, <1>2, <1>5, <1>6, <1>9
    <2>2. \A k \in 1 .. Len(after) : after[k] = before[k + (Len(before) - Len(after))]
      <3> TAKE k \in 1 .. Len(after)
      <3>1. k + d \in 1 .. s.ybase /\ k \in 1 .. t.ybase
        BY <1>1, <1>2, <2>1
      <3> QED BY <2>1, <3>1, <1>5, <1>6
    <2>3. CASE full
      <3>0. Len(after) <= Len(before)
        BY <1>1, <1>2, <1>6, <2>1
      <3>1. IsSuffix(after, before)
        BY <1>5, <1>6, <3>0, <2>2, SuffixOf
      <3>2. Len(after) = Scrollback \div 2 - 1
        BY <1>1, <1>3, <2>1, <2>3
      <3> QED BY <2>3, <3>1, <3>2 DEF Kept, full, after, grown, before, t
    <2>4. CASE ~full
      <3>1. d = 0 /\ Len(after) = Len(before)
        BY <1>1, <1>2, <1>3, <1>6, <2>1, <2>4
      <3>2. \A k \in 1 .. Len(after) : after[k] = before[k]
        BY <2>1, <2>2, <3>1, <1>5
      <3>3. after = before
        BY <1>5, <1>6, <3>1, <3>2
      <3> QED BY <3>3 DEF Kept, after, grown, before, t
    <2> QED BY <2>3, <2>4
  <1> QED BY <1>8, <1>9

LEMMA HistoryLineFed ==
    ASSUME Inv, ~bad PROVE Kept(screen, LineFed(screen))
  <1>1. CASE screen.y + 1 > screen.bottom
    <2>1. LineFed(screen) = Scrolled(screen)
      BY <1>1 DEF LineFed
    <2> QED BY <2>1, Standing, HistoryScrolled
  <1>2. CASE ~(screen.y + 1 > screen.bottom)
    <2>1. LineFed(screen) = [screen EXCEPT !.y = @ + 1]
      BY <1>2 DEF LineFed
    <2>2. LineFed(screen).lines = screen.lines /\ LineFed(screen).ybase = screen.ybase
      BY <2>1, Standing DEF Screen
    <2> QED BY <2>2, KeptSame DEF History
  <1> QED BY <1>1, <1>2

\* A character in a row below the history, after a wrap or without one.
LEMMA KeptPutChar == ASSUME Inv, PutChar, ~bad PROVE Kept(screen, screen')
  <1>0. writing
    BY DEF PutChar, Op
  <1>1. PICK wraps \in BOOLEAN, t \in Text :
           LET s == IF wraps THEN LineFed(screen) ELSE screen
           IN  screen' = IF HasLine(s, s.y) THEN Written(s, s.y, t) ELSE s
    BY DEF PutChar, Becomes, Throws
  <1> DEFINE s == IF wraps THEN LineFed(screen) ELSE screen
  <1>2. screen' = IF HasLine(s, s.y) THEN Written(s, s.y, t) ELSE s
    BY <1>1
  <1>3. Kept(screen, s)
    BY HistoryLineFed, KeptSame
  <1>4. Sound(s) /\ s.y \in Nat
    <2>1. Sound(LineFed(screen)) /\ LineFed(screen).y \in Nat
      BY <1>0, GoodLineFed DEF Good
    <2>2. Sound(screen) /\ screen.y \in Nat
      BY Standing
    <2> QED BY <2>1, <2>2
  <1> HIDE DEF s
  <1>5. History(screen') = History(s)
    <2>1. CASE HasLine(s, s.y)
      <3>1. \E c \in Content : Written(s, s.y, t) = SetLine(s, s.y, c)
        BY <1>4, <2>1, WrittenLine
      <3> QED BY <1>2, <1>4, <2>1, <3>1, HistorySet
    <2>2. CASE ~HasLine(s, s.y)
      BY <1>2, <2>2
    <2> QED BY <2>1, <2>2
  <1> QED BY <1>3, <1>5 DEF Kept

\* The sequences that rewrite the cursor's row, and those that erase more.
LEMMA KeptErased ==
    ASSUME Inv, ~smeared',
           \/ EraseInLine \/ EraseBelow \/ EraseAbove \/ EraseAll
           \/ EditChars \/ RepeatChar \/ PutCombining
    PROVE  Kept(screen, screen')
  <1>1. Sound(screen) /\ screen.y \in Nat /\ Rows \in Nat /\ Rows > 0
    BY Standing
  <1> DEFINE y == screen.y
  <1>a. ASSUME NEW c \in Content, HasLine(screen, y)
        PROVE  /\ Sound(SetLine(screen, y, c))
               /\ History(SetLine(screen, y, c)) = History(screen)
    BY <1>1, <1>a, RowSet, HistorySet
  <1>2. ASSUME NEW t \in Text, HasLine(screen, y)
        PROVE  /\ Sound(Written(screen, y, t))
               /\ History(Written(screen, y, t)) = History(screen)
    <2>1. PICK c \in Content : Written(screen, y, t) = SetLine(screen, y, c)
      BY <1>1, <1>2, WrittenLine
    <2> QED BY <1>a, <1>2, <2>1
  <1>3. CASE EraseInLine \/ EditChars \/ PutCombining
    <2>1. \/ screen' = screen
          \/ HasLine(screen, y) /\ \E t \in Text : screen' = Written(screen, y, t)
      <3>1. CASE EraseInLine
        BY <3>1 DEF EraseInLine, Becomes, Throws
      <3>2. CASE EditChars
        BY <3>2 DEF EditChars, Becomes, Throws
      <3>3. CASE PutCombining
        BY <3>3 DEF PutCombining, Becomes, Throws
      <3> QED BY <1>3, <3>1, <3>2, <3>3
    <2>2. History(screen') = History(screen)
      BY <2>1, <1>2
    <2> QED BY <2>2, KeptSame
  <1>b. CASE RepeatChar
    <2>1. CASE HasLine(screen, y)
      <3>1. PICK t \in Text, g \in {LineOf(screen, y).gap, TRUE} :
               screen' = SetLine(screen, y, [text |-> t, gap |-> g])
        BY <1>b, <2>1 DEF RepeatChar
      <3>2. LineOf(screen, y) \in Content
        <4>1. screen.lines \in Seq(Content) /\ screen.ybase + y + 1 \in 1 .. Len(screen.lines)
          BY <1>1, <2>1 DEF Sound, Screen, HasLine
        <4> QED BY <4>1 DEF LineOf
      <3>3. [text |-> t, gap |-> g] \in Content
        BY <3>2 DEF Content
      <3> QED BY <1>a, <2>1, <3>1, <3>3, KeptSame
    <2>2. CASE ~HasLine(screen, y)
      <3>1. screen' = screen
        BY <1>b, <2>2 DEF RepeatChar, Throws
      <3> QED BY <3>1, KeptSame
    <2> QED BY <2>1, <2>2
  <1>4. CASE EraseBelow \/ EraseAbove
    <2>1. \/ screen' = screen
          \/ /\ HasLine(screen, y)
             /\ \E t \in Text, ys \in {y + 1 .. Rows - 1, 0 .. y - 1} :
                   screen' = Erased(Written(screen, y, t), ys)
      BY <1>4 DEF EraseBelow, EraseAbove, Becomes, Throws
    <2>2. CASE screen' = screen
      BY <2>2, KeptSame
    <2>3. CASE /\ HasLine(screen, y)
               /\ \E t \in Text, ys \in {y + 1 .. Rows - 1, 0 .. y - 1} :
                     screen' = Erased(Written(screen, y, t), ys)
      <3>1. PICK t \in Text, ys \in {y + 1 .. Rows - 1, 0 .. y - 1} :
               screen' = Erased(Written(screen, y, t), ys)
        BY <2>3
      <3>2. ys \in SUBSET Nat
        BY <1>1
      <3> DEFINE s == Written(screen, y, t)
      <3>3. Sound(s) /\ History(s) = History(screen)
        BY <1>2, <2>3
      <3> HIDE DEF s
      <3>4. History(Erased(s, ys)) = History(s)
        BY <3>2, <3>3, HistoryErased
      <3>5. screen' = Erased(s, ys)
        BY <3>1 DEF s
      <3> QED BY <3>3, <3>4, <3>5, KeptSame
    <2> QED BY <2>1, <2>2, <2>3
  <1>5. CASE EraseAll
    <2>1. screen' = Erased(screen, 0 .. Rows - 1)
      BY <1>5 DEF EraseAll, Becomes
    <2>2. 0 .. Rows - 1 \in SUBSET Nat
      BY <1>1
    <2>3. History(screen') = History(screen)
      BY <1>1, <2>1, <2>2, HistoryErased
    <2> QED BY <2>3, KeptSame
  <1> QED BY <1>3, <1>b, <1>4, <1>5

\* The sequences that insert or remove lines of the region.
LEMMA KeptSpliced ==
    ASSUME Inv, ~bad,
           ReverseIndex \/ InsertLines \/ DeleteLines \/ ScrollUp \/ ScrollDown
    PROVE  Kept(screen, screen')
  <1>1. /\ Sound(screen) /\ OnScreen(screen) /\ screen \in Screen /\ screen.ybase \in Nat
        /\ screen.y \in Nat /\ screen.y < Rows /\ Rows \in Nat
    BY Standing
  <1>2. /\ screen.top \in Nat /\ screen.bottom \in Nat
        /\ screen.top < Rows /\ screen.bottom < Rows
    BY <1>1 DEF Screen, OnScreen
  <1> DEFINE InsertRemove(a, b) ==
                [screen EXCEPT !.lines =
                   RemoveLine(InsertLine(screen.lines, screen.ybase + a, Blank),
                              screen.ybase + b)]
             RemoveInsert(a, b) ==
                [screen EXCEPT !.lines =
                   InsertLine(RemoveLine(screen.lines, screen.ybase + a),
                              screen.ybase + b, Blank)]
  <1>3. ASSUME NEW a \in Nat, NEW b \in Nat, a <= Rows, b <= Rows
        PROVE  History(InsertRemove(a, b)) = History(screen)
    BY <1>1, <1>3, HistoryInsertedRemoved
  <1>4. ASSUME NEW a \in Nat, NEW b \in Nat, a < Rows, b < Rows
        PROVE  History(RemoveInsert(a, b)) = History(screen)
    BY <1>1, <1>4, HistoryRemovedInserted
  <1>5. CASE ReverseIndex \/ InsertLines
    <2>1. \/ screen' = [screen EXCEPT !.y = @ - 1]
          \/ screen' = [screen EXCEPT !.lines =
                          RemoveLine(InsertLine(screen.lines, screen.ybase + screen.y, Blank),
                                     screen.ybase + screen.bottom + 1)]
      BY <1>5 DEF ReverseIndex, InsertLines, Becomes
    <2>2. screen.ybase + screen.bottom + 1 = screen.ybase + (screen.bottom + 1)
          /\ screen.bottom + 1 \in Nat /\ screen.bottom + 1 <= Rows /\ screen.y <= Rows
      BY <1>1, <1>2
    <2>3. CASE screen' = [screen EXCEPT !.y = @ - 1]
      <3>1. screen'.lines = screen.lines /\ screen'.ybase = screen.ybase
        BY <2>3, <1>1 DEF Screen
      <3> QED BY <3>1, KeptSame DEF History
    <2>4. CASE screen' # [screen EXCEPT !.y = @ - 1]
      <3>1. screen' = InsertRemove(screen.y, screen.bottom + 1)
        BY <2>1, <2>2, <2>4
      <3>2. History(InsertRemove(screen.y, screen.bottom + 1)) = History(screen)
        BY <1>1, <1>3, <2>2
      <3> HIDE DEF InsertRemove
      <3> QED BY <3>1, <3>2, KeptSame
    <2> QED BY <2>3, <2>4
  <1>6. CASE DeleteLines
    <2>1. screen' = [screen EXCEPT !.lines =
                       RemoveLine(InsertLine(screen.lines, screen.ybase + screen.bottom + 1, Blank),
                                  screen.ybase + screen.y)]
      BY <1>6 DEF DeleteLines, Becomes
    <2>2. screen.ybase + screen.bottom + 1 = screen.ybase + (screen.bottom + 1)
          /\ screen.bottom + 1 \in Nat /\ screen.bottom + 1 <= Rows /\ screen.y <= Rows
      BY <1>1, <1>2
    <2>3. screen' = InsertRemove(screen.bottom + 1, screen.y)
      BY <2>1, <2>2
    <2>4. History(InsertRemove(screen.bottom + 1, screen.y)) = History(screen)
      BY <1>1, <1>3, <2>2
    <2> HIDE DEF InsertRemove
    <2> QED BY <2>3, <2>4, KeptSame
  <1>7. CASE ScrollUp
    <2>1. screen' = RemoveInsert(screen.top, screen.bottom)
      BY <1>7 DEF ScrollUp, Becomes
    <2>2. History(RemoveInsert(screen.top, screen.bottom)) = History(screen)
      BY <1>2, <1>4
    <2> HIDE DEF RemoveInsert
    <2> QED BY <2>1, <2>2, KeptSame
  <1>8. CASE ScrollDown
    <2>1. screen' = RemoveInsert(screen.bottom, screen.top)
      BY <1>8 DEF ScrollDown, Becomes
    <2>2. History(RemoveInsert(screen.bottom, screen.top)) = History(screen)
      BY <1>2, <1>4
    <2> HIDE DEF RemoveInsert
    <2> QED BY <2>1, <2>2, KeptSame
  <1> QED BY <1>5, <1>6, <1>7, <1>8

\* The rest moves the cursor, the region or the display, and no line.
LEMMA KeptStanding ==
    ASSUME Inv,
           \/ BeginWrite \/ EndWrite \/ CursorUp \/ CursorDown \/ CursorPos
           \/ SetScrollRegion \/ SaveCursor \/ RestoreCursor \/ SetCursorHidden
           \/ SoftReset \/ SetColumns \/ Resize \/ ScrollDisp \/ ShowCursor
           \/ RefreshTimer \/ UNCHANGED vars
    PROVE  Kept(screen, screen')
  <1>1. screen \in Screen
    BY Standing
  <1>2. screen'.lines = screen.lines /\ screen'.ybase = screen.ybase
    <2>1. CASE \/ EndWrite \/ SaveCursor \/ SetCursorHidden \/ ShowCursor \/ RefreshTimer
               \/ UNCHANGED vars
      BY <2>1 DEF EndWrite, SaveCursor, SetCursorHidden, ShowCursor, RefreshTimer, vars
    <2>2. CASE CursorUp \/ CursorDown \/ CursorPos \/ RestoreCursor
      <3>1. \E e : screen' = [screen EXCEPT !.y = e]
        BY <2>2 DEF CursorUp, CursorDown, CursorPos, RestoreCursor, Becomes
      <3> QED BY <1>1, <3>1 DEF Screen
    <2>3. CASE BeginWrite \/ ScrollDisp
      <3>1. \E e : screen' = [screen EXCEPT !.ydisp = e]
        BY <2>3 DEF BeginWrite, ScrollDisp
      <3> QED BY <1>1, <3>1 DEF Screen
    <2>4. CASE SetScrollRegion \/ SoftReset \/ SetColumns \/ Resize
      <3>1. CASE SetScrollRegion
        <4>1. PICK f, g : screen' = [screen EXCEPT !.top = f, !.bottom = g, !.y = 0]
          BY <3>1, Zenon DEF SetScrollRegion
        <4> QED BY <1>1, <4>1 DEF Screen
      <3>2. CASE SoftReset
        <4>1. screen' = [screen EXCEPT !.top = 0, !.bottom = Rows - 1, !.y = 0]
          BY <3>2 DEF SoftReset
        <4> QED BY <1>1, <4>1 DEF Screen
      <3>3. CASE SetColumns \/ Resize
        <4>1. screen' = [screen EXCEPT !.y = IF @ >= Rows THEN Rows - 1 ELSE @,
                                       !.top = 0, !.bottom = Rows - 1]
          BY <3>3 DEF SetColumns, Resize, Widened
        <4> QED BY <1>1, <4>1 DEF Screen
      <3> QED BY <2>4, <3>1, <3>2, <3>3
    <2> QED BY <2>1, <2>2, <2>3, <2>4
  <1> QED BY <1>2, KeptSame DEF History

LEMMA KeptStep ==
    Inv /\ [Next]_vars =>
        (~bad /\ ~smeared' /\ normal' = normal /\ screen' # Fresh => Kept(screen, screen'))
  <1> SUFFICES ASSUME Inv, [Next]_vars, ~bad, ~smeared', normal' = normal, screen' # Fresh
               PROVE  Kept(screen, screen')
    OBVIOUS
  <1>1. CASE LineFeed
    <2>1. screen' = LineFed(screen)
      BY <1>1 DEF LineFeed, Becomes
    <2> QED BY <2>1, HistoryLineFed
  <1>2. CASE PutChar
    BY <1>2, KeptPutChar
  <1>3. ~Reset /\ ~SetAlternate /\ ~ResetAlternate
    BY DEF Reset, SetAlternate, ResetAlternate
  <1> QED BY <1>1, <1>2, <1>3, KeptErased, KeptSpliced, KeptStanding DEF Next

\* What has scrolled off the screen stays as it was, whatever the number of rows,
\* the scrollback and the regions: no splice of a region function reaches above
\* the screen, and scroll drops lines from the old end only (xterm.js, scroll,
\* insertLines, deleteLines, scrollUp, scrollDown, reverseIndex).
THEOREM ScrollbackKept == Spec => HistoryKept
  <1>1. Inv /\ [Next]_vars =>
           (~bad /\ ~smeared' /\ normal' = normal /\ screen' # Fresh =>
              LET before == History(screen)
                  grown  == Append(before, screen.lines[screen.ybase + 1])
                  after  == History(screen')
              IN  \/ after = before \/ after = grown
                  \/ /\ screen.ybase + 1 = Scrollback
                     /\ \/ Len(after) = Scrollback \div 2 /\ IsSuffix(after, grown)
                        \/ Len(after) = Scrollback \div 2 - 1 /\ IsSuffix(after, before))
    BY KeptStep DEF Kept
  <1> QED BY <1>1, InvAlways, PTL DEF Spec, HistoryKept

-----------------------------------------------------------------------------
(* Missing cells *)

\* Lines that have all their cells, and screens of them.
FullLine == [text : Text, gap : {FALSE}]
Whole(s) == s.lines \in Seq(FullLine)

\* As long as nothing was written behind the end of a line, no line lacks a cell,
\* and what throws is a region off the screen.
CellsInv == /\ CellTypes
            /\ ~gapped => Whole(screen) /\ Whole(normal)
            /\ NothingElseThrows

LEMMA BlankIsFull == Blank \in FullLine
  BY TerminalAssumption DEF Blank, FullLine

\* splice and slice make no other lines.
LEMMA InsertedWhole ==
    ASSUME NEW l \in Seq(FullLine), NEW i \in Nat
    PROVE  InsertLine(l, i, Blank) \in Seq(FullLine)
  <1>1. CASE i >= Len(l)
    BY <1>1, BlankIsFull DEF InsertLine
  <1>2. CASE i < Len(l)
    <2> DEFINE front == SubSeq(l, 1, i)
               back  == SubSeq(l, i + 1, Len(l))
    <2>1. InsertLine(l, i, Blank) = front \o <<Blank>> \o back
      <3>1. InsertLine(l, i, Blank) = InsertAt(l, i + 1, Blank)
        BY <1>2 DEF InsertLine
      <3>2. (i + 1) - 1 = i
        OBVIOUS
      <3> QED BY <3>1, <3>2, InsertAtNext, Zenon
    <2>2. front \in Seq(FullLine) /\ back \in Seq(FullLine) /\ <<Blank>> \in Seq(FullLine)
      BY <1>2, BlankIsFull
    <2> HIDE DEF front, back
    <2> QED BY <2>1, <2>2
  <1> QED BY <1>1, <1>2

LEMMA RemovedWhole ==
    ASSUME NEW l \in Seq(FullLine), NEW i \in Nat
    PROVE  RemoveLine(l, i) \in Seq(FullLine)
  <1>1. CASE i >= Len(l)
    BY <1>1 DEF RemoveLine
  <1>2. CASE i < Len(l)
    <2> DEFINE front == SubSeq(l, 1, i)
               back  == SubSeq(l, i + 2, Len(l))
    <2>1. RemoveLine(l, i) = front \o back
      <3>1. RemoveLine(l, i) = RemoveAt(l, i + 1)
        BY <1>2 DEF RemoveLine
      <3>2. (i + 1) - 1 = i /\ (i + 1) + 1 = i + 2
        OBVIOUS
      <3> QED BY <3>1, <3>2, RemoveAtNext, Zenon
    <2>2. front \in Seq(FullLine) /\ back \in Seq(FullLine)
      BY <1>2
    <2> HIDE DEF front, back
    <2> QED BY <2>1, <2>2
  <1> QED BY <1>1, <1>2

LEMMA SlicedWhole ==
    ASSUME NEW l \in Seq(FullLine), NEW n \in Nat
    PROVE  LastLines(l, n) \in Seq(FullLine)
  BY DEF LastLines

\* The lines of a screen replaced.
LEMMA WholeLines ==
    ASSUME NEW s, s \in Screen, NEW m \in Seq(FullLine), NEW t, t = [s EXCEPT !.lines = m]
    PROVE  Whole(t)
  <1>1. t.lines = m
    BY DEF Screen
  <1> QED BY <1>1 DEF Whole

\* scroll
LEMMA ScrolledWhole ==
    ASSUME NEW s, Sound(s), Whole(s) PROVE Whole(Scrolled(s))
  <1> DEFINE full == s.ybase + 1 = Scrollback
             base == IF full THEN (s.ybase + 1) \div 2 ELSE s.ybase + 1
             kept == IF full THEN LastLines(s.lines, base + Rows - 1) ELSE s.lines
             more == InsertLine(kept, base + s.bottom, Blank)
             cut  == RemoveLine(more, base - 1 + s.top)
             t    == Scrolled(s)
  <1>1. base \in Nat /\ 0 < base
    BY Trimmed
  <1>2. /\ s \in Screen /\ s.top \in Nat /\ s.bottom \in Nat
        /\ Rows \in Nat /\ Rows > 0 /\ s.lines \in Seq(FullLine)
    BY TerminalConstants DEF Sound, Screen, Whole
  <1>3. t = IF s.top = 0
            THEN [s EXCEPT !.lines = more, !.ybase = base, !.ydisp = base]
            ELSE [s EXCEPT !.lines = cut, !.ybase = base - 1, !.ydisp = base - 1]
    BY DEF Scrolled
  <1> HIDE DEF base, full
  <1>4. base + Rows - 1 \in Nat /\ base + s.bottom \in Nat /\ base - 1 + s.top \in Nat
    BY <1>1, <1>2
  <1>5. kept \in Seq(FullLine)
    BY <1>2, <1>4, SlicedWhole
  <1> HIDE DEF kept
  <1>6. more \in Seq(FullLine)
    BY <1>4, <1>5, InsertedWhole
  <1> HIDE DEF more
  <1>7. cut \in Seq(FullLine)
    BY <1>4, <1>6, RemovedWhole
  <1> HIDE DEF cut, t
  <1>8. t.lines = more \/ t.lines = cut
    BY <1>2, <1>3 DEF Screen
  <1> QED BY <1>6, <1>7, <1>8 DEF Whole, t

LEMMA LineFedWhole ==
    ASSUME Inv, Whole(screen) PROVE Whole(LineFed(screen))
  <1>1. CASE screen.y + 1 > screen.bottom
    <2>1. LineFed(screen) = Scrolled(screen)
      BY <1>1 DEF LineFed
    <2> QED BY <2>1, Standing, ScrolledWhole
  <1>2. CASE ~(screen.y + 1 > screen.bottom)
    <2>1. LineFed(screen) = [screen EXCEPT !.y = @ + 1]
      BY <1>2 DEF LineFed
    <2>2. LineFed(screen).lines = screen.lines
      BY <2>1, Standing DEF Screen
    <2> QED BY <2>2 DEF Whole
  <1> QED BY <1>1, <1>2

\* Texts changed on a whole screen.
LEMMA TextedWhole ==
    ASSUME NEW l \in Seq(FullLine), NEW t \in Text, NEW ks,
           NEW m, m = [i \in DOMAIN l |-> IF i \in ks THEN [text |-> t, gap |-> l[i].gap]
                                          ELSE l[i]]
    PROVE  m \in Seq(FullLine)
  <1> DEFINE e(i) == [text |-> t, gap |-> l[i].gap]
  <1>1. \A i \in DOMAIN l : e(i) \in FullLine
    <2> TAKE i \in DOMAIN l
    <2>1. l[i] \in FullLine
      OBVIOUS
    <2>2. l[i].gap \in {FALSE}
      BY <2>1 DEF FullLine
    <2> QED BY <2>2, Zenon DEF FullLine
  <1>2. m = [i \in DOMAIN l |-> IF i \in ks THEN e(i) ELSE l[i]]
    OBVIOUS
  <1>3. DOMAIN l = 1 .. Len(l) /\ Len(l) \in Nat
    OBVIOUS
  <1> HIDE DEF e
  <1>4. \A i \in 1 .. Len(l) : m[i] \in FullLine
    BY <1>1, <1>2, <1>3
  <1> QED BY <1>2, <1>3, <1>4

LEMMA ErasedWhole ==
    ASSUME NEW s, s \in Screen, Whole(s), NEW ys PROVE Whole(Erased(s, ys))
  <1> DEFINE ks == {i \in DOMAIN s.lines : i - 1 - s.ybase \in ys}
             m == [i \in DOMAIN s.lines |->
                     IF i \in ks THEN [text |-> Space, gap |-> s.lines[i].gap]
                     ELSE s.lines[i]]
             t == Erased(s, ys)
  <1>1. t = [s EXCEPT !.lines = m]
    BY Zenon DEF Erased
  <1>2. s.lines \in Seq(FullLine)
    BY DEF Whole
  <1> HIDE DEF ks
  <1>3. m \in Seq(FullLine)
    BY <1>2, TerminalAssumption, TextedWhole, Zenon
  <1> HIDE DEF m, t
  <1>4. Whole(t)
    BY <1>1, <1>3, WholeLines
  <1> QED BY <1>4 DEF t

\* A row of a whole screen has its cells, and keeps them.
LEMMA WrittenWhole ==
    ASSUME NEW s, s \in Screen, Whole(s), NEW a \in Nat, HasLine(s, a)
    PROVE  /\ LineOf(s, a).gap = FALSE
           /\ \A t \in Text : Whole(Written(s, a, t))
  <1>1. s.lines \in Seq(FullLine) /\ s.ybase + a + 1 \in 1 .. Len(s.lines)
    BY DEF Screen, Whole, HasLine
  <1>2. LineOf(s, a) \in FullLine
    BY <1>1 DEF LineOf
  <1>3. LineOf(s, a).gap = FALSE
    BY <1>2 DEF FullLine
  <1>4. ASSUME NEW t \in Text PROVE Whole(Written(s, a, t))
    <2> DEFINE c == [text |-> t, gap |-> LineOf(s, a).gap]
               i == s.ybase + a + 1
               m == [s.lines EXCEPT ![i] = c]
    <2>1. c \in FullLine
      BY <1>3 DEF FullLine
    <2>2. Written(s, a, t) = [s EXCEPT !.lines = m]
      BY DEF Written, SetLine
    <2> HIDE DEF c
    <2>3. m \in Seq(FullLine)
      BY <1>1, <2>1
    <2> HIDE DEF m
    <2> QED BY <2>2, <2>3, WholeLines
  <1> QED BY <1>3, <1>4

\* Whatever does not write behind the end of a line leaves no hole: the steps of a
\* write that change a row's text, or several.
LEMMA TextStepWhole ==
    ASSUME Inv, Whole(screen), ~gapped',
           \/ PutChar \/ PutCombining \/ EraseInLine \/ EraseBelow \/ EraseAbove
           \/ EraseAll \/ EditChars \/ RepeatChar
    PROVE  Whole(screen')
  <1>1. screen \in Screen /\ Sound(screen) /\ screen.y \in Nat
    BY Standing
  <1> DEFINE y == screen.y
  <1>2. ASSUME HasLine(screen, y)
        PROVE  LineOf(screen, y).gap = FALSE /\ \A t \in Text : Whole(Written(screen, y, t))
    BY <1>1, <1>2, WrittenWhole
  <1>w. ASSUME HasLine(screen, y), NEW t \in Text
        PROVE  Written(screen, y, t) \in Screen
    <2>1. PICK c \in Content : Written(screen, y, t) = SetLine(screen, y, c)
      BY <1>1, <1>w, WrittenLine
    <2> QED BY <1>1, <1>w, <2>1, RowSet DEF Sound
  <1>3. CASE PutChar
    <2>0. writing
      BY <1>3 DEF PutChar, Op
    <2>1. PICK wraps \in BOOLEAN, t \in Text :
             LET s == IF wraps THEN LineFed(screen) ELSE screen
             IN  screen' = IF HasLine(s, s.y) THEN Written(s, s.y, t) ELSE s
      BY <1>3 DEF PutChar, Becomes, Throws
    <2> DEFINE s == IF wraps THEN LineFed(screen) ELSE screen
    <2>2. screen' = IF HasLine(s, s.y) THEN Written(s, s.y, t) ELSE s
      BY <2>1
    <2>3. Whole(s) /\ s \in Screen /\ s.y \in Nat
      <3>1. LineFed(screen) \in Screen /\ LineFed(screen).y \in Nat
        BY <2>0, GoodLineFed DEF Good, Sound
      <3> QED BY <1>1, <3>1, LineFedWhole
    <2> HIDE DEF s
    <2> QED BY <2>2, <2>3, WrittenWhole
  <1>4. CASE EraseInLine \/ EditChars
    <2>1. \/ screen' = screen
          \/ HasLine(screen, y) /\ \E t \in Text : screen' = Written(screen, y, t)
      <3>1. CASE EraseInLine
        BY <3>1 DEF EraseInLine, Becomes, Throws
      <3>2. CASE EditChars
        BY <3>2 DEF EditChars, Becomes, Throws
      <3> QED BY <1>4, <3>1, <3>2
    <2> QED BY <1>2, <2>1
  <1>5. CASE RepeatChar
    <2>1. CASE HasLine(screen, y)
      <3>1. PICK t \in Text, g \in {LineOf(screen, y).gap, TRUE} :
               /\ screen' = SetLine(screen, y, [text |-> t, gap |-> g])
               /\ gapped' = (gapped \/ g)
        BY <1>5, <2>1 DEF RepeatChar
      <3>2. g = LineOf(screen, y).gap
        BY <3>1
      <3>3. screen' = Written(screen, y, t)
        BY <3>1, <3>2 DEF Written
      <3> QED BY <1>2, <2>1, <3>3
    <2>2. CASE ~HasLine(screen, y)
      BY <1>5, <2>2 DEF RepeatChar, Throws
    <2> QED BY <2>1, <2>2
  <1>6. CASE EraseBelow \/ EraseAbove
    <2>1. \/ screen' = screen
          \/ /\ HasLine(screen, y)
             /\ \E t \in Text, ys \in {y + 1 .. Rows - 1, 0 .. y - 1} :
                   screen' = Erased(Written(screen, y, t), ys)
      BY <1>6 DEF EraseBelow, EraseAbove, Becomes, Throws
    <2>2. CASE /\ HasLine(screen, y)
               /\ \E t \in Text, ys \in {y + 1 .. Rows - 1, 0 .. y - 1} :
                     screen' = Erased(Written(screen, y, t), ys)
      <3>1. PICK t \in Text, ys \in {y + 1 .. Rows - 1, 0 .. y - 1} :
               screen' = Erased(Written(screen, y, t), ys)
        BY <2>2
      <3>2. Written(screen, y, t) \in Screen /\ Whole(Written(screen, y, t))
        BY <1>2, <1>w, <2>2
      <3> QED BY <3>1, <3>2, ErasedWhole
    <2> QED BY <2>1, <2>2
  <1>7. CASE EraseAll
    <2>1. screen' = Erased(screen, 0 .. Rows - 1)
      BY <1>7 DEF EraseAll, Becomes
    <2> QED BY <1>1, <2>1, ErasedWhole
  <1>8. CASE PutCombining
    <2>1. CASE \/ screen' = screen
               \/ HasLine(screen, y) /\ \E t \in Text : screen' = Written(screen, y, t)
      BY <1>2, <2>1
    <2>2. CASE HasLine(screen, y) /\ \E t \in Text, others \in SUBSET DOMAIN screen.lines :
                  screen' = [Written(screen, y, t) EXCEPT !.lines =
                               [i \in DOMAIN @ |-> IF i \in others
                                  THEN [text |-> t, gap |-> @[i].gap] ELSE @[i]]]
      <3>1. PICK t \in Text, others \in SUBSET DOMAIN screen.lines :
               screen' = [Written(screen, y, t) EXCEPT !.lines =
                            [i \in DOMAIN Written(screen, y, t).lines |->
                               IF i \in others
                               THEN [text |-> t, gap |-> Written(screen, y, t).lines[i].gap]
                               ELSE Written(screen, y, t).lines[i]]]
        BY <2>2
      <3> DEFINE w == Written(screen, y, t)
                 l == w.lines
                 m == [i \in DOMAIN l |-> IF i \in others
                         THEN [text |-> t, gap |-> l[i].gap] ELSE l[i]]
      <3>2. w \in Screen /\ l \in Seq(FullLine)
        BY <1>2, <1>w, <2>2 DEF Whole
      <3>3. screen' = [w EXCEPT !.lines = m]
        BY <3>1
      <3> HIDE DEF w, l
      <3>4. m \in Seq(FullLine)
        BY <3>2, TextedWhole
      <3> HIDE DEF m
      <3> QED BY <3>2, <3>3, <3>4, WholeLines
    <2> QED BY <1>8, <2>1, <2>2 DEF PutCombining, Becomes, Throws
  <1> QED BY <1>3, <1>4, <1>5, <1>6, <1>7, <1>8

\* Those that move lines.
LEMMA MoveStepWhole ==
    ASSUME Inv, Whole(screen),
           \/ LineFeed \/ ReverseIndex \/ InsertLines \/ DeleteLines
           \/ ScrollUp \/ ScrollDown
    PROVE  Whole(screen')
  <1>1. /\ screen \in Screen /\ screen.ybase \in Nat /\ screen.y \in Nat
        /\ screen.lines \in Seq(FullLine)
    BY Standing DEF Whole
  <1>2. screen.top \in Nat /\ screen.bottom \in Nat
    BY <1>1 DEF Screen
  <1>3. CASE LineFeed
    <2>1. screen' = LineFed(screen)
      BY <1>3 DEF LineFeed, Becomes
    <2> QED BY <2>1, LineFedWhole
  <1>4. ASSUME NEW i \in Nat, NEW j \in Nat,
               \/ screen' = [screen EXCEPT !.lines =
                               RemoveLine(InsertLine(screen.lines, i, Blank), j)]
               \/ screen' = [screen EXCEPT !.lines =
                               InsertLine(RemoveLine(screen.lines, i), j, Blank)]
        PROVE  Whole(screen')
    <2> DEFINE a == RemoveLine(InsertLine(screen.lines, i, Blank), j)
               b == InsertLine(RemoveLine(screen.lines, i), j, Blank)
    <2>1. a \in Seq(FullLine) /\ b \in Seq(FullLine)
      BY <1>1, InsertedWhole, RemovedWhole
    <2>2. screen' = [screen EXCEPT !.lines = a] \/ screen' = [screen EXCEPT !.lines = b]
      BY <1>4
    <2> HIDE DEF a, b
    <2> QED BY <1>1, <2>1, <2>2, WholeLines
  <1>5. /\ screen.ybase + screen.y \in Nat /\ screen.ybase + screen.bottom + 1 \in Nat
        /\ screen.ybase + screen.bottom \in Nat /\ screen.ybase + screen.top \in Nat
    BY <1>1, <1>2
  <1>6. CASE ReverseIndex \/ InsertLines
    <2>1. \/ screen' = [screen EXCEPT !.y = @ - 1]
          \/ screen' = [screen EXCEPT !.lines =
                          RemoveLine(InsertLine(screen.lines, screen.ybase + screen.y, Blank),
                                     screen.ybase + screen.bottom + 1)]
      BY <1>6 DEF ReverseIndex, InsertLines, Becomes
    <2>2. CASE screen' = [screen EXCEPT !.y = @ - 1]
      <3>1. screen'.lines = screen.lines
        BY <1>1, <2>2 DEF Screen
      <3> QED BY <3>1 DEF Whole
    <2> QED BY <1>4, <1>5, <2>1, <2>2
  <1>7. CASE DeleteLines
    <2>1. screen' = [screen EXCEPT !.lines =
                       RemoveLine(InsertLine(screen.lines, screen.ybase + screen.bottom + 1, Blank),
                                  screen.ybase + screen.y)]
      BY <1>7 DEF DeleteLines, Becomes
    <2> QED BY <1>4, <1>5, <2>1
  <1>8. CASE ScrollUp
    <2>1. screen' = [screen EXCEPT !.lines =
                       InsertLine(RemoveLine(screen.lines, screen.ybase + screen.top),
                                  screen.ybase + screen.bottom, Blank)]
      BY <1>8 DEF ScrollUp, Becomes
    <2> QED BY <1>4, <1>5, <2>1
  <1>9. CASE ScrollDown
    <2>1. screen' = [screen EXCEPT !.lines =
                       InsertLine(RemoveLine(screen.lines, screen.ybase + screen.bottom),
                                  screen.ybase + screen.top, Blank)]
      BY <1>9 DEF ScrollDown, Becomes
    <2> QED BY <1>4, <1>5, <2>1
  <1> QED BY <1>3, <1>6, <1>7, <1>8, <1>9

\* Those that leave the lines, or exchange the screens.
LEMMA StandStepWhole ==
    ASSUME Inv, Whole(screen), Whole(normal),
           \/ BeginWrite \/ EndWrite \/ CursorUp \/ CursorDown \/ CursorPos
           \/ SetScrollRegion \/ SaveCursor \/ RestoreCursor \/ SetCursorHidden
           \/ Reset \/ SoftReset \/ SetAlternate \/ ResetAlternate \/ Widened
           \/ ScrollDisp \/ ShowCursor \/ RefreshTimer
    PROVE  Whole(screen') /\ Whole(normal')
  <1>1. screen \in Screen
    BY Standing
  <1>2. Whole(Fresh) /\ Whole(NoScreen)
    <2>1. [i \in 1 .. Rows |-> Blank] \in Seq(FullLine)
      BY TerminalConstants, BlankIsFull
    <2>2. <<>> \in Seq(FullLine)
      OBVIOUS
    <2> QED BY <2>1, <2>2 DEF Whole, Fresh, NoScreen
  <1>3. CASE Reset \/ SetAlternate \/ ResetAlternate
    <2>1. screen' \in {Fresh, normal} /\ normal' \in {NoScreen, screen}
      BY <1>3 DEF Reset, SetAlternate, ResetAlternate
    <2> QED BY <1>2, <2>1
  <1>4. CASE BeginWrite \/ CursorUp \/ CursorDown \/ CursorPos \/ RestoreCursor
    <2>1. screen'.lines = screen.lines /\ normal' = normal
      BY <1>1, <1>4 DEF BeginWrite, CursorUp, CursorDown, CursorPos, RestoreCursor,
         Becomes, Screen
    <2> QED BY <2>1 DEF Whole
  <1>5. CASE SetScrollRegion \/ SoftReset \/ ScrollDisp
    <2>1. screen'.lines = screen.lines /\ normal' = normal
      BY <1>1, <1>5 DEF SetScrollRegion, SoftReset, ScrollDisp, Screen
    <2> QED BY <2>1 DEF Whole
  <1>6. CASE Widened
    <2>1. screen'.lines = screen.lines /\ normal' = NoScreen
      BY <1>1, <1>6 DEF Widened, Screen
    <2> QED BY <1>2, <2>1 DEF Whole
  <1>7. CASE EndWrite \/ SaveCursor \/ SetCursorHidden \/ ShowCursor \/ RefreshTimer
    <2>1. screen' = screen /\ normal' = normal
      BY <1>7 DEF EndWrite, SaveCursor, SetCursorHidden, ShowCursor, RefreshTimer
    <2> QED BY <2>1
  <1> QED BY <1>3, <1>4, <1>5, <1>6, <1>7

\* The histories only grow.
LEMMA CellsGrow ==
    ASSUME CellTypes, Next
    PROVE  CellTypes' /\ (gapped => gapped')
  <1>0. gapped \in BOOLEAN /\ smeared \in BOOLEAN /\ shared \subseteq {"screen", "normal"}
    BY DEF CellTypes
  <1>1. CASE UNCHANGED cellVars
    BY <1>0, <1>1 DEF cellVars, CellTypes
  <1>2. CASE PutCombining
    <2>1. UNCHANGED <<shared, gapped>> /\ smeared' \in {smeared, TRUE}
      BY <1>2, Zenon DEF PutCombining, Becomes, Throws, cellVars
    <2> QED BY <1>0, <2>1 DEF CellTypes
  <1>3. CASE RepeatChar
    <2>1. CASE HasLine(screen, screen.y)
      <3>1. PICK g \in {LineOf(screen, screen.y).gap, TRUE} : gapped' = (gapped \/ g)
        BY <1>3, <2>1 DEF RepeatChar
      <3>2. UNCHANGED <<shared, smeared>>
        BY <1>3, <2>1 DEF RepeatChar
      <3>3. gapped' \in BOOLEAN /\ (gapped => gapped')
        BY <3>1, Zenon
      <3> QED BY <1>0, <3>2, <3>3 DEF CellTypes
    <2>2. CASE ~HasLine(screen, screen.y)
      <3>1. UNCHANGED cellVars
        BY <1>3, <2>2 DEF RepeatChar, Throws
      <3> QED BY <1>1, <3>1
    <2> QED BY <2>1, <2>2
  <1>4. CASE Reset \/ SetAlternate \/ ResetAlternate \/ SetColumns \/ Resize
    <2>1. UNCHANGED <<smeared, gapped>>
      BY <1>4 DEF Reset, SetAlternate, ResetAlternate, SetColumns, Resize, Widened
    <2>2. shared' \subseteq {"screen", "normal"}
      BY <1>0, <1>4 DEF Reset, SetAlternate, ResetAlternate, SetColumns, Resize, Widened
    <2> QED BY <1>0, <2>1, <2>2 DEF CellTypes
  <1>5. CASE \/ BeginWrite \/ EndWrite \/ LineFeed \/ ReverseIndex
             \/ CursorUp \/ CursorDown \/ CursorPos
    BY <1>1, <1>5 DEF BeginWrite, EndWrite, LineFeed, ReverseIndex, CursorUp, CursorDown,
       CursorPos, Becomes
  <1>6. CASE \/ PutChar \/ EraseInLine \/ EraseBelow \/ EraseAbove \/ EraseAll
             \/ EditChars
    <2>1. UNCHANGED cellVars
      BY <1>6 DEF PutChar, EraseInLine, EraseBelow, EraseAbove, EraseAll, EditChars,
         Becomes, Throws
    <2> QED BY <1>1, <2>1
  <1>7. CASE \/ InsertLines \/ DeleteLines \/ ScrollUp \/ ScrollDown
             \/ SetScrollRegion \/ SaveCursor \/ RestoreCursor \/ SetCursorHidden
    BY <1>1, <1>7 DEF InsertLines, DeleteLines, ScrollUp, ScrollDown, SetScrollRegion,
       SaveCursor, RestoreCursor, SetCursorHidden, Becomes
  <1>8. CASE SoftReset \/ ScrollDisp \/ ShowCursor \/ RefreshTimer
    BY <1>1, <1>8 DEF SoftReset, ScrollDisp, ShowCursor, RefreshTimer
  <1> QED BY <1>2, <1>3, <1>4, <1>5, <1>6, <1>7, <1>8 DEF Next

\* No step makes a hole without saying so.
LEMMA NextWhole ==
    ASSUME Inv, Whole(screen), Whole(normal), Next, ~gapped'
    PROVE  Whole(screen') /\ Whole(normal')
  <1>1. CASE \/ PutChar \/ PutCombining \/ EraseInLine \/ EraseBelow \/ EraseAbove
             \/ EraseAll \/ EditChars \/ RepeatChar
    <2>1. normal' = normal
      BY <1>1 DEF PutChar, PutCombining, EraseInLine, EraseBelow, EraseAbove, EraseAll,
         EditChars, RepeatChar, Becomes, Throws
    <2> QED BY <1>1, <2>1, TextStepWhole
  <1>2. CASE \/ LineFeed \/ ReverseIndex \/ InsertLines \/ DeleteLines
             \/ ScrollUp \/ ScrollDown
    <2>1. normal' = normal
      BY <1>2 DEF LineFeed, ReverseIndex, InsertLines, DeleteLines, ScrollUp, ScrollDown,
         Becomes
    <2> QED BY <1>2, <2>1, MoveStepWhole
  <1>3. CASE SetColumns \/ Resize
    <2>1. Widened
      BY <1>3 DEF SetColumns, Resize
    <2> QED BY <2>1, StandStepWhole
  <1> QED BY <1>1, <1>2, <1>3, StandStepWhole DEF Next

\* What throws inside a write: a row without a line, or a cell that is missing.
LEMMA ThrowStepExplained ==
    ASSUME Inv, CellsInv,
           \/ PutChar \/ PutCombining \/ EraseInLine \/ EraseBelow \/ EraseAbove
           \/ EditChars \/ RepeatChar
    PROVE  /\ mounted' = mounted /\ bad' = bad
           /\ thrown' = thrown \/ bad \/ gapped
  <1>1. writing /\ mounted' = mounted /\ bad' = bad
    BY DEF PutChar, PutCombining, EraseInLine, EraseBelow, EraseAbove, EditChars, RepeatChar,
       Op, Becomes, Throws
  <1>2. Good(screen, range) /\ screen.y \in Nat /\ screen \in Screen
    BY <1>1, GoodNow, Writing DEF Good, Sound
  <1>3. CASE PutChar
    <2>1. PICK wraps \in BOOLEAN, t \in Text :
             LET s == IF wraps THEN LineFed(screen) ELSE screen
             IN  \/ thrown' = thrown
                 \/ HasLine(s, s.y) /\ LineOf(s, s.y).gap
                 \/ ~HasLine(s, s.y)
      BY <1>3, Zenon DEF PutChar, Becomes
    <2> DEFINE s == IF wraps THEN LineFed(screen) ELSE screen
               r == IF wraps THEN LineFedRange(screen, range) ELSE range
    <2>2. \/ thrown' = thrown
          \/ HasLine(s, s.y) /\ LineOf(s, s.y).gap
          \/ ~HasLine(s, s.y)
      BY <2>1
    <2>3. Good(s, r) /\ s.y \in Nat
      BY <1>1, <1>2, GoodLineFed
    <2>4. ~gapped => Whole(s)
      BY LineFedWhole DEF CellsInv
    <2> HIDE DEF s, r
    <2>5. CASE ~HasLine(s, s.y)
      BY <1>1, <2>3, <2>5, NoLine
    <2>6. CASE HasLine(s, s.y) /\ LineOf(s, s.y).gap
      <3>1. s \in Screen
        BY <2>3 DEF Good, Sound
      <3> QED BY <1>1, <2>3, <2>4, <2>6, <3>1, WrittenWhole
    <2> QED BY <1>1, <2>2, <2>5, <2>6
  <1>4. CASE PutCombining \/ EraseInLine \/ EraseBelow \/ EraseAbove \/ EditChars \/ RepeatChar
    <2>1. thrown' = thrown \/ ~HasLine(screen, screen.y)
      BY <1>4 DEF PutCombining, EraseInLine, EraseBelow, EraseAbove, EditChars, RepeatChar,
         Becomes
    <2> QED BY <1>1, <1>2, <2>1, NoLine
  <1> QED BY <1>3, <1>4

\* The timer paints only rows that exist.
LEMMA PaintedRows ==
    ASSUME Inv, ~bad, painter.timers # <<>>
    PROVE  Paint(painter, Rows) \subseteq 0 .. Rows - 1
  <1>1. CASE painter.full
    BY <1>1 DEF Paint
  <1>2. CASE ~painter.full
    <2> DEFINE h == Head(painter.timers)
    <2>1. Paint(painter, Rows) = h.start .. h.end
      BY <1>2 DEF Paint
    <2>2. painter.timers \in Seq([start : Nat, end : Int]) /\ Len(painter.timers) <= 1
      BY Standing DEF Painter, OneTimer
    <2>3. h \in [start : Nat, end : Int]
      BY <2>2, SingleTimer
    <2>4. h.start \in Nat /\ h.end \in Int
      BY <2>3
    <2>5. h.end < Rows
      BY DEF Inv, NamedInv
    <2> QED BY <2>1, <2>4, <2>5, Standing
  <1> QED BY <1>1, <1>2

\* Rows that have their lines and cells are painted to the end.
LEMMA PaintStepExplained ==
    ASSUME Inv, CellsInv, RefreshTimer, ~bad, ~gapped
    PROVE  mounted' /\ thrown' = thrown
  <1>1. mounted /\ Whole(screen)
    BY DEF CellsInv, NothingElseThrows
  <1>2. Gaps = {}
    <2>1. screen.lines \in Seq(FullLine) /\ screen.ydisp \in Nat /\ Rows \in Nat
      BY <1>1, Standing DEF Whole, Screen
    <2> SUFFICES ASSUME NEW y \in 0 .. Rows - 1, screen.ydisp + y < Len(screen.lines)
                 PROVE  ~screen.lines[screen.ydisp + y + 1].gap
      BY DEF Gaps
    <2>2. screen.lines[screen.ydisp + y + 1] \in FullLine
      BY <2>1
    <2> QED BY <2>2 DEF FullLine
  <1>3. painter.timers # <<>>
    BY DEF RefreshTimer
  <1> DEFINE rows == Paint(painter, Rows)
             big  == \E first, last \in rows : 2 * (last - first) >= Rows
  <1>4. rows \subseteq 0 .. Rows - 1
    BY <1>3, PaintedRows
  <1>5. \E halts \in {{}} \cup {{y} : y \in Gaps} :
           LET done == ~(big /\ ~mounted) /\ halts = {} /\ rows \subseteq 0 .. Rows - 1
           IN  /\ mounted' = IF big THEN done ELSE mounted
               /\ thrown' = (thrown \/ ~done)
    BY DEF RefreshTimer
  <1>6. {{}} \cup {{y} : y \in Gaps} = {{}}
    BY <1>2
  <1> HIDE DEF rows, big
  <1>7. LET done == ~(big /\ ~mounted) /\ rows \subseteq 0 .. Rows - 1
        IN  /\ mounted' = IF big THEN done ELSE mounted
            /\ thrown' = (thrown \/ ~done)
    BY <1>5, <1>6
  <1>8. thrown \in BOOLEAN /\ mounted \in BOOLEAN
    BY DEF Inv, RowTypes
  <1> QED BY <1>1, <1>4, <1>7, <1>8, Zenon

LEMMA InitCells == Init => CellsInv
  <1> SUFFICES ASSUME Init PROVE CellsInv
    OBVIOUS
  <1>1. CellTypes /\ NothingElseThrows
    BY DEF Init, CellTypes, NothingElseThrows
  <1>2. [i \in 1 .. Rows |-> Blank] \in Seq(FullLine) /\ <<>> \in Seq(FullLine)
    BY TerminalConstants, BlankIsFull
  <1>3. Whole(screen) /\ Whole(normal)
    BY <1>2 DEF Init, Whole, Fresh, NoScreen
  <1> QED BY <1>1, <1>3 DEF CellsInv

LEMMA NextCells == ASSUME Inv, CellsInv, [Next]_vars PROVE CellsInv'
  <1>1. CASE UNCHANGED vars
    <2>1. UNCHANGED <<screen, normal, mounted, thrown, bad, shared, smeared, gapped>>
      BY <1>1 DEF vars, cellVars
    <2> QED BY <2>1 DEF CellsInv, CellTypes, NothingElseThrows, Whole
  <1>2. CASE Next
    <2>1. CellTypes' /\ (gapped => gapped')
      BY <1>2, CellsGrow DEF CellsInv
    <2>2. ~gapped' => Whole(screen') /\ Whole(normal')
      BY <1>2, <2>1, NextWhole DEF CellsInv
    <2>3. NothingElseThrows'
      <3>1. CASE \/ PutChar \/ PutCombining \/ EraseInLine \/ EraseBelow \/ EraseAbove
                 \/ EditChars \/ RepeatChar
        <4>1. mounted' = mounted /\ bad' = bad /\ (thrown' = thrown \/ bad \/ gapped)
          BY <3>1, ThrowStepExplained
        <4> QED BY <2>1, <4>1 DEF CellsInv, NothingElseThrows
      <3>2. CASE RefreshTimer
        <4>1. bad' = bad
          BY <3>2 DEF RefreshTimer
        <4>2. bad \/ gapped \/ (mounted' /\ thrown' = thrown)
          BY <3>2, PaintStepExplained
        <4> QED BY <2>1, <4>1, <4>2 DEF CellsInv, NothingElseThrows
      <3>3. CASE mounted' = mounted /\ thrown' = thrown /\ (bad => bad')
        BY <2>1, <3>3 DEF CellsInv, NothingElseThrows
      <3>4. CASE \/ BeginWrite \/ EndWrite \/ LineFeed \/ ReverseIndex \/ CursorUp
                 \/ CursorDown \/ CursorPos \/ EraseAll
        BY <3>3, <3>4 DEF BeginWrite, EndWrite, LineFeed, ReverseIndex, CursorUp, CursorDown,
           CursorPos, EraseAll, Becomes
      <3>5. CASE \/ InsertLines \/ DeleteLines \/ ScrollUp \/ ScrollDown
                 \/ SetScrollRegion \/ SaveCursor \/ RestoreCursor \/ SetCursorHidden
        <4>1. bad => bad'
          BY <3>5 DEF InsertLines, DeleteLines, ScrollUp, ScrollDown, SetScrollRegion,
             SaveCursor, RestoreCursor, SetCursorHidden, Becomes
        <4>2. mounted' = mounted /\ thrown' = thrown
          BY <3>5 DEF InsertLines, DeleteLines, ScrollUp, ScrollDown, SetScrollRegion,
             SaveCursor, RestoreCursor, SetCursorHidden, Becomes
        <4> QED BY <3>3, <4>1, <4>2
      <3>6. CASE \/ Reset \/ SoftReset \/ SetAlternate \/ ResetAlternate \/ SetColumns
                 \/ Resize \/ ScrollDisp \/ ShowCursor
        BY <3>3, <3>6 DEF Reset, SoftReset, SetAlternate, ResetAlternate, SetColumns, Resize,
           Widened, ScrollDisp, ShowCursor
      <3> QED BY <1>2, <3>1, <3>2, <3>4, <3>5, <3>6 DEF Next
    <2> QED BY <2>1, <2>2, <2>3 DEF CellsInv
  <1> QED BY <1>1, <1>2

\* While nothing was written behind the end of a line, every line of both screens
\* has its cells (xterm.js, blankLine and the splices of the region functions).
THEOREM CellsAlways == Spec => []CellsInv
  BY InitCells, NextCells, InvAlways, PTL DEF Spec

\* The variables have their types, whatever the constants (xterm.js, write and
\* refresh).
THEOREM TerminalTyped == Spec => []TypeOK
  <1>1. Inv /\ CellsInv => TypeOK
    BY DEF Inv, CellsInv, TypeOK
  <1> QED BY <1>1, InvAlways, CellsAlways, PTL

\* An exception that escapes from write or refresh has one of two causes: a scroll
\* region below the screen (CSI r), or a character repeated behind the end of a
\* line (CSI b).  Every other sequence keeps a line for each row, and its cells.
THEOREM ThrowsExplained == Spec => []NothingElseThrows
  <1>1. CellsInv => NothingElseThrows
    BY DEF CellsInv
  <1> QED BY <1>1, CellsAlways, PTL
=============================================================================
