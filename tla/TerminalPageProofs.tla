------------------------- MODULE TerminalPageProofs -------------------------
(***************************************************************************)
(* Proofs about TerminalPage, for every size of the terminal and every     *)
(* number of messages and inputs.                                          *)
(***************************************************************************)
EXTENDS TerminalPage, FiniteSetTheorems, SequenceTheorems, TLAPS

-----------------------------------------------------------------------------
(* Attaching and detaching *)

Call == {"runRealTerminal", "detach"}
Base == IF attaches = 0 THEN {} ELSE {1}

\* The listeners still to run: none; the page's and then one detach for each
\* attach so far; or detaches only, after an attach that was not the first.
CallsInv ==
    \/ calls = <<>> /\ onData = Base
    \/ /\ calls = <<"runRealTerminal">> \o [i \in 1 .. attaches |-> "detach"]
       /\ onData = Base
    \/ /\ calls # <<>> /\ calls \in Seq({"detach"})
       /\ attaches >= 2 /\ onData \in {{1}, {1, attaches}}

\* What the socket's state says about the events fired so far.
EventsInv ==
    /\ socket = "connecting" => Idle /\ attaches = 0 /\ ~hasSocket
    /\ socket \in {"open", "closing"} =>
          \/ events = <<"open">> /\ calls = <<>> /\ attaches = 0
          \/ events = <<>> /\ calls # <<>> /\ attaches = 0
          \/ events = <<>> /\ calls = <<>> /\ attaches = 1 /\ hasSocket
    /\ socket = "closed" =>
          \/ events = <<"error", "close">> /\ calls = <<>>
          \/ events = <<"close">> /\ (calls = <<>> => attaches > 0)
          \/ events = <<>> /\ attaches > 0 /\ (calls = <<>> => ~hasSocket)

AttachInv ==
    /\ socket \in {"connecting", "open", "closing", "closed"}
    /\ attaches \in Nat /\ detachers = attaches /\ hasSocket \in BOOLEAN
    /\ onMessage = onData
    /\ CallsInv
    /\ EventsInv

attachState == <<socket, events, calls, attaches, onData, onMessage, detachers, hasSocket>>

\* The listeners of an event, as a sequence.
LEMMA ListenerSeq ==
    ASSUME NEW n \in Nat
    PROVE  LET c == <<"runRealTerminal">> \o [i \in 1 .. n |-> "detach"]
           IN  /\ c # <<>> /\ Head(c) = "runRealTerminal"
               /\ Tail(c) = [i \in 1 .. n |-> "detach"]
               /\ Tail(c) \in Seq({"detach"}) /\ Len(Tail(c)) = n
  <1> DEFINE d == [i \in 1 .. n |-> "detach"]
             c == <<"runRealTerminal">> \o d
  <1>1. d \in Seq({"detach"}) /\ Len(d) = n
    OBVIOUS
  <1>2. d \in Seq(Call) /\ <<"runRealTerminal">> \in Seq(Call)
    BY <1>1 DEF Call
  <1>3. c \in Seq(Call) /\ Len(c) = n + 1
    BY <1>1, <1>2
  <1>4. c[1] = "runRealTerminal" /\ \A i \in 1 .. n : c[i + 1] = d[i]
    BY <1>1, <1>2
  <1>5. c # <<>> /\ Head(c) = "runRealTerminal"
    BY <1>3, <1>4
  <1>6. Tail(c) = d
    <2>1. Tail(c) \in Seq(Call) /\ Len(Tail(c)) = n
      BY <1>3, <1>5
    <2>2. \A i \in 1 .. n : Tail(c)[i] = d[i]
      BY <1>3, <1>4, <1>5
    <2> QED BY <1>1, <1>2, <2>1, <2>2
  <1> QED BY <1>1, <1>5, <1>6

\* The tail of detaches is detaches.
LEMMA DetachSeq ==
    ASSUME NEW c \in Seq({"detach"}), c # <<>>
    PROVE  Head(c) = "detach" /\ Tail(c) \in Seq({"detach"})
  OBVIOUS

\* The page starts with nothing attached.
LEMMA AttachInit == Init => AttachInv
  <1> SUFFICES ASSUME Init PROVE AttachInv
    OBVIOUS
  <1>1. /\ socket = "connecting" /\ events = <<>> /\ calls = <<>>
        /\ attaches = 0 /\ onData = {} /\ onMessage = {} /\ detachers = 0
        /\ hasSocket = FALSE
    BY DEF Init
  <1> QED BY <1>1 DEF AttachInv, CallsInv, EventsInv, Base, Idle

\* Attaching, detaching and the socket's events preserve AttachInv; the other
\* steps leave its variables alone.
LEMMA AttachStep == AttachInv /\ [Next]_vars => AttachInv'
  <1> SUFFICES ASSUME AttachInv, [Next]_vars PROVE AttachInv'
    OBVIOUS
  <1>1. CASE UNCHANGED attachState
    BY <1>1 DEF AttachInv, CallsInv, EventsInv, Base, Idle, attachState
  <1>2. CASE SocketOpen
    BY <1>2 DEF SocketOpen, AttachInv, CallsInv, EventsInv, Base, Idle, attachVars
  <1>3. CASE SocketClosing
    BY <1>3 DEF SocketClosing, AttachInv, CallsInv, EventsInv, Base, Idle, attachVars
  <1>4. CASE SocketClose
    <2>1. calls = <<>> /\ calls' = <<>> /\ socket' = "closed" /\ UNCHANGED attachVars
      BY <1>4 DEF SocketClose, Idle
    <2>2. events' = <<"close">> => attaches > 0
      BY <1>4 DEF SocketClose, AttachInv, EventsInv, Idle
    <2>3. events' = <<"close">> \/ events' = <<"error", "close">>
      BY <1>4 DEF SocketClose
    <2>4. CallsInv'
      BY <2>1 DEF AttachInv, CallsInv, Base, attachVars
    <2>5. EventsInv'
      BY <2>1, <2>2, <2>3 DEF EventsInv, attachVars
    <2> QED BY <2>1, <2>4, <2>5 DEF AttachInv, attachVars
  <1>5. CASE FireEvent
    <2>1. calls = <<>> /\ events # <<>> /\ UNCHANGED <<socket, attachVars>>
          /\ calls' = Listeners(Head(events)) /\ events' = Tail(events)
      BY <1>5 DEF FireEvent
    <2>2. events \in {<<"open">>, <<"close">>, <<"error", "close">>}
      BY <2>1 DEF AttachInv, EventsInv, Idle
    <2>3. Head(events) = "open" => attaches = 0
      BY <2>1, <2>2 DEF AttachInv, EventsInv, Idle
    <2>4. calls' = <<"runRealTerminal">> \o [i \in 1 .. attaches |-> "detach"]
      BY <2>1, <2>3 DEF Listeners, AttachInv
    <2>5. calls' # <<>>
      BY <2>4, ListenerSeq DEF AttachInv
    <2>6. CallsInv'
      BY <2>1, <2>4 DEF AttachInv, CallsInv, Base, attachVars
    <2>7. EventsInv'
      <3>1. CASE events = <<"open">>
        BY <2>1, <2>5, <3>1 DEF AttachInv, EventsInv, Idle, attachVars
      <3>2. CASE events = <<"close">>
        BY <2>1, <2>5, <3>2 DEF AttachInv, EventsInv, Idle, attachVars
      <3>3. CASE events = <<"error", "close">>
        BY <2>1, <2>5, <3>3 DEF AttachInv, EventsInv, Idle, attachVars
      <3> QED BY <2>2, <3>1, <3>2, <3>3
    <2> QED BY <2>1, <2>6, <2>7 DEF AttachInv, attachVars
  <1>6. CASE RunRealTerminal
    <2>1. /\ calls # <<>> /\ Head(calls) = "runRealTerminal" /\ calls' = Tail(calls)
          /\ UNCHANGED <<socket, events>>
          /\ attaches' = attaches + 1 /\ detachers' = detachers + 1 /\ hasSocket' = TRUE
          /\ onData' = onData \cup {attaches + 1}
          /\ onMessage' = onMessage \cup {attaches + 1}
      BY <1>6 DEF RunRealTerminal, Attach
    <2>2. calls = <<"runRealTerminal">> \o [i \in 1 .. attaches |-> "detach"]
          /\ onData = Base
      BY <2>1, DetachSeq DEF AttachInv, CallsInv
    <2>3. calls' \in Seq({"detach"}) /\ Len(calls') = attaches
      BY <2>1, <2>2, ListenerSeq DEF AttachInv
    <2>4. CallsInv'
      <3>1. CASE attaches = 0
        BY <2>1, <2>2, <2>3, <3>1 DEF CallsInv, Base
      <3>2. CASE attaches > 0
        <4>1. calls' # <<>>
          BY <2>3, <3>2
        <4> QED BY <2>1, <2>2, <2>3, <3>2, <4>1 DEF CallsInv, Base, AttachInv
      <3> QED BY <3>1, <3>2 DEF AttachInv
    <2>5. calls' = <<>> => attaches = 0
      BY <2>3
    <2>6. EventsInv'
      BY <2>1, <2>3, <2>5 DEF AttachInv, EventsInv, Idle
    <2> QED BY <2>1, <2>4, <2>6 DEF AttachInv
  <1>7. CASE Detach
    <2>1. /\ calls # <<>> /\ Head(calls) = "detach" /\ calls' = Tail(calls)
          /\ UNCHANGED <<socket, events, attaches, detachers>>
          /\ onData' = onData \ {attaches} /\ onMessage' = onMessage \ {attaches}
          /\ hasSocket' = FALSE
      BY <1>7 DEF Detach
    <2>2. calls \in Seq({"detach"}) /\ attaches >= 2 /\ onData \in {{1}, {1, attaches}}
      BY <2>1, ListenerSeq DEF AttachInv, CallsInv
    <2>3. calls' \in Seq({"detach"}) /\ onData' = {1}
      BY <2>1, <2>2, DetachSeq DEF AttachInv
    <2>4. CallsInv'
      BY <2>1, <2>2, <2>3 DEF CallsInv, Base
    <2>5. EventsInv'
      BY <2>1, <2>2 DEF AttachInv, EventsInv, Idle
    <2> QED BY <2>1, <2>4, <2>5 DEF AttachInv
  <1>8. CASE Message \/ KeyDown \/ Report \/ ScrollDisp \/ RefreshTimer \/ SendTimer
    <2>1. UNCHANGED attachState
      BY <1>8 DEF Message, KeyDown, Report, ScrollDisp, RefreshTimer, SendTimer,
                  socketVars, attachVars, attachState
    <2> QED BY <1>1, <2>1
  <1>9. CASE UNCHANGED vars
    BY <1>1, <1>9 DEF vars, socketVars, attachVars, attachState
  <1> QED BY <1>2, <1>3, <1>4, <1>5, <1>6, <1>7, <1>8, <1>9 DEF Next, EventLoop

\* AttachInv is an invariant.
LEMMA AttachInvariant == Spec => []AttachInv
  BY AttachInit, AttachStep, PTL DEF Spec

\* However the connection opens, fails and closes, one attachment is left, and
\* term.socket goes with the connection (attach.js, index.html).
THEOREM AttachedOnce == Spec => []OneAttachment
  <1>1. AttachInv => OneAttachment
    BY DEF AttachInv, CallsInv, EventsInv, Base, Idle, OneAttachment
  <1> QED BY <1>1, AttachInvariant, PTL

-----------------------------------------------------------------------------
(* Painting *)

Range2 == [start : Int, end : Int]

\* p orders a painting of at least the rows in st, and of none outside rows.
Covers(p, st, rows) ==
    /\ p \in [queued : BOOLEAN, full : BOOLEAN, timers : Seq(Range2)]
    /\ st \subseteq rows
    /\ ~p.queued => p.timers = <<>> /\ ~p.full /\ st = {}
    /\ p.queued => Len(p.timers) = 1
    /\ p.queued /\ ~p.full =>
          /\ st \subseteq p.timers[1].start .. p.timers[1].end
          /\ p.timers[1].start .. p.timers[1].end \subseteq rows

\* A sequence of one element.
LEMMA OneElement ==
    ASSUME NEW S, NEW e \in S
    PROVE  Append(<<>>, e) = <<e>> /\ <<e>> \in Seq(S) /\ Len(<<e>>) = 1 /\ <<e>>[1] = e
  OBVIOUS

\* A sequence of length one, taken apart.
LEMMA OneTail ==
    ASSUME NEW S, NEW s \in Seq(S), Len(s) = 1
    PROVE  Tail(s) = <<>> /\ Head(s) = s[1]
  <1>1. s # <<>> /\ Head(s) = s[1]
    OBVIOUS
  <1>2. Tail(s) \in Seq(S) /\ Len(Tail(s)) = 0
    BY <1>1
  <1>3. \A t \in Seq(S) : Len(t) = 0 => t = <<>>
    OBVIOUS
  <1> QED BY <1>1, <1>2, <1>3

\* The first order starts a timer for its range.
LEMMA FirstOrder ==
    ASSUME NEW p, NEW st, NEW rows, Covers(p, st, rows), ~p.queued,
           NEW a \in Int, NEW b \in Int
    PROVE  LET q == Refresh(p, a, b)
           IN  /\ q \in [queued : BOOLEAN, full : BOOLEAN, timers : Seq(Range2)]
               /\ q.queued /\ ~q.full /\ Len(q.timers) = 1
               /\ q.timers[1].start = a /\ q.timers[1].end = b
  <1> DEFINE r == [start |-> a, end |-> b]
  <1>1. r \in Range2
    BY DEF Range2
  <1>2. p.timers = <<>> /\ p.full = FALSE
    BY DEF Covers
  <1>3. p = [queued |-> p.queued, full |-> p.full, timers |-> p.timers]
    BY DEF Covers
  <1>4. Refresh(p, a, b) = [queued |-> TRUE, full |-> p.full, timers |-> Append(p.timers, r)]
    BY <1>3 DEF Refresh
  <1> HIDE DEF r
  <1>5. Append(<<>>, r) = <<r>> /\ <<r>> \in Seq(Range2) /\ Len(<<r>>) = 1 /\ <<r>>[1] = r
    BY <1>1, OneElement
  <1>6. Refresh(p, a, b) = [queued |-> TRUE, full |-> FALSE, timers |-> <<r>>]
    BY <1>2, <1>4, <1>5
  <1>7. r.start = a /\ r.end = b
    BY DEF r
  <1> QED BY <1>5, <1>6, <1>7

\* Ordering a range covers it as well.
LEMMA RefreshCovers ==
    ASSUME NEW p, NEW st, NEW rows, Covers(p, st, rows),
           NEW a \in Int, NEW b \in Int, a .. b \subseteq rows
    PROVE  Covers(Refresh(p, a, b), st \cup (a .. b), rows)
  <1>1. CASE p.queued
    BY <1>1 DEF Covers, Refresh
  <1>2. CASE ~p.queued
    <2>1. st = {}
      BY <1>2 DEF Covers
    <2> DEFINE q == Refresh(p, a, b)
    <2>2. /\ q \in [queued : BOOLEAN, full : BOOLEAN, timers : Seq(Range2)]
          /\ q.queued /\ ~q.full /\ Len(q.timers) = 1
          /\ q.timers[1].start = a /\ q.timers[1].end = b
      BY <1>2, FirstOrder
    <2> HIDE DEF q
    <2>3. Covers(q, a .. b, rows)
      BY <2>2 DEF Covers
    <2> QED BY <2>1, <2>3 DEF q
  <1> QED BY <1>1, <1>2

\* Ordering all the rows covers whatever is stale, for the old rows or new ones.
LEMMA RefreshAllCovers ==
    ASSUME NEW p, NEW st, NEW rows, Covers(p, st, rows), NEW n \in Int,
           NEW st2, st2 \subseteq 0 .. n - 1
    PROVE  Covers(Refresh(p, 0, n - 1), st2, 0 .. n - 1)
  <1>1. CASE p.queued
    BY <1>1 DEF Covers, Refresh
  <1>2. CASE ~p.queued
    <2> DEFINE q == Refresh(p, 0, n - 1)
    <2>1. /\ q \in [queued : BOOLEAN, full : BOOLEAN, timers : Seq(Range2)]
          /\ q.queued /\ ~q.full /\ Len(q.timers) = 1
          /\ q.timers[1].start = 0 /\ q.timers[1].end = n - 1
      BY <1>2, FirstOrder
    <2> HIDE DEF q
    <2>2. Covers(q, st2, 0 .. n - 1)
      BY <2>1 DEF Covers
    <2> QED BY <2>2 DEF q
  <1> QED BY <1>1, <1>2

\* The terminal's size, what is stale and what is ordered.
PaintInv ==
    /\ size \in Size
    /\ proposed \in Size
    /\ Covers(painter, stale, Rows(size))
    /\ ~thrown

\* The painting ordered by open covers the new terminal.
LEMMA OpenedCovers == Covers(Opened, Rows(OpenSize), Rows(OpenSize))
  <1> DEFINE r == [start |-> 0, end |-> OpenSize.rows - 1]
  <1>1. OpenSize.rows \in Int
    BY PageAssumption DEF Size
  <1>2. r \in Range2
    BY <1>1 DEF Range2
  <1>3. <<r>> \in Seq(Range2) /\ Len(<<r>>) = 1 /\ <<r>>[1] = r
    BY <1>2
  <1> QED BY <1>1, <1>3 DEF Covers, Opened, Rows

\* resize keeps what is stale covered, and covers everything if it does resize.
LEMMA ResizeCovers ==
    ASSUME NEW p, NEW st, NEW s \in Size, NEW g \in Size, Covers(p, st, Rows(s))
    PROVE  /\ Resized(s, g) \in Size
           /\ g = s => Covers(AfterResize(p, s, g), st, Rows(Resized(s, g)))
           /\ g # s => Covers(AfterResize(p, s, g), Rows(Resized(s, g)), Rows(Resized(s, g)))
  <1>1. Clamped(g) \in Size
    BY DEF Clamped, Size
  <1>2. Clamped(g).rows \in Int
    BY <1>1 DEF Size
  <1>3. Covers(Refresh(p, 0, Clamped(g).rows - 1), Rows(Clamped(g)), Rows(Clamped(g)))
    BY <1>2, RefreshAllCovers DEF Rows
  <1> QED BY <1>1, <1>3 DEF Resized, AfterResize

\* The script leaves the terminal with all its rows covered.
LEMMA PaintInit == Init => PaintInv
  <1> SUFFICES ASSUME Init PROVE PaintInv
    OBVIOUS
  <1>1. PICK fitted \in Geometries :
          LET focused == IF cursor THEN Refresh(Opened, 0, 0) ELSE Opened IN
          /\ size = Resized(OpenSize, fitted)
          /\ painter = AfterResize(focused, OpenSize, fitted)
    BY DEF Init
  <1> DEFINE focused == IF cursor THEN Refresh(Opened, 0, 0) ELSE Opened
  <1>2. OpenSize \in Size /\ fitted \in Size /\ 0 .. 0 \subseteq Rows(OpenSize)
    BY PageAssumption DEF Rows, Size
  <1>3. Rows(OpenSize) \cup (0 .. 0) = Rows(OpenSize)
    BY <1>2
  <1>4. Covers(Refresh(Opened, 0, 0), Rows(OpenSize), Rows(OpenSize))
    BY <1>2, <1>3, OpenedCovers, RefreshCovers
  <1>5. Covers(focused, Rows(OpenSize), Rows(OpenSize))
    BY <1>4, OpenedCovers
  <1>6. size = Resized(OpenSize, fitted) /\ painter = AfterResize(focused, OpenSize, fitted)
    BY <1>1
  <1> HIDE DEF focused
  <1>7. size \in Size /\ Covers(painter, Rows(size), Rows(size))
    <2>1. CASE fitted = OpenSize
      BY <1>2, <1>5, <1>6, <2>1, ResizeCovers DEF Resized
    <2>2. CASE fitted # OpenSize
      BY <1>2, <1>5, <1>6, <2>2, ResizeCovers
    <2> QED BY <2>1, <2>2
  <1>8. proposed \in Size /\ thrown = FALSE /\ stale = Rows(size)
    BY PageAssumption DEF Init
  <1> QED BY <1>7, <1>8 DEF PaintInv

\* While the page is connecting nothing is sent, so handler does not throw.
LEMMA HandlerQuiet ==
    ASSUME AttachInv, ~thrown, NEW d, Handler(d) PROVE ~thrown'
  BY DEF AttachInv, EventsInv, CallsInv, Base, Idle, Handler

\* A step that leaves the terminal alone.
screenState == <<size, proposed, stale, painter, thrown>>

\* A painting runs for the rows it was ordered for, all of them still there.
LEMMA PaintTimer ==
    ASSUME PaintInv, RefreshTimer
    PROVE  PaintInv'
  <1>1. painter.timers # <<>> /\ UNCHANGED <<size, proposed>>
        /\ painter' = [queued |-> FALSE, full |-> FALSE, timers |-> Tail(painter.timers)]
        /\ stale' = stale \ Paint(painter, size.rows)
        /\ thrown' = (thrown \/ ~(Paint(painter, size.rows) \subseteq Rows(size)))
    BY DEF RefreshTimer, Fired
  <1>2. painter.queued /\ Len(painter.timers) = 1 /\ painter.timers \in Seq(Range2)
    BY <1>1 DEF PaintInv, Covers
  <1>3. Tail(painter.timers) = <<>> /\ Head(painter.timers) = painter.timers[1]
    BY <1>2, OneTail
  <1>4. stale \subseteq Paint(painter, size.rows) /\ Paint(painter, size.rows) \subseteq Rows(size)
    BY <1>2, <1>3 DEF PaintInv, Covers, Paint, Rows
  <1>5. stale' = {} /\ ~thrown'
    BY <1>1, <1>4 DEF PaintInv
  <1>6. painter' = [queued |-> FALSE, full |-> FALSE, timers |-> <<>>]
    BY <1>1, <1>3
  <1>7. <<>> \in Seq(Range2)
    OBVIOUS
  <1>8. Covers(painter', stale', Rows(size))
    BY <1>5, <1>6, <1>7 DEF Covers
  <1> QED BY <1>1, <1>5, <1>8 DEF PaintInv, Rows

\* A message, whatever it does to the screen.
LEMMA PaintMessage == ASSUME PaintInv, Message PROVE PaintInv'
  <1>1. UNCHANGED <<size, proposed, thrown>>
    BY DEF Message
  <1>2. size.rows \in Int /\ Rows(size) = 0 .. size.rows - 1 /\ Covers(painter, stale, Rows(size))
    BY DEF PaintInv, Rows, Size
  <1>3. CASE UNCHANGED <<stale, painter>>
    BY <1>1, <1>3 DEF PaintInv, Rows
  <1>4. CASE ~UNCHANGED <<stale, painter>>
    <2>1. PICK start \in Rows(size), end \in Rows(size) :
             \/ WriteText(start, end) \/ WriteQuery(start, end) \/ WriteReset(start, end)
             \/ WriteAlternate(start, end) \/ WriteNormal(start, end)
      BY <1>4 DEF Message
    <2>2. start \in Int /\ end \in Int /\ start .. end \subseteq Rows(size)
      BY <1>2
    <2>3. CASE WriteText(start, end) \/ WriteQuery(start, end)
      <3>1. painter' = Refresh(painter, start, end) /\ stale' = stale \cup (start .. end)
        BY <2>3 DEF WriteText, WriteQuery
      <3>2. Covers(painter', stale', Rows(size))
        BY <1>2, <2>2, <3>1, RefreshCovers
      <3> QED BY <1>1, <3>2 DEF PaintInv, Rows
    <2>4. CASE WriteReset(start, end) \/ WriteAlternate(start, end) \/ WriteNormal(start, end)
      <3>1. painter' = Refresh(Refresh(painter, 0, size.rows - 1), start, end)
            /\ stale' = Rows(size)
        BY <2>4 DEF WriteReset, WriteAlternate, WriteNormal
      <3> DEFINE q == Refresh(painter, 0, size.rows - 1)
      <3>2. Covers(q, Rows(size), Rows(size))
        BY <1>2, RefreshAllCovers
      <3> HIDE DEF q
      <3>3. Covers(Refresh(q, start, end), Rows(size) \cup (start .. end), Rows(size))
        BY <2>2, <3>2, RefreshCovers
      <3>4. Rows(size) \cup (start .. end) = Rows(size)
        BY <2>2
      <3>5. Covers(painter', stale', Rows(size))
        BY <3>1, <3>3, <3>4 DEF q
      <3> QED BY <1>1, <3>5 DEF PaintInv, Rows
    <2> QED BY <2>1, <2>3, <2>4
  <1> QED BY <1>3, <1>4

\* Every step keeps the stale rows covered and throws nothing.
LEMMA PaintStep == PaintInv /\ AttachInv /\ [Next]_vars => PaintInv'
  <1> SUFFICES ASSUME PaintInv, AttachInv, [Next]_vars PROVE PaintInv'
    OBVIOUS
  <1>1. size.rows \in Int /\ Rows(size) = 0 .. size.rows - 1 /\ Covers(painter, stale, Rows(size))
    BY DEF PaintInv, Rows, Size
  <1>2. CASE UNCHANGED screenState
    BY <1>2 DEF PaintInv, Rows, screenState
  <1>3. CASE RunRealTerminal
    <2>1. /\ size' = Resized(size, proposed) /\ painter' = AfterResize(painter, size, proposed)
          /\ stale' = IF proposed = size THEN stale ELSE Rows(size')
          /\ UNCHANGED <<proposed, thrown>>
      BY <1>3 DEF RunRealTerminal
    <2>2. size' \in Size /\ Covers(painter', stale', Rows(size'))
      <3>1. CASE proposed = size
        BY <2>1, <3>1, ResizeCovers DEF PaintInv
      <3>2. CASE proposed # size
        BY <2>1, <3>2, ResizeCovers DEF PaintInv
      <3> QED BY <3>1, <3>2
    <2> QED BY <2>1, <2>2 DEF PaintInv, Rows
  <1>4. CASE KeyDown
    <2>1. UNCHANGED <<size, proposed>> /\ ~thrown'
      BY <1>4, HandlerQuiet DEF KeyDown, PaintInv
    <2>2. CASE UNCHANGED <<stale, painter>>
      BY <2>1, <2>2 DEF PaintInv, Rows
    <2>3. CASE \E y \in Rows(size) : painter' = Refresh(painter, y, y) /\ stale' = stale \cup {y}
      <3>1. PICK y \in Rows(size) : painter' = Refresh(painter, y, y) /\ stale' = stale \cup {y}
        BY <2>3
      <3>2. y \in Int /\ y .. y = {y} /\ y .. y \subseteq Rows(size)
        BY <1>1
      <3>3. Covers(painter', stale', Rows(size))
        BY <1>1, <3>1, <3>2, RefreshCovers
      <3> QED BY <2>1, <3>3 DEF PaintInv, Rows
    <2> QED BY <1>4, <2>2, <2>3 DEF KeyDown
  <1>5. CASE ScrollDisp
    <2>1. painter' = Refresh(painter, 0, size.rows - 1) /\ stale' = Rows(size)
          /\ UNCHANGED <<size, proposed, thrown>>
      BY <1>5 DEF ScrollDisp
    <2>2. Covers(painter', stale', Rows(size))
      BY <1>1, <2>1, RefreshAllCovers
    <2> QED BY <2>1, <2>2 DEF PaintInv, Rows
  <1>6. CASE SendTimer
    <2>1. ~thrown'
      BY <1>6, HandlerQuiet DEF SendTimer, PaintInv
    <2> QED BY <1>6, <2>1 DEF SendTimer, PaintInv, Rows, screenVars
  <1>7. CASE SocketOpen \/ SocketClosing \/ SocketClose \/ Report \/ FireEvent \/ Detach
    <2>1. UNCHANGED screenState
      BY <1>7 DEF SocketOpen, SocketClosing, SocketClose, Report, FireEvent, Detach,
                  screenVars, screenState
    <2> QED BY <1>2, <2>1
  <1>8. CASE UNCHANGED vars
    BY <1>2, <1>8 DEF vars, screenVars, screenState
  <1> QED BY <1>3, <1>4, <1>5, <1>6, <1>7, <1>8, PaintTimer, PaintMessage DEF Next, EventLoop

\* PaintInv is an invariant.
LEMMA PaintInvariant == Spec => []PaintInv
  BY PaintInit, PaintStep, AttachInvariant, PTL DEF Spec

\* Whatever is written, scrolled or resized between the order of a painting and
\* its timer, every stale row stays ordered (refresh's debounce).
THEOREM DisplayOrdered == Spec => []StaleRowsOrdered
  <1>1. PaintInv => StaleRowsOrdered
    BY DEF PaintInv, Covers, StaleRowsOrdered
  <1> QED BY <1>1, PaintInvariant, PTL

\* No send before the socket is open, and no painting of a row that a resize has
\* removed (_sendData, refresh).
THEOREM ThrowsNothing == Spec => []NeverThrows
  <1>1. PaintInv => NeverThrows
    BY DEF PaintInv, NeverThrows
  <1> QED BY <1>1, PaintInvariant, PTL

-----------------------------------------------------------------------------
(* Messages *)

MessageInv == received \in Nat /\ written = [i \in 1 .. received |-> i]

\* What one element appended by \o makes of a sequence.
LEMMA AppendOne ==
  ASSUME NEW S, NEW w \in Seq(S), NEW v \in Seq(S), Len(v) = 1
  PROVE  /\ w \o v \in Seq(S) /\ Len(w \o v) = Len(w) + 1
         /\ \A i \in 1 .. Len(w) : (w \o v)[i] = w[i]
         /\ (w \o v)[Len(w) + 1] = v[1]
  <1>0. Len(w) \in Nat
    OBVIOUS
  <1>1. w \o v \in Seq(S)
    BY ConcatProperties
  <1>2. Len(w \o v) = Len(w) + 1
    <2>1. Len(w \o v) = Len(w) + Len(v)
      BY ConcatProperties, Zenon
    <2> QED BY <2>1, Zenon
  <1>3. \A i \in 1 .. Len(w) + 1 : (w \o v)[i] = IF i <= Len(w) THEN w[i] ELSE v[i - Len(w)]
    <2>1. \A i \in 1 .. Len(w) + Len(v) :
             (w \o v)[i] = IF i <= Len(w) THEN w[i] ELSE v[i - Len(w)]
      BY ConcatProperties, Zenon
    <2> QED BY <2>1, Zenon
  <1>4. \A i \in 1 .. Len(w) : (w \o v)[i] = w[i]
    BY <1>0, <1>3
  <1>5. (w \o v)[Len(w) + 1] = v[1]
    <2>1. Len(w) + 1 \in 1 .. Len(w) + 1 /\ ~(Len(w) + 1 <= Len(w)) /\ (Len(w) + 1) - Len(w) = 1
      BY <1>0
    <2> QED BY <1>3, <2>1
  <1> QED BY <1>1, <1>2, <1>4, <1>5

\* Counting on: 1, ..., n and then n + 1.
LEMMA CountOn ==
  ASSUME NEW n \in Nat, NEW w \in Seq(Nat), NEW v \in Seq(Nat),
         Len(w) = n, \A i \in 1 .. n : w[i] = i, Len(v) = 1, v[1] = n + 1
  PROVE  w \o v = [i \in 1 .. n + 1 |-> i]
  <1> DEFINE u == [i \in 1 .. n + 1 |-> i]
             c == w \o v
  <1>1. c \in Seq(Nat) /\ Len(c) = n + 1 /\ (\A i \in 1 .. n : c[i] = w[i]) /\ c[n + 1] = v[1]
    BY AppendOne
  <1>2. u \in Seq(Nat) /\ Len(u) = n + 1 /\ \A i \in 1 .. n + 1 : u[i] = i
    OBVIOUS
  <1> HIDE DEF u, c
  <1>3. \A i \in 1 .. n + 1 : c[i] = u[i]
    <2> SUFFICES ASSUME NEW i \in 1 .. n + 1 PROVE c[i] = u[i]
      OBVIOUS
    <2>1. CASE i \in 1 .. n
      BY <1>1, <1>2, <2>1
    <2>2. CASE i = n + 1
      BY <1>1, <1>2, <2>2
    <2> QED BY <2>1, <2>2
  <1>4. c = u
    BY <1>1, <1>2, <1>3, SeqEqual
  <1> QED BY <1>4 DEF u, c

\* A message is written by the one listener there is.
LEMMA MessageStep == MessageInv /\ AttachInv /\ [Next]_vars => MessageInv'
  <1> SUFFICES ASSUME MessageInv, AttachInv, [Next]_vars PROVE MessageInv'
    OBVIOUS
  <1>1. CASE UNCHANGED <<received, written>>
    BY <1>1 DEF MessageInv
  <1>2. CASE Message
    <2> DEFINE n == received + 1
               w == [i \in 1 .. received |-> i]
               v == [i \in 1 .. 1 |-> n]
    <2>1. onMessage = {1}
      BY <1>2 DEF Message, AttachInv, CallsInv, EventsInv, Base, Idle
    <2>2. Cardinality(onMessage) = 1
      BY <2>1, FS_Singleton
    <2>3. received \in Nat /\ received' = n /\ written' = w \o v
      BY <1>2, <2>2 DEF Message, MessageInv
    <2>4. w \in Seq(Nat) /\ Len(w) = received /\ v \in Seq(Nat) /\ Len(v) = 1 /\ v[1] = n
      BY <2>3
    <2>5. \A i \in 1 .. received : w[i] = i
      OBVIOUS
    <2>6. w \o v = [i \in 1 .. received + 1 |-> i]
      <3> HIDE DEF w, v
      <3> QED BY <2>3, <2>4, <2>5, CountOn DEF n
    <2> QED BY <2>3, <2>6 DEF MessageInv
  <1>3. CASE \/ SocketOpen \/ SocketClosing \/ SocketClose \/ KeyDown \/ Report \/ ScrollDisp
             \/ FireEvent \/ RunRealTerminal \/ Detach \/ RefreshTimer \/ SendTimer
    <2>1. UNCHANGED <<received, written>>
      BY <1>3 DEF SocketOpen, SocketClosing, SocketClose, KeyDown, Report, ScrollDisp, FireEvent,
                  RunRealTerminal, Detach, RefreshTimer, SendTimer, historyVars
    <2> QED BY <1>1, <2>1
  <1>4. CASE UNCHANGED vars
    BY <1>1, <1>4 DEF vars, historyVars
  <1> QED BY <1>2, <1>3, <1>4 DEF Next, EventLoop

LEMMA MessageInit == Init => MessageInv
  <1>1. <<>> = [i \in 1 .. 0 |-> i]
    OBVIOUS
  <1> QED BY <1>1 DEF Init, MessageInv

\* Every message the socket delivers is written to the terminal once and in
\* order, however often the page has attached (_getMessage, attach).
THEOREM WrittenOnce == Spec => []MessagesWrittenOnce
  <1>1. MessageInv => MessagesWrittenOnce
    BY DEF MessageInv, MessagesWrittenOnce
  <1> QED BY <1>1, MessageInit, MessageStep, AttachInvariant, PTL DEF Spec

-----------------------------------------------------------------------------
(* What is sent *)

\* The keys of s are those of t, in the order of the keys pressed so far, p.
KeysOK(s, t, p) ==
    /\ \A i \in DOMAIN s : s[i].from = "key" => \E k \in DOMAIN t : s[i].data = <<t[k]>>
    /\ \A k \in DOMAIN t : t[k] <= p /\ \E i \in DOMAIN s : s[i].from = "key" /\ s[i].data = <<t[k]>>
    /\ \A i, j \in DOMAIN s : s[i].from = "key" /\ s[j].from = "key" /\ i < j =>
          Before(s[i].data, s[j].data)

\* The replies of s and then those of q are in order, up to the last one given, n.
RepliesOK(s, q, n) ==
    /\ Increasing(q)
    /\ \A k \in DOMAIN q : q[k] <= n
    /\ \A i \in DOMAIN s : s[i].from = "queue" =>
          /\ Increasing(s[i].data) /\ Before(s[i].data, q)
          /\ \A k \in DOMAIN s[i].data : s[i].data[k] <= n
          /\ \A j \in DOMAIN s : s[j].from = "queue" /\ i < j => Before(s[i].data, s[j].data)

\* A sequence that has grown.
LEMMA Grown ==
    ASSUME NEW S, NEW s \in Seq(S), NEW x \in S
    PROVE  LET t == Append(s, x)
           IN  /\ t \in Seq(S) /\ Len(s) \in Nat
               /\ DOMAIN s = 1 .. Len(s) /\ DOMAIN t = 1 .. Len(s) + 1
               /\ (\A i \in DOMAIN s : t[i] = s[i]) /\ t[Len(s) + 1] = x
               /\ \A i \in DOMAIN t : i \in DOMAIN s \/ i = Len(s) + 1
  OBVIOUS

\* A key pressed on an open connection.
LEMMA KeySent ==
    ASSUME NEW s \in Seq(Packet), NEW t \in Seq(Nat), NEW p \in Nat, KeysOK(s, t, p)
    PROVE  KeysOK(Append(s, Key(p + 1)), Append(t, p + 1), p + 1)
  <1> DEFINE x == Key(p + 1)
             s2 == Append(s, x)
             t2 == Append(t, p + 1)
             n == Len(s) + 1
             m == Len(t) + 1
  <1>1. x \in Packet /\ x.from = "key" /\ x.data = <<p + 1>> /\ DOMAIN x.data = {1} /\ x.data[1] = p + 1
    BY DEF Key, Packet
  <1> HIDE DEF x
  <1>2. /\ n \in Nat \ {0} /\ DOMAIN s = 1 .. n - 1 /\ DOMAIN s2 = 1 .. n
        /\ (\A i \in DOMAIN s : s2[i] = s[i]) /\ s2[n] = x
        /\ \A i \in DOMAIN s2 : i \in DOMAIN s \/ i = n
    BY <1>1, Grown
  <1>3. /\ m \in Nat \ {0} /\ DOMAIN t = 1 .. m - 1 /\ DOMAIN t2 = 1 .. m
        /\ (\A i \in DOMAIN t : t2[i] = t[i]) /\ t2[m] = p + 1
        /\ \A i \in DOMAIN t2 : i \in DOMAIN t \/ i = m
    BY Grown
  <1>4. \A k \in DOMAIN t : t[k] \in Nat
    OBVIOUS
  <1> HIDE DEF s2, t2, n, m
  <1>5. n \in DOMAIN s2 /\ m \in DOMAIN t2
    BY <1>2, <1>3
  <1>6. DOMAIN s \subseteq DOMAIN s2 /\ DOMAIN t \subseteq DOMAIN t2
    BY <1>2, <1>3
  <1>7. ASSUME NEW i \in DOMAIN s2, s2[i].from = "key" PROVE \E k \in DOMAIN t2 : s2[i].data = <<t2[k]>>
    <2>1. CASE i \in DOMAIN s
      <3>1. PICK k \in DOMAIN t : s[i].data = <<t[k]>>
        BY <1>2, <1>7, <2>1 DEF KeysOK
      <3> QED BY <1>2, <1>3, <1>6, <2>1, <3>1
    <2>2. CASE i = n
      BY <1>1, <1>2, <1>3, <1>5, <2>2
    <2> QED BY <1>2, <2>1, <2>2
  <1>8. ASSUME NEW k \in DOMAIN t2
        PROVE  t2[k] <= p + 1 /\ \E i \in DOMAIN s2 : s2[i].from = "key" /\ s2[i].data = <<t2[k]>>
    <2>1. CASE k \in DOMAIN t
      <3>1. t[k] <= p /\ t2[k] = t[k] /\ t[k] \in Nat
        BY <1>3, <1>4, <2>1 DEF KeysOK
      <3>2. PICK i \in DOMAIN s : s[i].from = "key" /\ s[i].data = <<t[k]>>
        BY <2>1 DEF KeysOK
      <3>3. t2[k] <= p + 1
        BY <3>1
      <3>4. i \in DOMAIN s2 /\ s2[i].from = "key" /\ s2[i].data = <<t2[k]>>
        BY <1>2, <1>6, <3>1, <3>2
      <3> QED BY <3>3, <3>4
    <2>2. CASE k = m
      BY <1>1, <1>2, <1>3, <1>5, <2>2
    <2> QED BY <1>3, <2>1, <2>2
  <1>9. ASSUME NEW i \in DOMAIN s2, NEW j \in DOMAIN s2, s2[i].from = "key", s2[j].from = "key", i < j
        PROVE  Before(s2[i].data, s2[j].data)
    <2>1. i \in DOMAIN s
      BY <1>2, <1>9
    <2>2. CASE j \in DOMAIN s
      BY <1>2, <1>9, <2>1, <2>2 DEF KeysOK
    <2>3. CASE j = n
      <3>1. PICK k \in DOMAIN t : s[i].data = <<t[k]>>
        BY <1>2, <1>9, <2>1 DEF KeysOK
      <3>2. t[k] \in Nat /\ t[k] <= p /\ s2[i].data = <<t[k]>> /\ s2[j].data = <<p + 1>>
        BY <1>1, <1>2, <1>4, <2>1, <2>3, <3>1 DEF KeysOK
      <3>3. DOMAIN <<t[k]>> = {1} /\ <<t[k]>>[1] = t[k] /\ DOMAIN <<p + 1>> = {1} /\ <<p + 1>>[1] = p + 1
        OBVIOUS
      <3>4. t[k] < p + 1
        BY <3>2
      <3> QED BY <3>2, <3>3, <3>4 DEF Before
    <2> QED BY <1>2, <2>2, <2>3
  <1>10. KeysOK(s2, t2, p + 1)
    BY <1>7, <1>8, <1>9 DEF KeysOK
  <1> QED BY <1>10 DEF s2, t2, x

\* A key pressed at another time.
LEMMA KeyLost ==
    ASSUME NEW s, NEW t \in Seq(Nat), NEW p \in Nat, KeysOK(s, t, p)
    PROVE  KeysOK(s, t, p + 1)
  <1>1. \A k \in DOMAIN t : t[k] \in Nat
    OBVIOUS
  <1>2. \A k \in DOMAIN t : t[k] <= p + 1
    BY <1>1 DEF KeysOK
  <1> QED BY <1>2 DEF KeysOK

\* The queue is no key.
LEMMA QueueNoKey ==
    ASSUME NEW s \in Seq(Packet), NEW t, NEW p, KeysOK(s, t, p), NEW q \in Seq(Nat)
    PROVE  KeysOK(Append(s, Queue(q)), t, p)
  <1> DEFINE x == Queue(q)
             s2 == Append(s, x)
  <1>1. x \in Packet /\ x.from = "queue"
    BY DEF Queue, Packet
  <1> HIDE DEF x
  <1>2. /\ DOMAIN s = 1 .. Len(s) /\ DOMAIN s2 = 1 .. Len(s) + 1 /\ Len(s) \in Nat
        /\ (\A i \in DOMAIN s : s2[i] = s[i]) /\ s2[Len(s) + 1] = x
        /\ \A i \in DOMAIN s2 : i \in DOMAIN s \/ i = Len(s) + 1
    BY <1>1, Grown
  <1> HIDE DEF s2
  <1>3. DOMAIN s \subseteq DOMAIN s2 /\ \A i \in DOMAIN s2 : s2[i].from = "key" => i \in DOMAIN s
    BY <1>1, <1>2
  <1>4. KeysOK(s2, t, p)
    BY <1>2, <1>3 DEF KeysOK
  <1> QED BY <1>4 DEF s2, x

\* A key is no reply.
LEMMA KeyNoReply ==
    ASSUME NEW s \in Seq(Packet), NEW q, NEW n, RepliesOK(s, q, n), NEW k \in Nat
    PROVE  RepliesOK(Append(s, Key(k)), q, n)
  <1> DEFINE x == Key(k)
             s2 == Append(s, x)
  <1>1. x \in Packet /\ x.from = "key"
    BY DEF Key, Packet
  <1> HIDE DEF x
  <1>2. /\ DOMAIN s = 1 .. Len(s) /\ DOMAIN s2 = 1 .. Len(s) + 1 /\ Len(s) \in Nat
        /\ (\A i \in DOMAIN s : s2[i] = s[i]) /\ s2[Len(s) + 1] = x
        /\ \A i \in DOMAIN s2 : i \in DOMAIN s \/ i = Len(s) + 1
    BY <1>1, Grown
  <1> HIDE DEF s2
  <1>3. DOMAIN s \subseteq DOMAIN s2 /\ \A i \in DOMAIN s2 : s2[i].from = "queue" => i \in DOMAIN s
    BY <1>1, <1>2
  <1>4. RepliesOK(s2, q, n)
    BY <1>2, <1>3 DEF RepliesOK
  <1> QED BY <1>4 DEF s2, x

\* Something more is given to send.
LEMMA ReplyGiven ==
    ASSUME NEW s \in Seq(Packet), NEW q \in Seq(Nat), NEW n \in Nat, RepliesOK(s, q, n)
    PROVE  RepliesOK(s, Append(q, n + 1), n + 1)
  <1> DEFINE q2 == Append(q, n + 1)
             m == Len(q) + 1
  <1>1. /\ m - 1 \in Nat /\ DOMAIN q = 1 .. m - 1 /\ DOMAIN q2 = 1 .. m
        /\ (\A i \in DOMAIN q : q2[i] = q[i]) /\ q2[m] = n + 1
        /\ \A i \in DOMAIN q2 : i \in DOMAIN q \/ i = m
    BY Grown
  <1>2. \A k \in DOMAIN q : q[k] \in Nat /\ q[k] <= n
    BY DEF RepliesOK
  <1>3. ASSUME NEW i \in DOMAIN s PROVE \A k \in DOMAIN s[i].data : s[i].data[k] \in Nat
    <2>1. s[i] \in Packet
      OBVIOUS
    <2>2. s[i].data \in Seq(Nat)
      BY <2>1 DEF Packet
    <2> QED BY <2>2
  <1> HIDE DEF q2, m
  <1>4. \A k \in DOMAIN q2 : q2[k] <= n + 1
    BY <1>1, <1>2
  <1>5. Increasing(q2)
    <2> SUFFICES ASSUME NEW i \in DOMAIN q2, NEW j \in DOMAIN q2, i < j PROVE q2[i] < q2[j]
      BY DEF Increasing
    <2>1. i \in DOMAIN q
      BY <1>1
    <2>2. CASE j \in DOMAIN q
      BY <1>1, <2>1, <2>2 DEF RepliesOK, Increasing
    <2>3. CASE j = m
      BY <1>1, <1>2, <2>1, <2>3
    <2> QED BY <1>1, <2>2, <2>3
  <1>6. ASSUME NEW i \in DOMAIN s, s[i].from = "queue"
        PROVE  Before(s[i].data, q2) /\ \A k \in DOMAIN s[i].data : s[i].data[k] <= n + 1
    <2>1. \A k \in DOMAIN s[i].data : s[i].data[k] \in Nat /\ s[i].data[k] <= n
      BY <1>3, <1>6 DEF RepliesOK
    <2>2. \A k \in DOMAIN s[i].data : s[i].data[k] < n + 1 /\ s[i].data[k] <= n + 1
      BY <2>1
    <2>3. Before(s[i].data, q)
      BY <1>6 DEF RepliesOK
    <2>4. ASSUME NEW k \in DOMAIN s[i].data, NEW j \in DOMAIN q2 PROVE s[i].data[k] < q2[j]
      <3>1. CASE j \in DOMAIN q
        BY <1>1, <2>3, <3>1 DEF Before
      <3>2. CASE j = m
        BY <1>1, <2>2, <3>2
      <3> QED BY <1>1, <3>1, <3>2
    <2> QED BY <2>2, <2>4 DEF Before
  <1>7. RepliesOK(s, q2, n + 1)
    BY <1>4, <1>5, <1>6 DEF RepliesOK
  <1> QED BY <1>7 DEF q2

\* The queue is emptied, by reset.
LEMMA RepliesDropped ==
    ASSUME NEW s, NEW q, NEW n, RepliesOK(s, q, n)
    PROVE  RepliesOK(s, <<>>, n)
  <1>1. DOMAIN <<>> = {}
    OBVIOUS
  <1> QED BY <1>1 DEF RepliesOK, Increasing, Before

\* The queue is sent and emptied.
LEMMA RepliesSent ==
    ASSUME NEW s \in Seq(Packet), NEW q \in Seq(Nat), NEW n, RepliesOK(s, q, n)
    PROVE  RepliesOK(Append(s, Queue(q)), <<>>, n)
  <1> DEFINE x == Queue(q)
             s2 == Append(s, x)
             m == Len(s) + 1
  <1>1. x \in Packet /\ x.from = "queue" /\ x.data = q
    BY DEF Queue, Packet
  <1> HIDE DEF x
  <1>2. /\ DOMAIN s = 1 .. m - 1 /\ DOMAIN s2 = 1 .. m /\ m - 1 \in Nat
        /\ (\A i \in DOMAIN s : s2[i] = s[i]) /\ s2[m] = x
        /\ \A i \in DOMAIN s2 : i \in DOMAIN s \/ i = m
    BY <1>1, Grown
  <1> HIDE DEF s2, m
  <1>3. DOMAIN <<>> = {}
    OBVIOUS
  <1>4. Increasing(<<>>) /\ \A i \in DOMAIN s2 : Before(s2[i].data, <<>>)
    BY <1>3 DEF Increasing, Before
  <1>5. ASSUME NEW i \in DOMAIN s2, s2[i].from = "queue"
        PROVE  Increasing(s2[i].data) /\ \A k \in DOMAIN s2[i].data : s2[i].data[k] <= n
    <2>1. CASE i \in DOMAIN s
      BY <1>2, <1>5, <2>1 DEF RepliesOK
    <2>2. CASE i = m
      BY <1>1, <1>2, <2>2 DEF RepliesOK
    <2> QED BY <1>2, <2>1, <2>2
  <1>6. ASSUME NEW i \in DOMAIN s2, NEW j \in DOMAIN s2, s2[i].from = "queue", s2[j].from = "queue", i < j
        PROVE  Before(s2[i].data, s2[j].data)
    <2>1. i \in DOMAIN s
      BY <1>2, <1>6
    <2>2. CASE j \in DOMAIN s
      BY <1>2, <1>6, <2>1, <2>2 DEF RepliesOK
    <2>3. CASE j = m
      BY <1>1, <1>2, <1>6, <2>1, <2>3 DEF RepliesOK
    <2> QED BY <1>2, <2>2, <2>3
  <1>7. RepliesOK(s2, <<>>, n)
    BY <1>3, <1>4, <1>5, <1>6 DEF RepliesOK
  <1> QED BY <1>7 DEF s2, x

\* handler sends once on an open socket, and nothing otherwise.
LEMMA HandlerSends ==
    ASSUME AttachInv, Idle, sent \in Seq(Packet), NEW d \in Packet, Handler(d)
    PROVE  sent' = IF socket = "open" THEN Append(sent, d) ELSE sent
  <1>1. CASE socket # "open"
    BY <1>1 DEF Handler
  <1>2. CASE socket = "open"
    <2> DEFINE v == [i \in 1 .. 1 |-> d]
               a == Append(sent, d)
               b == sent \o v
    <2>1. onData = {1}
      BY <1>2 DEF AttachInv, CallsInv, EventsInv, Base, Idle
    <2>2. Cardinality(onData) = 1
      BY <2>1, FS_Singleton
    <2>3. sent' = b
      BY <1>2, <2>2 DEF Handler
    <2>4. v \in Seq(Packet) /\ Len(v) = 1 /\ v[1] = d
      OBVIOUS
    <2>5. /\ a \in Seq(Packet) /\ Len(sent) \in Nat /\ Len(a) = Len(sent) + 1
          /\ (\A i \in 1 .. Len(sent) : a[i] = sent[i]) /\ a[Len(sent) + 1] = d
      OBVIOUS
    <2> HIDE DEF v
    <2>6. /\ b \in Seq(Packet) /\ Len(b) = Len(sent) + 1
          /\ (\A i \in 1 .. Len(sent) : b[i] = sent[i]) /\ b[Len(sent) + 1] = v[1]
      BY <2>4, AppendOne
    <2> HIDE DEF a, b
    <2>7. ASSUME NEW i \in 1 .. Len(a) PROVE a[i] = b[i]
      <3>1. CASE i \in 1 .. Len(sent)
        BY <2>5, <2>6, <3>1
      <3>2. CASE i = Len(sent) + 1
        BY <2>4, <2>5, <2>6, <3>2
      <3> QED BY <2>5, <3>1, <3>2
    <2>8. a = b
      BY <2>5, <2>6, <2>7, SeqEqual
    <2> QED BY <1>2, <2>3, <2>8 DEF a
  <1> QED BY <1>1, <1>2

\* The variables that the keys and the replies go through.
SendType ==
    /\ replies \in [queue : Seq(Nat), timers : Nat]
    /\ asked \in Seq({"query", "report"})
    /\ typed \in Seq(Nat) /\ pressed \in Nat
    /\ sent \in Seq(Packet)

SendInv ==
    /\ SendType
    /\ KeysOK(sent, typed, pressed)
    /\ RepliesOK(sent, replies.queue, Len(asked))

sendState == <<replies, asked, typed, pressed, sent>>

\* send: the reply joins the queue.
LEMMA SendGiven ==
    ASSUME SendInv, NEW w \in {"query", "report"}, UNCHANGED <<typed, pressed, sent>>,
           replies' = Send(replies, Len(asked) + 1), asked' = Append(asked, w)
    PROVE  SendInv'
  <1> DEFINE n == Len(asked)
             q == replies.queue
  <1>1. n \in Nat /\ q \in Seq(Nat) /\ replies.timers \in Nat
    BY DEF SendInv, SendType
  <1>2. asked' \in Seq({"query", "report"}) /\ Len(asked') = n + 1
    BY DEF SendInv, SendType
  <1> HIDE DEF n
  <1>3. replies'.queue = Append(q, n + 1) /\ replies' \in [queue : Seq(Nat), timers : Nat]
    <2>1. Append(q, n + 1) \in Seq(Nat)
      BY <1>1
    <2> QED BY <1>1, <2>1 DEF Send, n
  <1>4. RepliesOK(sent, Append(q, n + 1), n + 1)
    BY <1>1, ReplyGiven DEF SendInv, SendType, n
  <1> QED BY <1>2, <1>3, <1>4 DEF SendInv, SendType

\* reset: the queue is dropped, its timers are not.
LEMMA SendReset ==
    ASSUME SendInv, Reset, UNCHANGED <<asked, typed, pressed, sent>>
    PROVE  SendInv'
  <1>1. replies'.queue = <<>> /\ replies' \in [queue : Seq(Nat), timers : Nat]
    <2>1. replies.timers \in Nat /\ <<>> \in Seq(Nat)
      BY DEF SendInv, SendType
    <2>2. replies' = [queue |-> <<>>, timers |-> replies.timers]
      BY DEF SendInv, SendType, Reset
    <2> QED BY <2>1, <2>2
  <1>2. RepliesOK(sent, <<>>, Len(asked))
    BY RepliesDropped DEF SendInv
  <1> QED BY <1>1, <1>2 DEF SendInv, SendType

LEMMA SendKey ==
    ASSUME SendInv, AttachInv, KeyDown
    PROVE  SendInv'
  <1> DEFINE d == Key(pressed + 1)
  <1>1. /\ Idle /\ Handler(d) /\ pressed' = pressed + 1 /\ UNCHANGED <<replies, asked>>
        /\ typed' = IF socket = "open" THEN Append(typed, pressed + 1) ELSE typed
    BY DEF KeyDown
  <1>2. pressed \in Nat /\ typed \in Seq(Nat) /\ sent \in Seq(Packet)
    BY DEF SendInv, SendType
  <1>3. d \in Packet
    BY <1>2 DEF Key, Packet
  <1> HIDE DEF d
  <1>4. sent' = IF socket = "open" THEN Append(sent, d) ELSE sent
    BY <1>1, <1>2, <1>3, HandlerSends
  <1>5. SendType'
    BY <1>1, <1>2, <1>3, <1>4 DEF SendInv, SendType
  <1>6. CASE socket = "open"
    <2>1. KeysOK(Append(sent, d), Append(typed, pressed + 1), pressed + 1)
      BY <1>2, KeySent DEF SendInv, d
    <2>2. RepliesOK(Append(sent, d), replies.queue, Len(asked))
      BY <1>2, KeyNoReply DEF SendInv, d
    <2>3. sent' = Append(sent, d) /\ typed' = Append(typed, pressed + 1)
      BY <1>1, <1>4, <1>6
    <2>4. KeysOK(sent', typed', pressed') /\ RepliesOK(sent', replies'.queue, Len(asked'))
      BY <1>1, <2>1, <2>2, <2>3, Zenon
    <2> QED BY <1>5, <2>4 DEF SendInv
  <1>7. CASE socket # "open"
    <2>1. sent' = sent /\ typed' = typed
      BY <1>1, <1>4, <1>7
    <2>2. KeysOK(sent, typed, pressed + 1)
      BY <1>2, KeyLost DEF SendInv
    <2> QED BY <1>1, <1>5, <2>1, <2>2 DEF SendInv
  <1> QED BY <1>6, <1>7

LEMMA SendQueue ==
    ASSUME SendInv, AttachInv, SendTimer
    PROVE  SendInv'
  <1> DEFINE q == replies.queue
             d == Queue(q)
  <1>1. /\ Idle /\ Handler(d) /\ replies.timers > 0 /\ UNCHANGED <<asked, typed, pressed>>
        /\ replies' = [queue |-> <<>>, timers |-> replies.timers - 1]
    BY DEF SendTimer, historyVars
  <1>2. q \in Seq(Nat) /\ replies.timers \in Nat /\ sent \in Seq(Packet)
    BY DEF SendInv, SendType
  <1>3. d \in Packet
    BY <1>2 DEF Queue, Packet
  <1> HIDE DEF d, q
  <1>4. sent' = IF socket = "open" THEN Append(sent, d) ELSE sent
    BY <1>1, <1>2, <1>3, HandlerSends
  <1>5. replies' \in [queue : Seq(Nat), timers : Nat] /\ replies'.queue = <<>>
    BY <1>1, <1>2
  <1>6. SendType'
    BY <1>1, <1>2, <1>3, <1>4, <1>5 DEF SendInv, SendType
  <1>7. KeysOK(sent, typed, pressed) /\ RepliesOK(sent, q, Len(asked))
    BY DEF SendInv, q
  <1>8. CASE socket = "open"
    <2>1. KeysOK(Append(sent, d), typed, pressed)
      BY <1>2, <1>7, QueueNoKey DEF d
    <2>2. RepliesOK(Append(sent, d), <<>>, Len(asked))
      BY <1>2, <1>7, RepliesSent DEF d
    <2>3. sent' = Append(sent, d)
      BY <1>4, <1>8
    <2>4. KeysOK(sent', typed', pressed') /\ RepliesOK(sent', replies'.queue, Len(asked'))
      BY <1>1, <1>5, <2>1, <2>2, <2>3, Zenon
    <2> QED BY <1>6, <2>4 DEF SendInv
  <1>9. CASE socket # "open"
    <2>1. sent' = sent
      BY <1>4, <1>9
    <2>2. RepliesOK(sent, <<>>, Len(asked))
      BY <1>7, RepliesDropped
    <2> QED BY <1>1, <1>5, <1>6, <1>7, <2>1, <2>2 DEF SendInv
  <1> QED BY <1>8, <1>9

LEMMA SendStep == SendInv /\ AttachInv /\ [Next]_vars => SendInv'
  <1> SUFFICES ASSUME SendInv, AttachInv, [Next]_vars PROVE SendInv'
    OBVIOUS
  <1>1. CASE UNCHANGED sendState
    BY <1>1 DEF SendInv, SendType, sendState
  <1>2. CASE Message
    <2>1. UNCHANGED <<typed, pressed, sent>>
      BY <1>2 DEF Message
    <2>2. CASE UNCHANGED <<replies, asked>>
      BY <1>1, <2>1, <2>2 DEF sendState
    <2>3. CASE \E start, end \in Rows(size) : WriteQuery(start, end)
      BY <2>1, <2>3, SendGiven DEF WriteQuery
    <2>4. CASE Reset /\ UNCHANGED asked
      BY <2>1, <2>4, SendReset
    <2> QED BY <1>2, <2>2, <2>3, <2>4 DEF Message, WriteText, WriteReset, WriteAlternate, WriteNormal
  <1>3. CASE Report
    BY <1>3, SendGiven DEF Report, historyVars
  <1>4. CASE \/ SocketOpen \/ SocketClosing \/ SocketClose \/ ScrollDisp
             \/ FireEvent \/ RunRealTerminal \/ Detach \/ RefreshTimer
    <2>1. UNCHANGED sendState
      BY <1>4 DEF SocketOpen, SocketClosing, SocketClose, ScrollDisp, FireEvent,
                  RunRealTerminal, Detach, RefreshTimer, historyVars, sendState
    <2> QED BY <1>1, <2>1
  <1>5. CASE UNCHANGED vars
    BY <1>1, <1>5 DEF vars, historyVars, sendState
  <1> QED BY <1>2, <1>3, <1>4, <1>5, SendKey, SendQueue DEF Next, EventLoop

LEMMA SendInvariant == Spec => []SendInv
  <1>1. Init => SendInv
    <2> SUFFICES ASSUME Init PROVE SendInv
      OBVIOUS
    <2>1. /\ replies = [queue |-> <<>>, timers |-> 0]
          /\ asked = <<>> /\ typed = <<>> /\ pressed = 0 /\ sent = <<>>
      BY DEF Init
    <2>2. DOMAIN <<>> = {}
      OBVIOUS
    <2>3. SendType
      BY <2>1 DEF SendType
    <2> QED BY <2>1, <2>2, <2>3 DEF SendInv, KeysOK, RepliesOK, Increasing
  <1> QED BY <1>1, SendStep, AttachInvariant, PTL DEF Spec

\* Every key pressed on an open connection is sent once and in order, and no
\* other key is, for any number of keys and attaches (handler, _sendData).
THEOREM KeysGetSent == Spec => []KeysSentOnce
  <1>1. SendInv => KeysSentOnce
    <2> SUFFICES ASSUME SendInv PROVE KeysSentOnce
      OBVIOUS
    <2>1. KeysOK(sent, typed, pressed)
      BY DEF SendInv
    <2>2. \A i \in SentBy("key") : \E k \in DOMAIN typed : sent[i].data = <<typed[k]>>
      BY <2>1 DEF KeysOK, SentBy
    <2>3. \A k \in DOMAIN typed : \E i \in SentBy("key") : sent[i].data = <<typed[k]>>
      BY <2>1 DEF KeysOK, SentBy
    <2>4. {sent[i].data : i \in SentBy("key")} = {<<typed[k]>> : k \in DOMAIN typed}
      BY <2>2, <2>3, Zenon
    <2>5. \A i, j \in SentBy("key") : i < j => Before(sent[i].data, sent[j].data)
      BY <2>1 DEF KeysOK, SentBy
    <2> QED BY <2>4, <2>5 DEF KeysSentOnce
  <1> QED BY <1>1, SendInvariant, PTL

\* What is given to send reaches the socket at most once and in order, whatever
\* reset does to the queue between a timer's start and its end (send, reset).
THEOREM RepliesKeepOrder == Spec => []RepliesInOrder
  <1>1. SendInv => RepliesInOrder
    BY DEF SendInv, RepliesOK, RepliesInOrder, SentBy
  <1> QED BY <1>1, SendInvariant, PTL

-----------------------------------------------------------------------------
(* Type correctness *)

\* The size in characters, the painter and the flags of the display.
ScreenType ==
    /\ cursor \in BOOLEAN /\ normal \in BOOLEAN /\ thrown \in BOOLEAN
    /\ size \in [cols : Nat \ {0}, rows : Nat \ {0}]
    /\ painter \in Painter

LEMMA RefreshType ==
    ASSUME NEW p \in Painter, NEW a \in Nat, NEW b \in Int
    PROVE  Refresh(p, a, b) \in Painter
  <1> DEFINE R == [start : Nat, end : Int]
             r == [start |-> a, end |-> b]
  <1>1. r \in R
    OBVIOUS
  <1>2. p.queued \in BOOLEAN /\ p.full \in BOOLEAN /\ p.timers \in Seq(R)
        /\ p = [queued |-> p.queued, full |-> p.full, timers |-> p.timers]
    BY DEF Painter
  <1> HIDE DEF R, r
  <1>3. Append(p.timers, r) \in Seq(R)
    BY <1>1, <1>2
  <1>4. \/ Refresh(p, a, b) = [queued |-> p.queued, full |-> TRUE, timers |-> p.timers]
        \/ Refresh(p, a, b) = [queued |-> TRUE, full |-> p.full, timers |-> Append(p.timers, r)]
    BY <1>2 DEF Refresh, r
  <1>5. Painter = [queued : BOOLEAN, full : BOOLEAN, timers : Seq(R)]
    BY DEF Painter, R
  <1>6. [queued |-> p.queued, full |-> TRUE, timers |-> p.timers] \in Painter
    BY <1>2, <1>5
  <1>7. [queued |-> TRUE, full |-> p.full, timers |-> Append(p.timers, r)] \in Painter
    BY <1>2, <1>3, <1>5
  <1> QED BY <1>4, <1>6, <1>7

\* resize never leaves less than one column and one row.
LEMMA ResizeType ==
    ASSUME NEW p \in Painter, NEW s \in [cols : Nat \ {0}, rows : Nat \ {0}], NEW g \in Size
    PROVE  /\ Resized(s, g) \in [cols : Nat \ {0}, rows : Nat \ {0}]
           /\ AfterResize(p, s, g) \in Painter
  <1>1. Clamped(g) \in [cols : Nat \ {0}, rows : Nat \ {0}]
    BY DEF Clamped, Size
  <1>2. Clamped(g).rows - 1 \in Int
    BY <1>1
  <1>3. Refresh(p, 0, Clamped(g).rows - 1) \in Painter
    BY <1>2, RefreshType
  <1> QED BY <1>1, <1>3 DEF Resized, AfterResize

LEMMA ScreenInit == Init => ScreenType
  <1> SUFFICES ASSUME Init PROVE ScreenType
    OBVIOUS
  <1> DEFINE focused == IF cursor THEN Refresh(Opened, 0, 0) ELSE Opened
             r == [start |-> 0, end |-> OpenSize.rows - 1]
  <1>1. PICK fitted \in Geometries : /\ size = Resized(OpenSize, fitted)
                                     /\ painter = AfterResize(focused, OpenSize, fitted)
    BY DEF Init
  <1>2. OpenSize \in [cols : Nat \ {0}, rows : Nat \ {0}] /\ fitted \in Size
    BY PageAssumption DEF Size
  <1>3. Opened \in Painter
    <2>1. r \in [start : Nat, end : Int]
      BY <1>2
    <2>2. <<r>> \in Seq([start : Nat, end : Int])
      BY <2>1
    <2> QED BY <2>2 DEF Opened, Painter
  <1>4. focused \in Painter
    BY <1>3, RefreshType
  <1> HIDE DEF focused
  <1> QED BY <1>1, <1>2, <1>4, ResizeType DEF Init, ScreenType

LEMMA ScreenMessage == ASSUME ScreenType, Message PROVE ScreenType'
  <1>1. UNCHANGED <<size, thrown>>
    BY DEF Message
  <1>2. CASE UNCHANGED <<cursor, normal, painter>>
    BY <1>1, <1>2 DEF ScreenType
  <1>3. CASE ~UNCHANGED <<cursor, normal, painter>>
    <2>1. PICK start \in Rows(size), end \in Rows(size) :
             \/ WriteText(start, end) \/ WriteQuery(start, end) \/ WriteReset(start, end)
             \/ WriteAlternate(start, end) \/ WriteNormal(start, end)
      BY <1>3 DEF Message
    <2>2. start \in Nat /\ end \in Int /\ size.rows - 1 \in Int
      BY DEF ScreenType, Rows
    <2>3. Refresh(painter, start, end) \in Painter /\ Refresh(painter, 0, size.rows - 1) \in Painter
      BY <2>2, RefreshType DEF ScreenType
    <2>4. Refresh(Refresh(painter, 0, size.rows - 1), start, end) \in Painter
      BY <2>2, <2>3, RefreshType
    <2>5. painter' \in Painter /\ cursor' \in BOOLEAN /\ normal' \in BOOLEAN
      BY <2>1, <2>3, <2>4 DEF ScreenType, WriteText, WriteQuery, WriteReset, WriteAlternate, WriteNormal
    <2> QED BY <1>1, <2>5 DEF ScreenType
  <1> QED BY <1>2, <1>3

LEMMA ScreenStep == ScreenType /\ PaintInv /\ [Next]_vars => ScreenType'
  <1> SUFFICES ASSUME ScreenType, PaintInv, [Next]_vars PROVE ScreenType'
    OBVIOUS
  <1>1. painter \in Painter /\ size.rows - 1 \in Int
    BY DEF ScreenType
  <1>2. CASE UNCHANGED <<cursor, normal, thrown, size, painter>>
    BY <1>2 DEF ScreenType
  <1>3. CASE RunRealTerminal
    BY <1>3, ResizeType DEF RunRealTerminal, ScreenType, PaintInv
  <1>4. CASE KeyDown
    <2>1. UNCHANGED <<size, normal>> /\ thrown' \in BOOLEAN /\ cursor' \in BOOLEAN
      BY <1>4 DEF KeyDown, Handler, ScreenType
    <2>2. \A y \in Rows(size) : y \in Nat /\ y \in Int
      BY DEF Rows
    <2>3. painter' \in Painter
      BY <1>1, <1>4, <2>2, RefreshType DEF KeyDown
    <2> QED BY <2>1, <2>3 DEF ScreenType
  <1>5. CASE ScrollDisp
    BY <1>1, <1>5, RefreshType DEF ScrollDisp, ScreenType
  <1>6. CASE RefreshTimer
    <2>1. Tail(painter.timers) \in Seq([start : Nat, end : Int])
      BY <1>1, <1>6 DEF RefreshTimer, Painter
    <2>2. painter' \in Painter
      BY <1>6, <2>1 DEF RefreshTimer, Fired, Painter
    <2> QED BY <1>6, <2>2 DEF RefreshTimer, ScreenType
  <1>7. CASE SendTimer
    BY <1>7 DEF SendTimer, Handler, ScreenType, screenVars
  <1>8. CASE \/ SocketOpen \/ SocketClosing \/ SocketClose \/ Report \/ FireEvent \/ Detach
    <2>1. UNCHANGED <<cursor, normal, thrown, size, painter>>
      BY <1>8 DEF SocketOpen, SocketClosing, SocketClose, Report, FireEvent, Detach, screenVars
    <2> QED BY <1>2, <2>1
  <1>9. CASE UNCHANGED vars
    BY <1>2, <1>9 DEF vars, screenVars
  <1> QED BY <1>3, <1>4, <1>5, <1>6, <1>7, <1>8, <1>9, ScreenMessage DEF Next, EventLoop

\* Type correctness of the page: in particular the terminal has a row and a
\* column, whatever is measured, and a listener registered is that of an attach.
THEOREM PageTyped == Spec => []TypeOK
  <1>1. AttachInv /\ PaintInv /\ MessageInv /\ SendInv /\ ScreenType => TypeOK
    <2> SUFFICES ASSUME AttachInv, PaintInv, MessageInv, SendInv, ScreenType PROVE TypeOK
      OBVIOUS
    <2>1. /\ attaches \in Nat /\ detachers \in Nat /\ hasSocket \in BOOLEAN
          /\ onData \subseteq 1 .. attaches /\ onMessage \subseteq 1 .. attaches
      BY DEF AttachInv, CallsInv, Base
    <2>2. calls \in Seq({"runRealTerminal", "detach"})
      <3>1. CASE calls = <<>>
        BY <3>1
      <3>2. CASE calls \in Seq({"detach"})
        BY <3>2
      <3>3. CASE calls = <<"runRealTerminal">> \o [i \in 1 .. attaches |-> "detach"]
        <4> DEFINE d == [i \in 1 .. attaches |-> "detach"]
        <4>1. d \in Seq(Call) /\ <<"runRealTerminal">> \in Seq(Call)
          BY <2>1 DEF Call
        <4> HIDE DEF d
        <4>2. <<"runRealTerminal">> \o d \in Seq(Call)
          BY <4>1, ConcatProperties
        <4> QED BY <3>3, <4>2 DEF Call, d
      <3> QED BY <3>1, <3>2, <3>3 DEF AttachInv, CallsInv
    <2>3. /\ socket \in {"connecting", "open", "closing", "closed"}
          /\ events \in Seq({"open", "error", "close"})
      <3>1. events \in {<<>>, <<"open">>, <<"close">>, <<"error", "close">>}
        BY DEF AttachInv, EventsInv, Idle
      <3> DEFINE E == {"open", "error", "close"}
      <3>2. <<>> \in Seq(E) /\ <<"open">> \in Seq(E) /\ <<"close">> \in Seq(E)
            /\ <<"error", "close">> \in Seq(E)
        <4>1. "open" \in E /\ "error" \in E /\ "close" \in E
          OBVIOUS
        <4> HIDE DEF E
        <4> QED BY <4>1
      <3>3. socket \in {"connecting", "open", "closing", "closed"}
        BY DEF AttachInv, EventsInv, Idle, Base
      <3> HIDE DEF E
      <3>4. events \in Seq(E)
        BY <3>1, <3>2
      <3> QED BY <3>3, <3>4 DEF E
    <2>4. received \in Nat /\ written \in Seq(Nat)
      BY DEF MessageInv
    <2>5. stale \subseteq Rows(size) /\ proposed \in Size
      BY DEF PaintInv, Covers
    <2> QED BY <2>1, <2>2, <2>3, <2>4, <2>5 DEF TypeOK, SendInv, SendType, ScreenType
  <1>2. Init => ScreenType /\ MessageInv
    BY ScreenInit, MessageInit
  <1> QED BY <1>1, <1>2, ScreenStep, MessageStep, AttachInvariant, PaintInvariant,
             SendInvariant, PTL DEF Spec
=============================================================================
