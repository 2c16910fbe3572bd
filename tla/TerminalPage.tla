---------------------------- MODULE TerminalPage ----------------------------
(***************************************************************************)
(* The browser's side of a session: the page (index.html), the attach      *)
(* add-on and the parts of xterm.js between them and the DOM: the event    *)
(* emitter, the reply queue of send, the debounced refresh, and resize.    *)
(*                                                                         *)
(*   socket --message--> _getMessage --> write --> refresh --34ms--> DOM   *)
(*   keys --> handler --'data'--> _sendData --> socket                     *)
(*   queries, mouse, focus --> send --1ms--> handler --> ...               *)
(*                                                                         *)
(* The page binds onopen, onclose and onerror to runRealTerminal, so every *)
(* event of the socket attaches again, while every attach adds a listener  *)
(* that detaches on close and on error.  JavaScript runs to completion: a  *)
(* task starts only when the listeners of the last one have all run.       *)
(***************************************************************************)
EXTENDS Integers, Sequences, FiniteSets, SequencesExt, RefreshQueue

CONSTANTS
    OpenSize,       \* cols and rows given to new Terminal
    Geometries,     \* what proposeGeometry may measure, before resize's clamp
    MaxMessages,    \* bound: messages from the server
    MaxKeys,        \* bound: keys pressed
    MaxAsked        \* bound: replies and reports given to send

Size == [cols : Int, rows : Int]

ASSUME PageAssumption ==
    /\ OpenSize \in Size /\ OpenSize.cols > 0 /\ OpenSize.rows > 0
    /\ Geometries \subseteq Size
    /\ MaxMessages \in Nat /\ MaxKeys \in Nat /\ MaxAsked \in Nat

VARIABLES
    socket,     \* readyState
    events,     \* what the current task of the socket has still to fire
    calls,      \* the listeners of the event being fired that have yet to run
    attaches,   \* how often attach ran: which _sendData and _getMessage are current
    onData,     \* the _sendData closures registered with the terminal
    onMessage,  \* the _getMessage closures registered with the socket
    detachers,  \* the bound detach listeners on close, and as many on error
    hasSocket,  \* term.socket is set
    size,       \* term.cols and term.rows; the DOM has as many rows
    proposed,   \* the page's cols and rows
    cursor,     \* cursorState
    normal,     \* the saved screen exists: the alternate one is displayed
    stale,      \* the rows that a call of refresh named, not painted since
    painter,    \* _refreshIsQueued, _fullRefreshNext and the timers of refresh
    replies,    \* queue and the timers of send
    thrown,     \* an exception escaped to the event loop
    received,   \* history: how many messages the socket delivered
    written,    \* history: the messages given to write
    asked,      \* history: why data was given to send, each time
    typed,      \* history: the keys pressed while the socket was open
    pressed,    \* history: how many keys were pressed
    sent        \* history: what was sent on the open socket

socketVars  == <<socket, events, calls>>
attachVars  == <<attaches, onData, onMessage, detachers, hasSocket>>
screenVars  == <<size, cursor, normal, stale, painter>>
historyVars == <<received, written, typed, pressed>>
vars == <<socketVars, attachVars, screenVars, historyVars, proposed, replies,
          asked, thrown, sent>>

-----------------------------------------------------------------------------
(* resize, which ends in a refresh *)

\* Mutant: no clamp.
ClampedNot(g) == g

Rows(s) == 0 .. s.rows - 1
Clamped(g) == [cols |-> IF g.cols < 1 THEN 1 ELSE g.cols,
               rows |-> IF g.rows < 1 THEN 1 ELSE g.rows]

\* resize(x, y): nothing if the size is the same, before the clamp.
Resized(s, g) == IF g = s THEN s ELSE Clamped(g)

\* Mutant: resize leaves the painting to whatever is ordered already.
AfterResizeLazily(p, s, g) ==
    IF g = s \/ p.queued THEN p ELSE Refresh(p, 0, Clamped(g).rows - 1)

\* Every row changes with the size, and resize orders all of them.
AfterResize(p, s, g) == IF g = s THEN p ELSE Refresh(p, 0, Clamped(g).rows - 1)

-----------------------------------------------------------------------------
(* send, handler and the emitter *)

\* Mutant: send looks at the queue after it has added to it.
SendLate(r, d) == [r EXCEPT !.queue = Append(@, d)]

\* send(data)
Send(r, d) == [queue  |-> Append(r.queue, d),
               timers |-> IF r.queue = <<>> THEN r.timers + 1 ELSE r.timers]

\* handler(data): emit calls every _sendData, and each calls socket.send,
\* which throws while connecting and drops the data once closed.
Handler(d) ==
    /\ thrown' = (thrown \/ (socket = "connecting" /\ onData # {}))
    /\ sent' = IF socket = "open"
               THEN sent \o [i \in 1 .. Cardinality(onData) |-> d] ELSE sent

Packet   == [from : {"key", "queue"}, data : Seq(Nat)]
Key(k)   == [from |-> "key", data |-> <<k>>]
Queue(q) == [from |-> "queue", data |-> q]

-----------------------------------------------------------------------------
(* createTerminal, up to the end of the script: open orders a painting,    *)
(* focuses the terminal (if the window has the focus), fit resizes it.     *)

Opened == [queued |-> TRUE, full |-> FALSE,
           timers |-> << [start |-> 0, end |-> OpenSize.rows - 1] >>]

Init ==
    /\ socket = "connecting" /\ events = <<>> /\ calls = <<>>
    /\ attaches = 0 /\ onData = {} /\ onMessage = {} /\ detachers = 0
    /\ hasSocket = FALSE
    /\ cursor \in BOOLEAN
    /\ \E fitted \in Geometries :
          LET focused == IF cursor THEN Refresh(Opened, 0, 0) ELSE Opened IN
          /\ size = Resized(OpenSize, fitted)
          /\ painter = AfterResize(focused, OpenSize, fitted)
    /\ normal = FALSE
    /\ stale = Rows(size)
    /\ proposed \in Geometries
    /\ replies = [queue |-> <<>>, timers |-> 0]
    /\ thrown = FALSE
    /\ received = 0 /\ written = <<>> /\ asked = <<>>
    /\ typed = <<>> /\ pressed = 0 /\ sent = <<>>

Idle == events = <<>> /\ calls = <<>>

-----------------------------------------------------------------------------
(* The socket's tasks and the listeners they call. *)

SocketOpen ==
    /\ Idle /\ socket = "connecting"
    /\ socket' = "open" /\ events' = <<"open">>
    /\ UNCHANGED <<calls, attachVars, screenVars, historyVars, proposed, replies,
                   asked, thrown, sent>>

\* The closing handshake has begun: nothing is delivered or sent any more.
SocketClosing ==
    /\ Idle /\ socket = "open"
    /\ socket' = "closing"
    /\ UNCHANGED <<events, calls, attachVars, screenVars, historyVars, proposed,
                   replies, asked, thrown, sent>>

\* A connection that fails fires error and then close, in one task.
SocketClose ==
    /\ Idle /\ socket # "closed"
    /\ socket' = "closed"
    /\ \/ events' = <<"error", "close">>
       \/ socket # "connecting" /\ events' = <<"close">>
    /\ UNCHANGED <<calls, attachVars, screenVars, historyVars, proposed, replies,
                   asked, thrown, sent>>

\* Mutant: the add-on's listeners run before the page's.
ListenersAddOnFirst(event) ==
    [i \in 1 .. (IF event = "open" THEN 0 ELSE detachers) |-> "detach"]
    \o <<"runRealTerminal">>

\* The listeners are fixed when an event is fired: the page's own first, as
\* it was set first, then one per attach.  Only the page listens to open.
Listeners(event) ==
    <<"runRealTerminal">> \o
    [i \in 1 .. (IF event = "open" THEN 0 ELSE detachers) |-> "detach"]

FireEvent ==
    /\ calls = <<>> /\ events # <<>>
    /\ calls' = Listeners(Head(events))
    /\ events' = Tail(events)
    /\ UNCHANGED <<socket, attachVars, screenVars, historyVars, proposed, replies,
                   asked, thrown, sent>>

\* Mutant: not bidirectional.
AttachReceiving ==
    /\ attaches' = attaches + 1
    /\ onMessage' = onMessage \cup {attaches + 1}
    /\ detachers' = detachers + 1
    /\ hasSocket' = TRUE
    /\ UNCHANGED onData

\* Mutant: the listener for messages is registered for both modes.
AttachTwice ==
    /\ attaches' = attaches + 2
    /\ onMessage' = onMessage \cup {attaches + 1, attaches + 2}
    /\ onData' = onData \cup {attaches + 2}
    /\ detachers' = detachers + 1
    /\ hasSocket' = TRUE

\* attach(term, socket): bidirectional, not buffered, as the page calls it.
Attach ==
    /\ attaches' = attaches + 1
    /\ onMessage' = onMessage \cup {attaches + 1}
    /\ onData' = onData \cup {attaches + 1}
    /\ detachers' = detachers + 1
    /\ hasSocket' = TRUE

\* runRealTerminal: attach, then setTerminalSize(cols, rows).
RunRealTerminal ==
    /\ calls # <<>> /\ Head(calls) = "runRealTerminal"
    /\ calls' = Tail(calls)
    /\ Attach
    /\ size' = Resized(size, proposed)
    /\ painter' = AfterResize(painter, size, proposed)
    /\ stale' = IF proposed = size THEN stale ELSE Rows(size')
    /\ normal' = (normal /\ proposed = size)
    /\ UNCHANGED <<socket, events, historyVars, proposed, cursor, replies, asked,
                   thrown, sent>>

\* detach(term, socket): removes the closures of the latest attach.
Detach ==
    /\ calls # <<>> /\ Head(calls) = "detach"
    /\ calls' = Tail(calls)
    /\ onData' = onData \ {attaches}
    /\ onMessage' = onMessage \ {attaches}
    /\ hasSocket' = FALSE
    /\ UNCHANGED <<socket, events, attaches, detachers, screenVars, historyVars,
                   proposed, replies, asked, thrown, sent>>

-----------------------------------------------------------------------------
(* Messages: every _getMessage writes.  What write does to the screen is a *)
(* range of rows, on the screen; it may answer a query, reset the terminal *)
(* or switch between the two screens, all before its own refresh.          *)

WriteText(start, end) ==
    /\ painter' = Refresh(painter, start, end)
    /\ stale' = stale \cup (start .. end)
    /\ UNCHANGED <<cursor, normal, replies, asked>>

WriteQuery(start, end) ==
    /\ replies' = Send(replies, Len(asked) + 1)
    /\ asked' = Append(asked, "query")
    /\ painter' = Refresh(painter, start, end)
    /\ stale' = stale \cup (start .. end)
    /\ UNCHANGED <<cursor, normal>>

\* reset(): the constructor again, over the same emitter, DOM and timers.
Reset == replies' = [replies EXCEPT !.queue = <<>>]

\* ESC c
WriteReset(start, end) ==
    /\ Reset
    /\ cursor' = FALSE /\ normal' = FALSE
    /\ painter' = Refresh(Refresh(painter, 0, size.rows - 1), start, end)
    /\ stale' = Rows(size)
    /\ UNCHANGED asked

\* setMode 47, 1047 and 1049: save the screen, reset, showCursor.
WriteAlternate(start, end) ==
    /\ ~normal /\ Reset
    /\ cursor' = TRUE /\ normal' = TRUE
    /\ painter' = Refresh(Refresh(painter, 0, size.rows - 1), start, end)
    /\ stale' = Rows(size)
    /\ UNCHANGED asked

\* resetMode 47, 1047 and 1049: the saved screen again, showCursor.
WriteNormal(start, end) ==
    /\ normal
    /\ cursor' = TRUE /\ normal' = FALSE
    /\ painter' = Refresh(Refresh(painter, 0, size.rows - 1), start, end)
    /\ stale' = Rows(size)
    /\ UNCHANGED <<replies, asked>>

Message ==
    /\ Idle /\ socket = "open" /\ received < MaxMessages
    /\ received' = received + 1
    /\ written' = written \o [i \in 1 .. Cardinality(onMessage) |-> received + 1]
    /\ IF onMessage = {} THEN UNCHANGED <<cursor, normal, stale, painter, replies, asked>>
       ELSE \E start, end \in Rows(size) :
               /\ start <= end
               /\ \/ WriteText(start, end)
                  \/ Len(asked) < MaxAsked /\ WriteQuery(start, end)
                  \/ WriteReset(start, end)
                  \/ WriteAlternate(start, end)
                  \/ WriteNormal(start, end)
    /\ UNCHANGED <<socketVars, attachVars, size, proposed, typed, pressed, thrown,
                   sent>>

-----------------------------------------------------------------------------
(* The user. *)

\* keyDown, keyPress, paste: showCursor, then handler.
KeyDown ==
    /\ Idle /\ pressed < MaxKeys
    /\ pressed' = pressed + 1
    /\ typed' = IF socket = "open" THEN Append(typed, pressed + 1) ELSE typed
    /\ Handler(Key(pressed + 1))
    /\ \/ cursor /\ UNCHANGED <<cursor, stale, painter>>
       \/ /\ ~cursor /\ cursor' = TRUE
          /\ \E y \in Rows(size) : /\ painter' = Refresh(painter, y, y)
                                   /\ stale' = stale \cup {y}
    /\ UNCHANGED <<socketVars, attachVars, size, normal, proposed, replies, asked,
                   received, written>>

\* A mouse event, or focus gained or lost, with reporting on.
Report ==
    /\ Idle /\ Len(asked) < MaxAsked
    /\ asked' = Append(asked, "report")
    /\ replies' = Send(replies, Len(asked) + 1)
    /\ UNCHANGED <<socketVars, attachVars, screenVars, historyVars, proposed,
                   thrown, sent>>

\* scrollDisp: another part of the buffer is displayed.
ScrollDisp ==
    /\ Idle
    /\ painter' = Refresh(painter, 0, size.rows - 1)
    /\ stale' = Rows(size)
    /\ UNCHANGED <<socketVars, attachVars, historyVars, size, proposed, cursor, normal,
                   replies, asked, thrown, sent>>

-----------------------------------------------------------------------------
(* The timers. *)

\* Mutant: the lock is not released.
RefreshTimerLocked ==
    /\ Idle /\ painter.timers # <<>>
    /\ painter' = [painter EXCEPT !.full = FALSE, !.timers = Tail(@)]
    /\ stale' = stale \ Paint(painter, size.rows)
    /\ thrown' = (thrown \/ ~(Paint(painter, size.rows) \subseteq Rows(size)))
    /\ UNCHANGED <<socketVars, attachVars, historyVars, size, proposed, cursor, normal,
                   replies, asked, sent>>

\* refresh(start, end, false).  A row that is not in the DOM throws.
RefreshTimer ==
    /\ Idle /\ painter.timers # <<>>
    /\ painter' = Fired(painter)
    /\ stale' = stale \ Paint(painter, size.rows)
    /\ thrown' = (thrown \/ ~(Paint(painter, size.rows) \subseteq Rows(size)))
    /\ UNCHANGED <<socketVars, attachVars, historyVars, size, proposed, cursor, normal,
                   replies, asked, sent>>

\* Mutant: the queue is not emptied.
SendTimerKeeps ==
    /\ Idle /\ replies.timers > 0
    /\ Handler(Queue(replies.queue))
    /\ replies' = [replies EXCEPT !.timers = @ - 1]
    /\ UNCHANGED <<socketVars, attachVars, screenVars, historyVars, proposed, asked>>

\* The callback of send: handler first, then the queue is emptied.
SendTimer ==
    /\ Idle /\ replies.timers > 0
    /\ Handler(Queue(replies.queue))
    /\ replies' = [queue |-> <<>>, timers |-> replies.timers - 1]
    /\ UNCHANGED <<socketVars, attachVars, screenVars, historyVars, proposed, asked>>

EventLoop == FireEvent \/ RunRealTerminal \/ Detach \/ RefreshTimer \/ SendTimer

Next == \/ SocketOpen \/ SocketClosing \/ SocketClose \/ Message \/ KeyDown \/ Report \/ ScrollDisp
        \/ EventLoop

Spec == Init /\ [][Next]_vars

-----------------------------------------------------------------------------
(* Properties *)

\* The types of the variables; a painting is ordered for existing rows.
TypeOK ==
    /\ socket \in {"connecting", "open", "closing", "closed"}
    /\ events \in Seq({"open", "error", "close"})
    /\ calls \in Seq({"runRealTerminal", "detach"})
    /\ attaches \in Nat /\ detachers \in Nat
    /\ onData \subseteq 1 .. attaches /\ onMessage \subseteq 1 .. attaches
    /\ hasSocket \in BOOLEAN /\ cursor \in BOOLEAN /\ normal \in BOOLEAN
    /\ size \in [cols : Nat \ {0}, rows : Nat \ {0}] /\ proposed \in Size
    /\ stale \subseteq Rows(size)
    /\ painter \in Painter
    /\ replies \in [queue : Seq(Nat), timers : Nat]
    /\ thrown \in BOOLEAN
    /\ received \in Nat /\ written \in Seq(Nat)
    /\ asked \in Seq({"query", "report"})
    /\ typed \in Seq(Nat) /\ pressed \in Nat
    /\ sent \in Seq(Packet)

\* However often the page has attached again, between tasks one closure is
\* registered with the terminal and one with the socket, the same one, from
\* the open event (or the failure) on; term.socket is there exactly while the
\* connection is (attach.js attach and detach, index.html's three handlers).
OneAttachment ==
    Idle => /\ onData = onMessage
            /\ onData = IF socket = "connecting" THEN {} ELSE {1}
            /\ hasSocket = (socket \in {"open", "closing"})

\* No listener or timer throws: socket.send is never called before the socket
\* is open, and a painting ordered for a range of rows never outlives those
\* rows (_sendData; refresh after a resize between order and timer).
NeverThrows == ~thrown

\* Every row that is not displayed as it is in the buffer is covered by an
\* ordered painting, by its range or by _fullRefreshNext (refresh's debounce).
StaleRowsOrdered ==
    stale # {} => /\ Len(painter.timers) = 1 /\ painter.queued
                  /\ \/ painter.full
                     \/ stale \subseteq painter.timers[1].start .. painter.timers[1].end

SentBy(f) == {i \in DOMAIN sent : sent[i].from = f}
Increasing(q) == \A i, j \in DOMAIN q : i < j => q[i] < q[j]
Before(p, q) == \A i \in DOMAIN p : \A j \in DOMAIN q : p[i] < q[j]

\* Every key pressed on an open connection is sent, once and in order; no other
\* is (handler, the emitter, _sendData).
KeysSentOnce ==
    /\ {sent[i].data : i \in SentBy("key")} = {<<typed[k]>> : k \in DOMAIN typed}
    /\ \A i, j \in SentBy("key") : i < j => Before(sent[i].data, sent[j].data)

\* Every message is written once and in order (_getMessage).
MessagesWrittenOnce == written = [i \in 1 .. received |-> i]

\* What is given to send reaches the socket at most once and in order, what
\* is queued comes after it (send's queue and its timers).
RepliesInOrder ==
    /\ Increasing(replies.queue)
    /\ \A i \in SentBy("queue") :
          /\ Increasing(sent[i].data)
          /\ Before(sent[i].data, replies.queue)
          /\ \A j \in SentBy("queue") : i < j => Before(sent[i].data, sent[j].data)

-----------------------------------------------------------------------------
(* Liveness: the browser's event loop runs its tasks and its timers.       *)

FairSpec == /\ Spec
            /\ WF_vars(FireEvent) /\ WF_vars(RunRealTerminal) /\ WF_vars(Detach)
            /\ WF_vars(RefreshTimer) /\ WF_vars(SendTimer)

\* However often it is scrolled or written to, the display catches up, although
\* calls of refresh between order and timer start no timer of their own.
DisplayCatchesUp == stale # {} ~> stale = {}

\* Nothing stays in send's queue, whatever reset does to it.
QueueDrains == replies.queue # <<>> ~> replies.queue = <<>>

-----------------------------------------------------------------------------
(* What the sources say and the code does not do. *)

\* xterm.js, deviceStatus: "Result is CSI r ; c R".  A query is answered when
\* no timer of send is pending.
QueriesAnswered ==
    Idle /\ socket = "open" /\ replies.timers = 0 =>
        \A i \in DOMAIN asked : asked[i] = "query" =>
            \E j \in DOMAIN sent : sent[j].from = "queue" /\ i \in Range(sent[j].data)

=============================================================================
