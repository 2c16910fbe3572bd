# Formal model of the shiny web terminal

The repository is a small Go server that gives a browser a bash session: an HTTP
server with a health endpoint, static files (a terminal page built on xterm.js)
and a WebSocket at `/shell/` that is connected to bash on a pseudo-terminal.
This directory holds TLA+ modules that model it, the TLC configurations that
check them on small instances, and TLAPS proofs of the main results for every
value of the constants.

## 1. Inventory

| component | state it keeps | operations | talks to |
|---|---|---|---|
| **terminal session** (`main.go`, `sh`; `kr/pty`) | the handler's place, bash, the tty `*os.File`, three goroutines | upgrade, `pty.Start`, three `io.Copy`, `cmd.Wait`, deferred `tty.Close` and `rwc.Close` | everything below, by shared file, shared socket and nothing else: no channel, no WaitGroup |
| **input wrapper** (`inputwrapper.go`) | none | `Read`: one message in, dropped or truncated to the buffer | `Message.Receive`, `io.Copy` |
| **output wrapper** (`websocketwriter.go`) | mode | `Write`: one chunk, one frame, through the UTF-8 encoder in text mode | `Message.Send` |
| **WebSocket connection** (`x/net/websocket`) | `bufio.Writer` with its sticky error, mutexes `rio` and `wio`, the socket | frame writer (header, payload, flush), `HandleFrame` (masking, control frames), `Send`, `Receive` | the browser |
| **pseudo-terminal** (`kr/pty`) | two descriptors | `open`, `Start`, and their failures | the kernel, bash |
| **handshake** (`x/net/websocket/server.go`, `hybi.go`) | none | `ReadHandshake`, `checkOrigin`, `AcceptHandshake` | HTTP |
| **settings cache** (`goboot/config`) | a map shared by all requests, a mutex that value receivers copy | `getEnv`, `getService` | health endpoint |
| **browser page** (`index.html`, `attach.js`) | listeners on the terminal and on the socket | `attach`, `detach`, the buffered mode's timer | the socket, xterm's emitter |
| **geometry** (`fit.js`) | none | `proposeGeometry`, `fit` | the DOM, `resize` |
| **terminal emulator** (`xterm.js`, third party) | buffer with scrollback, cursor, scroll region, two screens, parser, the rows of the DOM | `write`, `resize`, the keyboard | the page |
| **scripts** (`build.sh`, `deploy.sh`, `r-build/`) | files | build, test, vendor, push, install R | the shell |
| **HTTP server** (`goboot/web`) | none after start | `ListenAndServe` | the routes |

What is hard on the server is almost all in the first four: two goroutines copy the
*same* tty to the *same* socket, a third answers pings from inside a read, all
three share one mutex that is held across a blocking flush, and the handler
tears the session down without waiting for any of them. On the page
it is the order in which listeners run and what two debounced timers find when
they fire; in the settings it is a lock that locks nothing. In the emulator it is
a buffer that is spliced at computed indices by a dozen functions, and a display
that follows it later, and the cells of a line, which JavaScript lets be assigned
behind its end and shared between lines; across sessions it is the one descriptor table they share.
PROJECT.json lists the hazards one by one, each at its line.

## 2. Modules

| module | models |
|---|---|
| `InputWrapper` | `inputwrapper.go` as operators: `Ignored`, `Copied`, `Read` |
| `WebSockWrapper` | `websocketwriter.go` as operators: `IllFormed` (the encoder), `Write` |
| `ShellSession` | one session from upgrade to teardown: handler, three goroutines, mutex, socket, bash, tty, browser; the properties |
| `OutputPipe` | the abstract specification of the output side |
| `MCShellSession` | the constants for TLC |
| `SequenceProofs` | induction over the naturals by sets, and `FlattenSeq` of a sequence that grows |
| `ShellSessionProofs` | type correctness, teardown, whole frames, the input |
| `ShellOutputProofs` | every byte of output in exactly one chunk; order; runes; the output side implements `OutputPipe` |
| `ShellServer` | all the sessions of the process over one descriptor table: handshake, `kr/pty`, deferred closes, finalizer, the goroutines' use of the terminal |
| `ShellServerProofs` | descriptors stay with their session; nothing is left behind |
| `Terminal` | the rows of the emulator: buffer, scrollback, cursor, scroll region, screens, DOM |
| `TerminalProofs` | the shape of the buffer, what may throw, which rows get painted, the scrollback |
| `TerminalLine` | one line of the emulator: its cells, the column of the cursor, the width |
| `TerminalLineProofs` | a line keeps its cells |
| `RefreshQueue` | the debounce of `refresh` as operators, used by `Terminal` and `TerminalPage` |
| `TerminalPage` | the page: `index.html`, `attach.js`, and xterm's emitter, `send`, `refresh`, `resize`, `reset` |
| `SettingsCache` | `goboot/config/settings.go` under concurrent health requests |
| `MCTerminalPage`, `MCSettingsCache`, `MCTerminal`, `MCTerminalLine`, `MCShellServer` | constants for TLC |
| `TerminalPageProofs`, `SettingsCacheProofs` | their theorems |

### ShellSession

The output of bash is a stream of positions `1..MaxOut`; a chunk is an interval.
`produced` and `consumed` delimit what is in the pseudo-terminal, so a read takes
the interval behind `consumed`. `pc[g]` is the place of each goroutine:

| `pc` | the code is |
|---|---|
| `off` / `done` | before the `go` statement / after `io.Copy` has returned |
| `read` | at the top of `io.Copy`'s loop (copiers), in `Receive` (stdin) |
| `syscall` | in read(2) or write(2) on the tty: closing the file no longer stops it |
| `lock` | at `wio.Lock()` with a frame in `msg[g]` |
| `header`, `payload` | inside `hybiFrameWriter.Write`, holding `wio` |
| `write` | at the top of `tty.Write`'s loop, with `ibuf` left to write |

Codec.Send, WritePong and WriteClose have the same shape and are the same four
actions (`Lock`, `WriteHeader`, `WritePayload`, `WriteFails`). A frame reaches the
socket in two pieces because the writer's flush can block or fail between any two
bytes. The socket towards the browser holds `NetCap` pieces; a full socket blocks
the writer with `wio` held. `werr` is the sticky error of the `bufio.Writer`.

A write to a browser that has gone may be swallowed or fail; a read may still
return what was sent or fail. `BrowserLeaveMidFrame` cuts a frame short; `Receive`
accepts the part, because `ReadAll` on a `LimitReader` sees only an end of file.
Input is a sequence of bytes per frame; every opcode that is not a control opcode
is a message of its own, as in `HandleFrame`.

`rio` is not modelled: only the input goroutine ever takes it. bash, the kernel's
terminal and TCP are external and modelled by what the program can see of them. The
slave side of the terminal is held by bash and by the jobs it has started in the
background (`jobs`), which may outlive it: when the session leader of a
pseudo-terminal exits, the kernel sends SIGHUP to the foreground group and no more.
A read on the tty gives EIO, and a write an error, once nobody has the slave side
open and, for the read, all is drained. In Go 1.7 `tty.Close` does not wake a
goroutine that is inside either call, so a job that stays keeps a copier, its
buffer and the terminal for as long as it runs. `ExitReleases` is therefore about
sessions whose jobs end; that the rest are leaked is a fact about the code that no
line of the repository contradicts, and PROJECT.json has it as a note to the hazard.
`typed`, `written` and `flushed` are history
variables. Lines marked *Mutant* are deliberately wrong variants, used to show
that each property can fail; no specification refers to them.

### TerminalPage

One terminal and its one socket, from the end of `createTerminal` on. JavaScript
runs to completion, so a task is either one action (a key, a message, a timer) or,
for the socket's own events, a sequence: `events` holds what the task has still to
fire (a failure fires `error` and `close` in one task) and `calls` the listeners
of the event being fired, fixed when it is fired. The page's `onclose` is set
before any `attach`, so it runs before the add-on's `detach` listeners.
`attaches` numbers the closures `_sendData` and `_getMessage`: `attach` registers
a new pair, `detach` removes the latest. A closed socket drops what is sent, a
connecting one throws; so does painting a row the DOM does not have (`thrown`).

`stale` is the set of rows that a call of `refresh` named and that have not been
painted since. A write names some range of rows; which rows is left open, but they
are on the screen. That this is so, unless a program has set a scroll region below
the last row, is `BufferBounded` of `Terminal`.
`painter` is the debounce of `refresh` (lock, full flag, timers with the range
they captured) and `replies` the queue of `send`. `KeyDown` stands for `keyDown`,
`keyPress` and paste, `Report` for mouse and focus reports. `fit` and the page's
own measurement are two geometries the DOM may yield, unclamped.

### Terminal

A screen is the record of `lines`, `ybase`, `ydisp`, `y`, `scrollTop` and
`scrollBottom`; `normal` is the one saved while the alternate screen is shown. A
line is a text and a flag: `gap` says that a cell of it may be missing. Columns are
left to `TerminalLine`, and a character may wrap before it is printed. One call of `write` is `BeginWrite`, one action per
character or control sequence, and `EndWrite`; the user, the page and the timer
act only between writes. A sequence with a count repeats its effect, so it is that
many steps. `splice` and `slice` keep JavaScript's rule for indices past the end,
which is what the code meets once a scroll region is off the screen.

`dom` is what the rows of the document show, as painted; `Shown(y)` is what a
painting would put there now. `unmarked` is set by the operations that change a
row without telling `updateRange` (`insertChars`, `deleteChars`, `eraseChars`,
`repeatPrecedingCharacter`), by `reverseIndex` above the region and by
`showCursor` while the user has scrolled back, and cleared by a full painting:
`Displayed` is stated for the rest. `bad` remembers that a scroll region below the
last row was set. A painting of half of the rows takes them out of the document
first (`mounted`), and an exception leaves them out.

Two more things come from the cells. `repeatPrecedingCharacter` writes wherever the
cursor is, which `cursorCharAbsolute` and `restoreCursor` do not keep within the
line: it may leave a gap, recorded in `gapped`, and a line with a gap may make a
painting throw, or a character in insert mode. Which of them do depends on columns,
so here it may or may not happen. And `resize` fills all lines up with one and the
same cell array (`shared`), to which a later combining character is added in place:
it then changes other lines too, on the screen or in the scrollback (`smeared`).

### TerminalLine

A line is a sequence of `"cell"` and `"hole"`, the elements that JavaScript leaves
missing when an assignment is behind the end of the array. The cursor's column `x`
may be behind the width and behind the end of the line. The cursor may also be on
another line (`here`), where it moves all the same; a scroll or an insertion makes
the line that is looked at a new one. Splices, pops and assignments are those of
the code, with JavaScript's rule for indices behind the end. `charPosAbsolute`,
`cursorForward`, `cursorPos`, the tabs and CR leave the cursor within the width and
are one action; `cursorCharAbsolute`, `cursorBackward` and `restoreCursor` do not
compare it with the width. The alternate screen saves the line with `x`. A combining
character behind a cell changes no structure and is no step; in the first column
it is printed like any other, with no width.

### ShellServer

`table` is the descriptor table, `number[c][k]` the integer inside the `os.File`
(or connection) that session `c` uses, and `todo[c]` the deferred closes that its
handler still has to run. In Go 1.7 `Close` of an `os.File` closes the descriptor
and then sets the integer to -1, without excluding a `Read` that has already
loaded it: those are the two steps `Close` and `Mark`, and `Load` and `Enter` on
the other side. A connection counts its users and closes in one step. A refused
handshake, a failing open and a failing start each take the defers that the code
has run by then; the master that a failing `open` drops is left to `Finalize`.
What the goroutines do between two uses of the terminal is `ShellSession`'s, and
here may end them at any time. bash holds its own copies of the other side's
descriptor in its own process, so they are not in this table; neither are the
pipes of `exec`, which are closed before `Start` returns, and the descriptors of
static files.

### SettingsCache

`getEnv` has a value receiver, so it locks a copy of the mutex that nobody else
can hold; `Lock` and `Unlock` are therefore not steps. A lookup is a read of the
map and, on a miss, an assignment with a beginning and an end, between which Go's
map has its `hashWriting` flag set. A read or assignment that sees the flag may
end the process (`Throw`) or may miss it, since the flag is not synchronised;
overlapping assignments may lose an entry or leave it under another key
(`Outcomes`). Values are tagged records; a text is a tag and what tells it from
other texts, so that `%v` of a number (plain below `ExpFrom`, a million in Go,
with an exponent from there) is a conversion and not the identity.

## 3. Runs

Bounds are named constants: `MaxOut` (bytes of output), `MaxSent` (client frames),
`BufLen` (`io.Copy`'s buffer), `PtyCap`, `InCap`, `NetCap`, `MaxPayload`, and the
pattern length. The model's patterns are two bytes long, its buffer two, its
limit three: a message can be shorter than, equal to and longer than each.

| run | specification | checks | bounds |
|---|---|---|---|
| `session` | `Spec` | `TypeOK`, `WellFramed`, `NoOutputTwice`, `NoOutputLost`, `CopierInOrder`, `RuneWholeOrReplaced`, `InputFaithful`, `TornDownInOrder`, `ImplementsPipe` (refinement) | two bytes that may be one rune, room for a frame and a half, one client frame of any of thirteen kinds: three writers contend for `wio`, a chunk can be overtaken, a rune can be cut, the socket fills up, a frame can be cut or refused, a job may stay behind |
| `progress` | `FairSpec` | `InputFaithful`, `ExitReleases`, `InputDrains` | one byte of output and two frames, each a message longer than the input queue or a ping; a terminal that takes one byte at a time, a socket with room for one frame, jobs |
| `page` | `FairSpec` | `TypeOK`, `OneAttachment`, `NeverThrows`, `StaleRowsOrdered`, `KeysSentOnce`, `MessagesWrittenOnce`, `RepliesInOrder`, `DisplayCatchesUp`, `QueueDrains` | a terminal of two rows, three geometries (as opened; one column less and a row more; too small for one character, so one row less), two messages, two keys, two replies |
| `requests` | `Spec` | `TypeOK`, `RightUnlessRaced`, `WarmStaysWarm` | three requests, the handler's three lookups, an object and a JSON null |
| `screen` | `Spec` | `TypeOK`, `NothingElseThrows`, `BufferBounded`, `Displayed`, `HistoryKept` | three rows, a scrollback of three, four sequences or characters in any number of writes; regions of the whole screen, of one row, upside down and off the screen |
| `line` | `Spec` | `TypeOK`, `Solid` | widths of one and three columns, a cursor up to the fourth, any number of steps |
| `server` | `FairSpec` | `TypeOK`, `OwnDescriptors`, `OwnTerminal`, `NothingLeft`, `NobodyWaits`, `AllReleased` | two sessions, four descriptors (they need six), two goroutines each |

Deadlock is checked in all of them but `server`, where all sessions may be over;
otherwise the only states that may stop are those where
the handler and the goroutines have ended and the browser has gone, and where
every health request is answered or the process has ended (both `Over`). A page
never stops: it can be scrolled. Three rows tell the top, the bottom and a row in
between apart, four sequences are enough to fill the scrollback of three and have
it halved, or to change a line, scroll it off and act on the rest; a cursor one column behind the wider screen is three behind the
narrower one, so that a hole can lie within the wider one and behind it; four descriptors let one session run while the other fails at
each of its opens, and make numbers be reused at once. Two messages are enough on the page because the
debounces only tell a first order from a later one, and three requests on the
cache because two can overlap while the third reads.

Five runs show where the code does not do what the repository says (PROJECT.json,
`findings`, has the quotations):

| run | property | what happens |
|---|---|---|
| `order` | `OutputInOrder` | the second copier overtakes the first between its read and its `Send` |
| `tail` | `OutputComplete` | bash exits, and the connection is closed with output still unread |
| `answers` | `QueriesAnswered` | a reset empties the reply queue under its timer |
| `mounted` | `RowsStayMounted` | a scroll region below the last row, a scroll, and the painting throws with the rows out of the document |
| `isolated` | `Isolated` | bash exits, the number of the tty goes to another session, and a goroutine that had loaded it uses that file |

In `RowsStayMounted` lines with a gap are left aside, so that the counterexample is
about the scroll region.

More behaviours a reader may not expect are part of what the passing runs
state, not runs of their own. `InputWrapper` drops a whole message that begins with
an ignored sequence, with what was typed behind it (`InputFaithful`). A variable
that is a JSON number from a million on is reported with an exponent (`Sprint`). A
row changed by `insertChars` and its like may not be repainted (`unmarked`). Two
health requests on a cold cache can end the process (`RightUnlessRaced` has `raced`).
`CSI G` behind the last column, `CSI b` and a wider screen show a column without a
cell, where the painting throws (`Solid` and `NothingElseThrows` have `gapped`), and
a combining character behind a cell that `resize` has added appears on other lines
(`smeared`). A
pseudo-terminal that could not be opened completely keeps its descriptor until a
garbage collection (`AllReleased` needs the fairness of `Finalize`). A rune cut by the end of a read is replaced by
U+FFFD, twice (`RuneWholeOrReplaced`). The part of a frame that arrived before a
disconnect is written to bash as if it were the message (`InputFaithful`). And
`onclose` attaches again before the `detach` listeners run, so `detach` removes
the new closures and the first ones stay on the dead socket (`OneAttachment`).

**Fairness.** `FairSpec` assumes weak fairness of the handler and of each
goroutine: the Go scheduler runs what can run. Nothing is assumed of bash, its jobs
or the browser, so `ExitReleases` holds with a browser that never reads; it speaks
of sessions where bash and its jobs have ended. `InputDrains` is about sessions that
are `Attended`, where the browser takes frames off the socket and bash reads its
terminal; without that the input may wait for ever, and it should. Output is bounded in the
model, so `InputDrains` says nothing about a mutex that starves one goroutine
under endless output (Go 1.7's mutex makes no promise there). The page's
`FairSpec` assumes that the browser's event loop gets to every listener and every
timer that is due, and nothing of the user or the server. The server's `FairSpec`
assumes that handlers are scheduled and that the garbage collector, which Go
starts every two minutes at the latest, runs finalizers; nothing is assumed of
bash's exit, of the requests or of the goroutines.

## 4. Proofs

All are theorems `Spec => []...` for every value of the constants under the named
assumptions (`OutAssumption`, `WideAssumption`, `ModeAssumption`,
`BufLenAssumption`, `PatternAssumption`, `CapAssumption`), which only say that
bounds are natural numbers, capacities are positive and a rune's second byte does
not start another rune.

* `TypeCorrect`: `TypeOK` is inductive; it needs one conjunct beyond types, that
  stdin only writes from a non-empty buffer.
* `TeardownOrdered`: `HandlerInv` says what is open at each place of the handler
  and that no goroutine runs before bash does.
* `FramesWhole`: `WioInv` (the owner of `wio` is the goroutine that is writing)
  and `HeaderOut` (while the browser is there, the last piece in the socket is the
  header of the frame being written) make `WellFramed` inductive.
* `InputReachesShell`: `QueueInv` says that what is in the socket is the end of
  what was typed, so `Taken` grows by one frame with each `Receive`, also when the
  browser leaves in the middle of one. What the frames amount to is a
  `FlattenSeq`, a recursive definition; `SequenceProofs` shows that it grows by
  what the new frame gives (`FlattenAppend`), and `InputFaithful` is inductive
  with that: a short `write(2)` moves bytes from `ibuf` to `written`.
* `OutputOnce`, `OutputKept`, `CopiersInOrder`: `OutInv` adds `ChunkInv`, that
  every chunk lies below `consumed`; a new chunk lies above it, so it is disjoint
  from all others and above all earlier chunks of its copier. Steps are sorted
  into those that move no output (`Idle`) and the four that do.
* `RunesWhole`: by disjointness the two bytes of a rune are in different frames
  exactly when the first ends its frame and the second begins its own, which are
  the two places the encoder replaces.
* `PipeImplemented`: the refinement of `OutputPipe`, from the same invariant.

* `AttachedOnce`: `AttachInv` says what can be left in `calls` (nothing; the page's
  listener and one detach per attach; or detaches only, after a second attach) and
  which events the socket's state allows. The page's listener coming first is what
  makes every later attach be undone.
* `DisplayOrdered`, `ThrowsNothing`: `Covers` says that the one ordered painting
  covers what is stale and lies on the screen, or is a full one; `refresh` keeps
  that for a range (`RefreshCovers`) and establishes it for all rows, old or new
  (`RefreshAllCovers`), which is what `resize` needs. `ThrowsNothing` also needs
  `AttachInv`: nothing is registered while connecting.
* `WrittenOnce`: while the socket is open, `AttachInv` leaves exactly one message
  listener, so each message is appended once to what is written.
* `KeysGetSent`, `RepliesKeepOrder`: `SendInv` adds that keys and replies are
  numbered upwards and that nothing sent or queued has a number that is still to
  be given, so what is new comes behind all that is there. That a key is sent once
  needs `AttachInv` again (one listener on `data` while the socket is open); that
  the queue is sent once needs that its timer empties it in the same step.
* `PageTyped`: follows from the invariants above and `ScreenType`, which is
  inductive because `resize` does not go below one row and one column.
* `BufferKeepsShape`, `RowsGetPainted`:
  `BufferBounded` is almost inductive, since each operation inserts and removes one
  line at indices that the region bounds. What is missing is in `OneTimer`
  (one timer exactly when a painting is queued), `NamedInv` (every ordered range is on the
  screen) and `PendingInv` (the range of a write is on the screen and covers what
  differs from the DOM). Lemmas say what `InsertLine`, `RemoveLine` and `LastLines`
  do to the length and to the lines further up, which is where the arithmetic is.
* `ThrowsExplained`, `TerminalTyped`: `CellsInv`, a second invariant on top of the
  first: while nothing was written behind the end of a line, both screens consist of
  lines without a gap (`Whole`). Splices and slices make no others, the texts may
  change. A step of `write` that throws finds no line for its row, which takes a
  region off the screen (`NoLine`), or a gap; the painting finds a row that is not
  on the screen, a gap, or the rows out of the document already.
* `LinesStaySolid`: `LineInv` says that the line, and the one saved with the normal
  screen, have at least as many cells as the screen has columns and no hole. It is
  inductive because `resize` forgets the saved screen, and because a pop never takes
  the last cell but for one that is put back.
* `ScrollbackKept`: an action property, from the same invariant. Every splice is at a
  row of the screen, so the lines above are the old ones (`SameHistory`).
  `scroll` is the exception: `ScrolledLines` says that the line at `k` was at `k`
  plus what was trimmed, for the history and for the line that joins it, so the new
  history is the old one, the old one with the top line, or an end of either.
* `DescriptorsAreOwn`, `TerminalIsOwn`, `HandlersLeaveNothing`, `ServerTyped`:
  `Owned` and `Holds` say that `table` and `number` are inverse to each other
  except for a master between its `Close` and its `Mark`; `HandlerInv` lists what a
  handler may still have to close in each phase and what it can hold then;
  `CopierInv` that a number loaded while the session runs is the session's. A
  number is only given out when it is free, so nobody holds it.
* `RightAnswers`, `WarmForGood`, `SettingsTyped`: `CacheInv` says that before any race at most one
  request assigns and every entry is missing or right; a warm cache offers only
  hits, because no value is taken for a missing entry (`ParsedPresent`).

The assumptions on the constants of these modules (`PageAssumption`,
`SettingsAssumption`, `TerminalAssumption`, `LineAssumption`, `ServerAssumption`) give types, a
non-empty terminal, a scrollback of at least two lines and a non-empty list of
lookups.

Every invariant and action property of the passing runs is proved, but for the type
invariant of `TerminalLine`, whose bounds are the model's own. Induction over
data is done with sets: the library's induction theorems take a predicate, which
the provers cannot instantiate, but that a non-empty set of naturals has a smallest
element is a fact they can use (`SmallestOf`, `SetInduction`).

Left to TLC: the liveness properties (`ExitReleases`, `InputDrains`,
`DisplayCatchesUp`, `QueueDrains`, `NobodyWaits`, `AllReleased`), since the provers
have no rule for fairness; and the five runs that end in a counterexample.

## 5. Plan

1. `Terminal` and `TerminalLine` in one module, so that it is decided which lines
   with a gap throw, and not left open; widths of cells, of which `PutChar` only
   knows how far they move the cursor.
2. The parser of `write`: a `CSI` with several modes, and a reset in the middle of it.

### Not modelled

* Of the emulator: what a cell shows, attributes,
  character sets, tab stops, the key map, mouse encodings, the title. A `CSI` with
  several modes is several steps here; that its parameters are emptied by a reset in
  the middle is left out.
* Of the page: the buffered and one-way modes of `attach`, and the size poll, which
  are never switched on; `proposeGeometry`, which measures the DOM.
* Of the settings: `getService` and the typed getters, which nobody calls.
* The graceful shutdown that is vendored with goboot: `Serve` calls
  `http.ListenAndServe`, so it is never reached.
* The routes and the static files (fixed at start-up, no state), the scripts
  (straight lines of commands), logging.
* Third-party code in the tree that the program does not run: the R distribution
  and the C and C++ headers under `.apt`, and libraries vendored for others. Almost
  all lines of the repository are of this kind, so a share of lines says little
  about how much of the program is covered.
